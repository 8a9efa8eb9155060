# Verification of omscm-c

This directory holds a formal model of `omscm-c`, the Scheme interpreter in this
repository: TLA+ modules translated from the C source, TLC configurations that
check them on small instances, and proofs that the TLA+ proof system checks for
every instance. Paths below are relative to the repository's root (`src/...` in
the manifest `PROJECT.json`, which maps every definition to the lines it models).

- [The system](#the-system): parts, state, operations, interactions, hazards
- [The modules](#the-modules): what models what
- [The runs](#the-runs): what TLC checks, with which bounds
- [The proofs](#the-proofs): what is proved, from what, and how
- [Not modelled](#not-modelled)

## The system

A program is read (`sparse/`), becomes a list of pairs, and is evaluated
(`seval.c`, special forms in `slang.c`, primitives in `slib.c`) on objects
(`sobj.c`) that a mark and sweep collector (`sgc.c`) owns. Everything runs in one
thread. The difficulty is not concurrency between threads but the one between
the C code and the collector: any constructor call may collect, and then every
object that only a C local refers to is gone.

| part | state | operations | what makes it correct |
|---|---|---|---|
| storage manager (`sgc.c`, `sgc.h`) | the `gc_next` list, marks, `heap_size`, `next_collect`, `gc_enabled`, the shadow stack | `gc_malloc`, `gc_collect`, `gc_mark`, `gc_set_enabled`, `SGC_ROOTn`, `sgc_init`, `sgc_fini` | nothing reachable is freed; every garbage object is freed by the next collection; the byte count is exact; a collection ends and leaves no mark |
| constructors and visitors (`sobj.c`) | the fields of the objects | `X_wrap`: allocate, or root the arguments, collect and allocate once more; `X_gc_visitor` | arguments survive the collection; a field is never visited before it is set |
| hash tables (`sobj.c`) | `vec`, `hash_mask`, `nb_items` | `dict_lookup` (three flags), `dict_rehash`, `dict_get_keys` | a finite map, through every resizing; entries keep their identity |
| symbol table, environments (`sobj.c`) | one hash table; a chain of them | `symbol_intern`; `environ_bind`, `_def`, `_set`, `_lookup` | one symbol per name; bindings are found in the innermost scope and written in place |
| evaluator (`seval.c`) | frames on the shadow stack | `eval_frame` with its tail calls, `frame_extend`, `apply_procedure` | it computes what the program means; frame layout; everything live is in a slot; tail calls take no stack |
| primitives (`slib.c`) | the table `library`, bound in the first environment | one C function per primitive, with its arguments above its frame | a wrong number of arguments, and where the code looks a wrong type, ends the process; the rest is computed from the arguments alone |
| escape continuations (`slib.c`, `seval.c`) | a `jmp_buf` pointer and a value in an object | `lib_call_ec`, `econt_clear`, `longjmp` | only a continuation whose C frame exists is entered |
| special forms (`slang.c`) | the expression in the frame | `lang_if` ... `lang_lambda_syntax`, `expand_quasiquote` | evaluation order; the expansion of a template |
| loading (`slib.c`, `scm_syntax.y`) | `prog_expr`, `gc_enabled` | `sparse_do_string`, `sparse_do_file`, `execute_expr_list` | no collection while the parser holds unrooted objects |
| `main.c`, scripts, build | - | boot, read-eval-print loop | - |

How they interact. The evaluator and the primitives call constructors with the
frame pointer; a constructor calls `gc_malloc`, and on `NULL` pushes its
arguments below the frame pointer and calls `gc_collect`, which scans from that
frame pointer to the end of the stack, calls back into `sobj.c` through the
visitor table, and sweeps. The parser's actions call the same constructors with
`frame == NULL`, which works only because `gc_set_enabled(0)` turns both the
rooting and the collector off. Environments and the symbol table are hash tables
whose entries callers keep and write after `dict_lookup` returned.

The behaviours that are hard to test, at the lines where they bite, are the
`hazards` of `PROJECT.json`, with the properties that cover them. Four have a note
instead that says why none does: floating point sums (`slib.c:246`), `begin`, `apply`
and `quote` bound anew by the program (`seval.c:363`), the second evaluation of the
argument of `call/ec` (`slib.c:967`), and the hash of a key that is not a symbol
(`sobj.c:615`).

## The modules

### Storage manager

- `ObjectGraph`: reachability over an object graph, stated as the least closed
  set (so that it can be reasoned about without induction), used by everything
  below.
- `AbstractHeap`: what the storage manager promises. The program allocates,
  stores and moves along pointers; a collection keeps exactly the reachable
  objects. No marks, sweep, threshold or stack.
- `Sgc`: `gc_malloc`, `gc_collect` and the constructors' calls of them, with the
  interpreter as their client.
- `MCSgc`: object sizes and the symmetry set for TLC.
- `ObjectGraphProofs`, `AbstractHeapProofs`, `SgcProofs`: the proofs.

State. `objs` is the `gc_next` list with `gc_head` first; `ref[a]` the pointer
fields of object `a` in the order its visitor follows them; `marked` the objects
whose `gc_marked` is 1; `stack` the slots from the frame pointer up; `rooted` what
`SGC_ROOTn` pushed below it; `held` the objects in C locals; `req` the constructor
call under way; `pending` what the recursion of `gc_mark` has still to look at, the
C stack of `gc_mark` and its visitors in order; `cursor` the `self` of the sweep
loop. `NULL` and the static objects (`nil`, `#t`, ...) are one value, `Null`:
the collector passes by the ones and marks the others to no effect, since they are
on no list and have no fields. (Their marks are never cleared; nothing reads them.)

Actions. `Call`, `MallocOk`, `MallocNull`, `OutOfMemory` are a constructor; the
values a C caller holds in locals are dropped by `Call` when the collector is on,
which is the contract `SGC_ROOTn` exists for. `CollectBegin`, `Mark` (one turn of
the loop of `gc_mark`), `MarkDone`, `Sweep` (one link), `SweepHead`, `ClearMarks`
are `gc_collect`, in the order of the code. `Push`, `Pop`, `Load`, `Store`, `Dogc`,
`ParseBegin`, `ParseEnd`, `Fini` are what the interpreter may do between two calls.
This client is the most general one that keeps the rooting contract: what the
evaluator really does is one of its behaviours.

Abstractions. A slot that holds a saved frame pointer is not modelled:
`gc_collect` skips such slots. Types without pointers are one type, `fixnum`;
`environ` and `dict` objects have the shape of `pair` and `macro` (two fields, one
field). A type's size is a constant; a vector's length is one constant. The
initialised fields are set in the step that allocates: nothing can run between
`gc_malloc` and the assignments in these constructors. (Where something can, in the
functions that allocate more than once, is the subject of `Rooting`.)

### Hash tables

- `FiniteMap`: the promise, a finite map with what each query returns.
- `Dict`: `dict_lookup`, `dict_rehash`, `dict_get_keys` and their callers.
- `MCDict`: a hash function with collisions, one of them on a negative hash.

State. A bucket is the sequence of its entries, the newest first; an entry is an
identity with a key and a value in `cell`, because callers keep the pair and write
its `cdr` later. `dict_rehash` is a loop of steps (`RehashMove`,
`RehashNextBucket`, `RehashEnd`) with the old vector in place until the end, as in
the code. `dict_get_keys` is the same walk (`KeysBegin`, `KeysPut`, `KeysNextBucket`,
`KeysEnd`) with `ret` as its `retval`. Each other operation is `Begin`, a lookup,
possibly a rehash, and the caller's `Return...` step, so the window between
`dict_lookup` and `pair_set_cdr` is there. The limits `1.5` and `0.3` are compared in
integers. Keys that are not symbols are left out: `symbol_hash` reads the hash field
of whatever object it is given. So are the argument counts, which `Terms` has.

The refinement to `FiniteMap` counts a write as done when its entry has been found
or made, since its caller only has to finish (`contents`), and shows no keys before
the walk over the buckets has ended (`returned`).

### Evaluator

- `Terms`: objects as values, and the primitives that look at nothing but their
  arguments and the vectors and hash tables.
- `Evaluator`: `eval_frame` with the special forms, the application of procedures,
  closures and continuations, the primitives that evaluate, and `execute_expr_list`.
- `MCEvaluator`: the reference semantics, a recursive evaluator in the direct style
  without frames or stack, and the programs that both run.
- `EvaluatorProofs`: the proofs about frames, then those about objects and what keeps them
  from the collector.

State. `stack` is the shadow stack, growing at its end: a frame pointer is its length,
and `frame_ref(stack, i)` the i-th slot from the pointer up. `acts` are the C functions
that wait for an `eval_frame` they have called, the innermost last: where each resumes
(`at`), its frame pointer (`height`), and the C locals it reads then. `locals` are those
of the `eval_frame` that runs (`orig_frame`, `argc`, `i`, the callable), `pc` its place
in the code, `val` what the last call returned. `envs` is every environment made, `jmp`
the `env` field of every continuation (how deep in `acts` its `lib_call_ec` lies),
`store` what vectors and hash tables hold, `input` and `output` what is still to be read
and what has been printed.

Actions.

| actions | code |
|---|---|
| `EvalSelf`, `EvalRefused`, `EvalSymbol`, `EvalMacro`, `EvalOperator` | the cases of `eval_frame`; `macro_expand` |
| `LangIf` ... `LangAssignRefused` | `slang.c`, each up to its first call of `eval_frame` or its return |
| `IfDone`, `DefineDone`, `SetDone`, `BeginNext`, `MacroDone`, `OperatorDone`, `ArgumentDone`, `CallEcDone`, `LoadNext` | what each caller of `eval_frame` does with the value |
| `PushCallable`, `PushArgument`, `ArgumentsPushed`, `EvalArgument`, `ArgumentsDone` | from `apply_reentry` to the call: the slots, one by one |
| `ApplyEval`, `ApplyApply`, `ApplyClosure`, `Throw`, `ApplyOther` | what `eval_frame` does itself with a callable |
| `ApplyLibrary`, `lib_...` | `apply_procedure` and the primitive |
| `Return` | `eval_frame` returns: the waiting function has its frame pointer and locals back |

A tail call is the step that writes the expression into the frame and goes to `"eval"`;
a C call is the one that appends to `acts`; `longjmp` cuts `acts` off. `"lost"` is
undefined behaviour: an index out of a vector's bounds, a type that is not checked, a
jump to a C frame that is gone. The slots that `frame_extend` adds are not counted
against the end of the 8K stack, because the code does not (`seval.c:64`).

Abstractions. Pairs are values, so what changes or compares their identity is left out
(see [Not modelled](#not-modelled)). Integers have no bound. A line or a file is the list
of expressions the parser makes of it; `Expressions` is the set of these and all their
parts, and `TextAssumption` what bison guarantees of them: a pair ends, a number is one,
a file is not empty. Vectors written in a text are left out. Allocation and collection are in `Sgc` and
`Rooting`; what connects them to this module is `LocalsRooted`, the contract that the
client of `Sgc` keeps. Hash tables are functions, which is what `Dict` shows.
`(call/ec proc)` evaluates the expression `(proc econt)` as the code does, and the body
of a closure is `(begin ...)` and the use of a macro `(apply rules (quote args))`, looked
up where they are evaluated; the reference semantics has no such detours, so the programs
compared do not rebind those three names and pass procedures to `call/ec`.

### Functions that allocate more than once

- `Rooting`: two dozen functions of the C code as sequences of steps over their C
  locals, and what any such sequence does when its allocations may collect.
- `RootingFlow`: a data flow analysis of these sequences: which locals are safe to read,
  where.
- `MCRooting`: the fifteen places from which the functions are run, each with its data
  (`World`, `Case`), the facts that the analysis finds (`KnownFacts`), and what is to have
  come out (`Expected`).
- `RootingProofs`: the proof that the analysis is sound.

State. `local` is the C locals, `stack` the slots from the bottom up to the frame pointer,
`saved` the frame pointers of the callers, `heap` the pointer fields of the objects, `freed`
the addresses freed. `fn` and `pc` are the function and the number of its next step. While a
constructor collects (`collecting`), `marked` is what the collection has reached; `wild` is
set when a visitor has followed an unassigned field.

Actions. A function is a sequence of `New` (a constructor call), `Root` (`SGC_ROOTn`),
`Poke` (a slot written), `Copy`, `Get` and `Put` (locals and fields assigned), with `While`,
`If` and `Either` for its branches; a function with a frame pointer of its own is wrapped in
`Function`, and returning from it drops what it rooted. There is one action for each kind of
step. A constructor call is `NewAtOnce`, or `Collect`, `Mark` wave by wave and `Sweep`,
which then makes the object; `MarkWild` is the visitor at an unassigned field.

Abstractions. A collection marks in waves, not in the order of `gc_mark`, and keeps what
`Sgc` shows of the real one. Addresses are not reused, so a stale pointer is always noticed.
A field is `Junk` between `malloc` and its first assignment. Lists end in `()`. `Either` is a
branch that a hash, a key comparison or a number of items decides, which belong to `Dict`.
`evaluated` stands for `eval_frame` and for the expansion of an element: all that matters
here is that they may collect and return something that is in no slot. Lists and hash
buckets may have any length; the loops over the elements of a vector are unrolled (tables of
two buckets, a list of three to be made a vector, a vector of two to be made a list), and
closures are applied with the formals `(x . rest)` to two arguments.

The facts. Before each step `RootingFlow` knows of the locals which are `live` (not
freed), which slots reach them (`held`) or hold them (`direct`), which is the field of which
(`links`), which differ (`apart`), which of their fields may be unassigned (`unset`), and how
many slots there are. `After` is what a step does to the facts, `Allows` what it demands of
them, and `Verified` that they agree on every way through the function. An assignment to a
field is the hard case: it may cut off what a slot reached by that field, unless what the
field held is a field of the new value (`Keeps`), as when an element is taken out of a list.

### Escape continuations

- `Escape`: `lib_call_ec`, its continuations, and their application.
- `MCEscape`: the symmetry set.
- `EscapeProofs`: the proofs.

State. `calls` are the active calls of `lib_call_ec`, each by its continuation, `env`
and `aux` the fields of the continuation objects, `named` the continuations that the
program can reach, `freed` those that a collection has freed. The `jmp_buf` of a call
is in its C frame; `env` is how deep that call is. `thrown` and `skipped` are history
variables: the last throw, and the calls that throws to outer ones have ended.

Actions. `CallEc` is `lib_call_ec` down to `eval_frame`; `Return` and `Land` are its
two ways to end, both through `econt_clear` (`EndCall`); `Throw`, `ThrowOutside` and
`Refuse` are the branch of `eval_frame` that applies a continuation; `Lose` is any
step of the program that drops its last pointer to one; `Collect` is a collection.

Abstractions. Two calls at the same depth have their `jmp_buf` in the same place, which
is one of the outcomes of jumping through a dead one; `lost` and `overwritten` stand
for the others. The call that a throw runs in does not matter: every frame between is
unwound alike.

### Quasiquote

- `Quasiquote`: `expand_quasiquote` and `pair_copy_list` on the pairs that they copy and
  relink, one action per turn of a loop.
- `MCQuasiquote`: templates, the values of the unquoted expressions, the pairs that both
  are made of, and the reference expansion of a template.

State. `program` is what the program has: its pairs, the template and the values of
expressions. `heap` holds the pairs, first those of the program, then the copies; `calls`
the recursive calls that are in their loop, each with `content`, `iter` and `next` (and the
first pair of its copy, for the proofs); `copy` the locals of `pair_copy_list`;
`result` and `flag` what a call returned; `result` is `got` while its last pair is looked
for.

Actions. `ExpandConstant`, `ExpandUnquote`, `ExpandList` are the ways into the function;
`CopyFirst` (in `ExpandList` and `SpliceList`) and `CopyNext` are the copy, `ContentCopied`
and `GotCopied` what its two callers do with it; `LoopCall` is the recursive call for the
element behind `iter`; `PutOne`, `SpliceNone`, `SpliceList`, `Walk`, `WalkDone` what the
loop does with what it returned; `LoopDone` returns. The ways to `fatal_error` are actions
too: an unquote without a body (`pair_cadr`), a list that does not end in `()` and an atom
to be spliced in (`pair_copy_list`).

Abstractions. What an expression evaluates to is given with the program: evaluating it
returns, and relinks nothing. A quasiquote in a template is left alone, as in the code
(`slang.c:235`, "NESTED QQ..."). A template that ends in `. ,x` is read as a list with the
symbol `unquote` in it, which the code does not look for; such templates are not among
those of the runs.

### Slips

Operators described as *slips* (`HeadIsKept`, `StaleMask`, ...) are plausible
mistakes in the definition that follows them. No action uses them: they are
substituted for that definition to see that a property notices.

## The runs

| run | instance | shows |
|---|---|---|
| `sgc_pairs` | 3 addresses, pairs and fixnums, 1 stack slot, 1 C local | `TypeOK`, `NoDangling`, `MarksClean`, `HeapSizeExact`, `FatalOnlyWhenNoGarbage` over every graph on three objects, cycles and sharing included |
| `sgc_kinds` | 2 addresses, closure, vector, econt, fixnum, 1 slot, 2 locals, fairness | the inductive invariant `IInv` and `ImplementsHeap`, with visitors of one, two and three fields; `NoDangling` while the parser runs with nothing rooted; `CallsReturn`: a constructor returns or the process ends |
| `sgc_out_of_memory` | 2 addresses, a vector of length 3 | *violated*: see below |
| `rooting_results` | fifteen functions | `CallsVerified`: the analysis verifies them all, which the theorems assume; `WildOnlyInRehash`, `OperandsAlive`, `NoDangling`, `ResultIntact`: no visitor is sent to an unset field but in a resizing, no freed object is read or referred to, results are complete |
| `rooting_rehash` | the insertion and the deletion that resize a table | `NoWildVisit` *violated*: see below |
| `escape_scopes` | 4 continuations, 2 values | the inductive invariant `IInv`, `ActiveInPlace`, `StaleOnlyIfSkipped`, `ThrowDelivers` |
| `escape_out_of_scope` | 2 continuations, 1 value | `OutOfScopeRefused` *violated*: see below |
| `escape_clears` | 2 continuations, 1 value | `ClearsItsOwn` *violated*: see below |
| `quasiquote_expands` | 2691 templates: up to 3 simple elements, up to 2 with lists in them | `Expands`, `InOrder`, `OriginalsIntact`, `NextFollowsIter` |
| `quasiquote_next_iteration` | 43 templates of up to 2 elements | `NextIterationCorrect` *violated*: see below |
| `dict_map` | 5 keys, 5 entries, 2 values, initial length 1 | the inductive invariant `IInv`, `TypeOK`, `WellPlaced`, `CountExact`, `LoadBounded`, `ResizingSettles`, `EntriesStay`, `ImplementsMap` through growing to 4 buckets and shrinking to 2 |
| `evaluator_programs` | 2270 programs | `Computes`: the process ends as the reference semantics says, having printed the same objects; the inductive invariant `IInv`, `ApplyLayout`, `TailCallsTakeNoStack`, `LocalsRooted`, `FramesIntact`; `Halts` |

Bounds. Three addresses are the fewest with a list that has a head, a middle and
an end, and a graph with a cycle next to garbage. One stack slot and one C local
suffice to build every graph on them, because an object's fields can be reached and
overwritten through any object that is held; `sgc_kinds` has two locals, so that the
parser can hold two objects that nothing refers to. (`macro` is left to the proofs: a
macro is to the collector what a continuation is.) `MIN_HEAP_SIZE` is 4 units, two pairs,
so that collections happen by the threshold as well as by `malloc` returning `NULL` (all addresses in
use). In `dict_map` an initial length of 1 instead of 8 makes the same code grow
twice and shrink once with five keys: the limits are relative to the length, and
the guard against shrinking, `length > DICT_INIT_SIZE * 2`, is hit on both sides.
Symmetry is over addresses, entries, continuations and thrown values, which no
definition tells apart, and is not used in the run with liveness. Four continuations
give `escape_scopes` two nested calls, a third one skipped and a fourth at the depth
of the skipped one. `Rooting` has no bound but its data:
lists of two and three, the fewest with a first, a middle and a last round, and a full table.
The templates of `quasiquote_expands` have up to three elements, so that each kind of
element comes before, between and behind each other kind; one of the spliced values
contains an `unquote` of its own; ill-formed templates (an unquote without a body among
them) and values occur.
`evaluator_programs` starts in one initial state per program, and evaluation is
deterministic, so the bound is the set of programs. `Generated` is every expression of
14 heads (primitives, special forms, a closure) and up to two of 10 operands, some of
which print, assign or are no expression; `Throws` the same inside a `call/ec` with
operands that throw, to the inner continuation or the outer one, from files, macros and
`eval`, and each program ends by throwing to the continuation noted last, which has
returned or was skipped. `Sessions` are all inputs of up to two lines of the
read-eval-print loop of `main.c`. The rest are written for a case each: loops by tail
calls through `if`, `begin`, `eval` and `apply` (`Loops`), closures that share a variable
and rest arguments (`Scopes`), `Macros`, `Escapes`, `Applications`, `Malformed` forms and formals,
`Loads` and `Objects` shared by two names.

Deadlock is checked everywhere; a process that has ended, and a function that has
returned, stutter by an action of their own (`Exited`, `Stopped`, `Done`).

Fairness. `FairSpec` asks weak fairness of the storage manager's steps only: it is
sequential C that runs to its end once called. Nothing is asked of the program. In
`Evaluator` the program is fixed from the start and all steps are those of one thread:
`WF_vars(Next)`. `Halts` is then about the programs of the run, every one of which has a
meaning: the interpreter does not loop on them.

`sgc_out_of_memory`. `gc_malloc` refuses an allocation that would take `heap_size`
over `next_collect` and does not call `malloc` (`sgc.c:82`). The constructors
collect and try once more, and the second refusal is `fatal_error("out of memory")`
(`sobj.c:797`). After a collection the threshold is half as much again as the live
heap, and 2 MB at the least, so one vector larger than what is left below it ends the
process with memory to spare. `FatalOnlyWhenNoGarbage` states what does hold: no
garbage was left that could have made room.

`rooting_rehash`. `dict_rehash` roots its new table object before the object has a
vector, and the call that makes the vector may collect (`sobj.c:994-999`). The visitor
of the object then returns an unset pointer to `gc_mark`. `environ_wrap` and
`dict_wrap` clear the field first, and `WildOnlyInRehash` shows that this is enough.
The rest of `dict_rehash` is sound: `rooting_results` includes both resizings, with the
unset field holding nothing harmful.

`escape_out_of_scope`. Only the end of `lib_call_ec` clears a continuation's `env`, and
a throw to an outer call skips it. If the program kept the inner continuation, it later
passes the check that would report "continuation already out of scope"
(`seval.c:305-307`) and jumps to a frame that is gone. `StaleOnlyIfSkipped` states that
there is no other way to a stale `env`.

`escape_clears`. The C local `cont` of `lib_call_ec` is in no slot but that of the
expression it evaluates, which a tail call overwrites (`seval.c:369-370`). If the
procedure drops its argument and a collection runs, `econt_clear(cont)`
(`slib.c:977`) writes to an object that has been freed.

`quasiquote_next_iteration`. A splice of the empty list takes its element out of the
copy by linking `iter` to what follows (`slang.c:298`). The loop then moves `iter` to
that following element, and the next one it expands is the one after: `` `(,@args ,x) ``
with no `args` expands to `((unquote x))`. `Expands` states that this is the only case
in which the expansion is wrong, and `InOrder` the same of the order of evaluation.

## The proofs

`tlapm SgcProofs.tla` (and the other proof modules) checks, for every set of
addresses, every object size, vector length, threshold and bound; for every set of continuations
and values; for every program, file and input; for every template of every program; and
for every set of keys, values and entries, every hash function and initial length:

| theorem | states |
|---|---|
| `AbstractHeapProofs!HeapSafety` | in the abstract heap what is reachable is live |
| `SgcProofs!Invariance` | `Spec => []IInv` |
| `TypeCorrect`, `Safety`, `CleanMarks`, `NoGarbageWhenFatal` | `TypeOK`, `NoDangling`, `MarksClean`, `FatalOnlyWhenNoGarbage` |
| `Accounting` | `HeapSizeExact` |
| `Refinement` | `Spec => ImplementsHeap` |
| `EscapeProofs!Invariance` | `Spec => []IInv` |
| `Placement`, `Staleness`, `Delivery` | `ActiveInPlace`, `StaleOnlyIfSkipped`, `ThrowDelivers` |
| `EvaluatorProofs!InvariantHolds` | `Spec => []IInv` |
| `LayoutHolds`, `TailCallsHold`, `FramesStayIntact` | `ApplyLayout`, `TailCallsTakeNoStack`, `FramesIntact` |
| `ObjectsHold` | `Spec => []RInv`: whatever is computed is an object, and the slots and locals hold what the code relies on |
| `RootsHold` | `LocalsRooted` |
| `RootingProofs!FactsHold` | `Spec /\ []CallsVerified => []IInv`: what the analysis says of the locals, slots and heap is true |
| `LocalsAlive`, `NothingDangles`, `OnlyRehashIsWild` | under the same condition `OperandsAlive`, `NoDangling`, `WildOnlyInRehash` |
| `QuasiquoteProofs!Invariance` | `Spec => []IInv` |
| `ProgramUntouched`, `LoopKeepsItsPlace` | `OriginalsIntact`, `NextFollowsIter` |
| `DictProofs!Invariance` | `Spec => []IInv` |
| `TypeCorrect`, `Placement`, `Counting`, `ShortBuckets` | `TypeOK`, `WellPlaced`, `CountExact`, `LoadBounded` |
| `Settling`, `Keeping` | `ResizingSettles`, `EntriesStay` |
| `Refinement` | `Spec => ImplementsMap` |

Assumptions: `NULL` is not an address, a continuation, a value or an entry, the object types are among those of the
module and include `fixnum` (which `(gc)` returns), sizes and lengths are naturals, a
hash is an integer for each key and the initial length of a table at least 1.
Of programs, files and input only `TextAssumption` is assumed: that they are what a parser
can make of a text; of what a template is expanded in only `ProgramAssumption`: that an atom
is not a pair, and that the parts of a pair, the template and the values are objects. Its
pairs may form any graph, cycles included. `Rooting`'s `ProgramAssumption` says that an
address is no `NULL`, `()` or unassigned field, and that a function starts with locals, slots
and a heap that have been assigned. Its theorems hold of the functions that the analysis
verifies, `CallsVerified`, which does not depend on the data and which `rooting_results`
checks of the fifteen functions.

The argument. `NoDangling` is not inductive: while the sweep runs the list still
holds garbage that points at objects already freed. `HeapClosed` says which objects
count, `live`: the allocated ones, and during the sweep the marked ones. Live objects
hold the roots and point only at live objects, so what is reachable is live
(`ReachLeast`, reachability being the least closed set) and what is live is on the
list. A step of the program keeps this because it gives an object only pointers that
are held. The switch of meaning happens in `MarkDone`, and it is sound because of
`MarkTricolour`, the classical invariant of marking: what a marked object points at
is marked or pending, and so are the roots; when nothing is pending the marked objects
are closed. It starts in `CollectBegin` because `CallRooted` says that the arguments
are among the slots scanned and that no C local matters any more. `SweepBehind` and
`ListSound` (no object twice on the list) carry the marked objects through the sweep
to the end, where the list is what is marked, and `MarksClean` closes the circle: the
next marking starts with no mark. `LiveIsReachable` is the other half, that nothing
unreachable is ever marked, from which `NoGarbageWhenFatal` and the refinement's
`Collect` step follow. In the refinement, `MarkDone` is the abstract collection and
the sweep is invisible.

`HeapSizeExact` compares the counter with a sum over the list, which the code never
computes. It is kept because every step adds one object at the end or takes one out: the
sum is a function defined by recursion over the positions of the list, so that the sums
of two lists that agree up to a position agree there (if not, there would be a least
position where they differ; `LeastMember` of the proofs takes the place of an induction),
and behind an object that is taken out they differ by its size.

In `Escape`, `StaleOnlyIfSkipped` needs `ActiveInPlace`: a throw cuts the calls at the
depth in `env`, and only because an active call's `env` is its place does it cut at the
call that is meant. `CallsMade` makes a new continuation different from the active
ones. `ThrowDelivers` is about the step after the throw, so what the throw has left
(`Delivering`) is part of the invariant; that the call is the right one follows from
`ActiveInPlace` if it is active, and otherwise `StaleOnlyIfSkipped` says that it was
skipped, which is what the property excludes.

In `Evaluator`, none of the three properties is inductive. `IInv` says of every C
function, the one that runs and each that waits, where its frame pointer lies relative to
the frame pointer of its caller (`Placed`; three slots above it for `eval_frame`, three
more for a special form, the callable and the arguments for an application), and that
the frame pointers ascend (`Frames`). What a waiting function has in its slots is then
below everything a step may write, which is `FramesIntact` and, for the callable and the
arguments, `LaidOut`; so when the function resumes, its `Placed` is as it was. There is
one lemma for each pattern of step (a return, a tail call, a C call, an application that
pushes) and one step of the proof for each action. `TailCallsTakeNoStack` is the conjunct
of `Placed` for `"eval"`.

`LocalsRooted` says where the value of a C local is, a piece of what is in a slot, and is
kept only if the loops that walk a list stay inside of it. That is so for lists, and what
is walked may have been computed: by a primitive, the expansion of a macro, `eval`. Hence
`RInv` has two halves. `World` says that environments bind objects, that an environment
lies inside an earlier one (so that the search through the scopes ends, again by a least
member), that vectors and hash tables hold objects and that what is left to read is what a
parser has made. `Machine` says that slots and returned values are objects, and of each C
function what it relies on when `eval_frame` returns (`Holds`): the environment in its
frame, and the slot of which its locals are pieces. To be an object is to be in a set
that has all parts of its members (`IsObject`), which avoids a recursive definition: a
set closed in this way stays closed when environments are added, and the union of closed
sets is closed, so a new pair or closure lies in one with its parts. There is a lemma for
each primitive and each action.

In `Rooting`, a run covers the lists and tables of `World`; the proofs cover all heaps, by
showing that the analysis is sound. `IInv` says that the facts before the next step are true
(`FactsTrue`), that no slot and no allocated object refers to a freed one, that what is
marked is not freed and includes what the slots hold (`MarkOK`), and that `wild` comes from
an unassigned field (`WildOK`). That a slot
reaches an object (`Reaches`) means that every set which holds the slot's object and is
closed under the fields holds this one: no induction along paths is needed, the marked
objects at the end of a collection are such a set, and so is what is not freed. There is a
lemma for what an allocation and an assignment leave reachable (`ReachesAppend`,
`ReachesSetField`, `ReachesChanged`), and one for each kind of step, which shows that
`After` is true behind it. A local that is held is then not freed by a sweep, and one that a
step reads is `live`. That every unassigned field is among `unset` makes the visitors safe
wherever `unset` is empty, and `Allows` lets a constructor be called otherwise for
`dict_rehash`'s new vector only. (`Reaches` ranges over all sets of objects, so this `IInv`
is proved but too large for a run; what follows from it is in `rooting_results`.)

In `Quasiquote`, `OriginalsIntact` needs to know that what a loop writes is its copy, and
`NextFollowsIter` that what is written while it waits is not. Both follow from where the
pairs are: those made since a copy was begun lead only to each other or to `()` (`Closed`),
so a loop that starts in its copy stays behind its first pair, splices included; and the
pairs that an outer loop looks at are before the first pair of every inner one
(`CallsNested`). `HeapStep` is what a write behind a given pair leaves true, and there is
one lemma for each action. No length or end of a list is needed, so there is no recursion.

In `Dict`, `Table` is what the next operation relies on: the buckets hold exactly the
entries, each once and in its place, and `nb_items` counts them. During a walk `Left` is
what it has still to come to, the rest of its bucket and the buckets behind, without
repetition (`Walking`); the vector being filled holds exactly the others in their places
(`Moving`), and so does the list of keys (`Listing`). When nothing is left the new vector
holds everything, and `Table` is back. `Load` remembers why a resizing was begun, which
bounds the number of entries from both sides: hence `LoadBounded` and `ResizingSettles`.
`Handed` says that the entry a caller keeps is that of its key. The refinement shows the
map entry by entry (`Shown` in the proofs): an insertion, a deletion, and any step
that moves entries about without touching them are each a lemma.

Only model-checked: the liveness properties `CallsReturn` and `Halts`; and what is compared
with or computed by recursive operators, which the prover cannot expand: `Computes`,
`ResultIntact` of `MCRooting`, and `Expands` and `InOrder` of `MCQuasiquote`. `CallsVerified`
is a computation over the text of the functions, and is the condition of the theorems of
`RootingProofs`.

## Not modelled

- Pairs with an identity in the evaluator: `set-car!`, `set-cdr!`, `eq?`,
  `list-copy`. In `Terms` a pair is a value; mutable pairs are in `Sgc`, `Rooting`, `Dict`
  and `Quasiquote`.
- Doubles: floating point arithmetic is outside TLC's reach.
- The spelling of symbols: `symbol->string`, `string->symbol`, `gensym`, `hash`. The
  string hash is a constant function of `Dict`.
- The form `quasiquote` as a step of the evaluator: its expansion is `Quasiquote`.
- `hash-keys` as a primitive of `Terms` (the order of its list depends on the hash; its
  function is in `Dict`), `(gc)` (it is `Dogc` of `Sgc`), and the primitives that print
  information about the run.
- The grammar and the lexer, which are input to bison and flex: a text is what they make
  of it. The region in which the collector is off while they work is in `Sgc`.
- Printing and debugging functions (`gc_print_*`, `gc_find_backptr_of`, stack traces, the
  wording of errors), which change no state, and `ALWAYS_COLLECT`, a debugging build that
  is commented out (`sobj.c:9`) and collects before each allocation.
- The line editor, and the library of macros in `scripts/lambda-syntax.scm` that `main.c`
  loads first: programs of `MCEvaluator` define the macros they use.
- `udata` objects, which nothing makes.
