-------------------------------- MODULE Sgc --------------------------------
(* The storage manager of sgc.c with the object constructors of sobj.c that *)
(* call it: gc_malloc with its threshold, the shadow stack, SGC_ROOTn, and  *)
(* gc_collect taken apart into the marking of the roots (gc_mark and the gc *)
(* visitors, one object at a time), the sweep of the gc_next list (one link *)
(* at a time, its head last) and the clearing of the marks.                 *)
(*                                                                          *)
(* The interpreter is its client: it pushes and pops stack slots, follows   *)
(* pointers, overwrites fields, calls constructors, calls (gc), and parses  *)
(* with the collector switched off.  What it holds in C locals is held; a C *)
(* local does not survive a call of a constructor unless it is on the stack *)
(* or the collector is off, which is the discipline SGC_ROOTn exists for.   *)
EXTENDS Integers, FiniteSetsExt, SequencesExt, ObjectGraph

CONSTANTS
  Addr,           \* addresses that malloc may return
  Null,           \* NULL, and the static objects (nil, #t, #f, ...), which
                  \* are on no list and have no fields: gc_mark passes by
  ObType,         \* the constructors in use; fixnum stands for every type
                  \* without pointers (flonum, string, symbol, proc, specform)
  ObSize,         \* ob_size of an object of each type, header included
  VectorLength,   \* nb_alloc of the vectors
  MIN_HEAP_SIZE,  \* the least threshold
  MaxStack,       \* bound of the model: slots pushed at the same time
  MaxHeld         \* bound of the model: objects held in C locals

ASSUME NullAssumption == Null \notin Addr
ASSUME TypeAssumption ==
  /\ ObType \subseteq {"fixnum", "pair", "closure", "vector", "macro", "econt"}
  /\ "fixnum" \in ObType                         \* which (gc) returns
ASSUME SizeAssumption == /\ ObSize \in [ObType -> Nat]
                         /\ MIN_HEAP_SIZE \in Nat
                         /\ VectorLength \in Nat

VARIABLES
  objs,           \* the objects on the gc_next list, objs[1] is gc_head
  ref,            \* ref[a]: the pointers in object a, in the visitor's order
  ob_type,        \* ob_type[a], for an allocated a
  heap_size,
  next_collect,
  gc_enabled,
  stack,          \* the slots from the frame pointer to the stack's end
  held,           \* the objects in C locals (and prog_expr, while parsing)
  rooted,         \* what SGC_ROOTn put below the frame pointer
  req,            \* the constructor call under way
  pc,             \* where the storage manager stands
  marked,         \* the objects with gc_marked = 1
  pending,        \* what the recursion of gc_mark has still to look at
  cursor          \* the position of the sweep's self in objs

heapVars == <<objs, ref, ob_type, heap_size>>
rootVars == <<stack, held, rooted>>
gcVars   == <<marked, pending, cursor>>
vars == <<heapVars, next_collect, gc_enabled, rootVars, req, pc, gcVars>>

Ref == Addr \cup {Null}
Allocated == Range(objs)

\* The pointers a constructor is given, which are those it roots.
NbArgs(type) == CASE type = "pair" -> 2
                  [] type = "closure" -> 3
                  [] type \in {"vector", "macro"} -> 1
                  [] type \in {"fixnum", "econt"} -> 0

\* The fields a constructor fills in before it returns.
Fields(type, args) == CASE type = "vector" -> [i \in 1 .. VectorLength |-> args[1]]
                        [] type = "econt" -> <<Null>>
                        [] OTHER -> args

\* SGC_ROOTn: pushes the arguments below the frame pointer, the first one
\* first, and only while the collector is enabled.  (The slip: an SGC_ROOT of
\* one argument too few.)
RootsOneTooFew(args) == IF gc_enabled /\ args # <<>> THEN Tail(Reverse(args)) ELSE <<>>
SGC_ROOT(args) == IF gc_enabled THEN Reverse(args) ELSE <<>>

\* What the interpreter can name without following a pointer.
Held == (held \cup Range(stack)) \cap Addr

Requests == [type : ObType \cup {"none"}, args : Seq(Ref), retry : BOOLEAN]
NoRequest == [type |-> "none", args |-> <<>>, retry |-> FALSE]

Init == /\ objs = <<>>
        /\ ref = [a \in Addr |-> <<>>]
        /\ ob_type = [a \in Addr |-> "none"]
        /\ heap_size = 0
        /\ next_collect = MIN_HEAP_SIZE
        /\ gc_enabled = TRUE
        /\ stack = <<>>
        /\ held = {}
        /\ rooted = <<>>
        /\ req = NoRequest
        /\ pc = "run"
        /\ marked = {}
        /\ pending = <<>>
        /\ cursor = 1

-----------------------------------------------------------------------------
(* The interpreter between two calls of the storage manager.                *)

\* A slot of a frame is filled (frame_ref, frame_set_env, SGC_ROOTn by hand).
Push ==
  /\ pc = "run" /\ gc_enabled
  /\ Len(stack) < MaxStack
  /\ \E v \in Held \cup {Null} : stack' = <<v>> \o stack
  /\ UNCHANGED <<heapVars, next_collect, gc_enabled, held, rooted, req, pc, gcVars>>

\* A slot is given up when the frame pointer moves back; C locals keep what
\* the function returned, if anything.
Pop ==
  /\ pc = "run" /\ gc_enabled
  /\ stack # <<>>
  /\ stack' = Tail(stack)
  /\ held' \in {held, {Head(stack)} \cap Addr}
  /\ UNCHANGED <<heapVars, next_collect, gc_enabled, rooted, req, pc, gcVars>>

\* pair_car, closure_body, vector_ref ...: follow a pointer into a C local.
Load ==
  /\ pc = "run"
  /\ \E a \in Held : \E b \in Range(ref[a]) \cap Addr :
       \E keep \in SUBSET held :
         /\ Cardinality(keep \cup {b}) <= MaxHeld
         /\ held' = keep \cup {b}
  /\ UNCHANGED <<heapVars, next_collect, gc_enabled, stack, rooted, req, pc, gcVars>>

\* pair_set_car, pair_set_cdr, *vector_ref(v, i) = x, econt_putaux.
Store ==
  /\ pc = "run"
  /\ \E a \in Held : \E i \in DOMAIN ref[a] : \E v \in Held \cup {Null} :
       /\ ob_type[a] \in {"pair", "vector", "econt"}
       /\ ref' = [ref EXCEPT ![a][i] = v]
  /\ UNCHANGED <<objs, ob_type, heap_size, next_collect, gc_enabled, rootVars,
                 req, pc, gcVars>>

\* A constructor is called.  The C locals of the caller are lost to the
\* collector unless the collector is off.
Call ==
  /\ pc = "run"
  /\ \E type \in ObType : \E args \in [1 .. NbArgs(type) -> Held \cup {Null}] :
       req' = [type |-> type, args |-> args, retry |-> FALSE]
  /\ held' = IF gc_enabled THEN {} ELSE held
  /\ Cardinality(held') < MaxHeld
  /\ pc' = "malloc"
  /\ UNCHANGED <<heapVars, next_collect, gc_enabled, stack, rooted, gcVars>>

\* The primitive (gc): a collection, and a fixnum for the bytes it freed.
Dogc ==
  /\ pc = "run" /\ gc_enabled
  /\ req' = [type |-> "fixnum", args |-> <<>>, retry |-> FALSE]
  /\ held' = {}
  /\ pc' = "collect"
  /\ UNCHANGED <<heapVars, next_collect, gc_enabled, stack, rooted, gcVars>>

\* sparse_do_string, sparse_do_file: the parser runs with the collector off
\* and keeps its values in the parser's own stack.
ParseBegin ==
  /\ pc = "run" /\ gc_enabled
  /\ gc_enabled' = FALSE
  /\ held' = {}
  /\ UNCHANGED <<heapVars, next_collect, stack, rooted, req, pc, gcVars>>

\* The collector is back on and prog_expr is all that is left.
ParseEnd ==
  /\ pc = "run" /\ ~gc_enabled
  /\ gc_enabled' = TRUE
  /\ \E prog_expr \in SUBSET held : Cardinality(prog_expr) <= 1 /\ held' = prog_expr
  /\ UNCHANGED <<heapVars, next_collect, stack, rooted, req, pc, gcVars>>

-----------------------------------------------------------------------------
(* gc_malloc, as the constructors call it: once, and once more after a      *)
(* collection if the first call returned NULL.                              *)

\* gc_malloc refuses without asking malloc.
OverThreshold(type) == gc_enabled /\ heap_size + ObSize[type] > next_collect

MallocOk ==
  /\ pc = "malloc"
  /\ ~OverThreshold(req.type)
  /\ \E a \in Addr \ Allocated :
       /\ objs' = <<a>> \o objs
       /\ ref' = [ref EXCEPT ![a] = Fields(req.type, req.args)]
       /\ ob_type' = [ob_type EXCEPT ![a] = req.type]
       /\ held' = held \cup {a}
  /\ heap_size' = heap_size + ObSize[req.type]
  /\ rooted' = <<>>
  /\ req' = NoRequest
  /\ pc' = "run"
  /\ UNCHANGED <<next_collect, gc_enabled, stack, gcVars>>

MallocFails == OverThreshold(req.type) \/ Allocated = Addr

\* The second call is the last.  (The slip: a loop until malloc succeeds.)
RetryingForever(r) == r
Retrying(r) == [r EXCEPT !.retry = TRUE]

\* The first NULL: root the arguments and collect.
MallocNull ==
  /\ pc = "malloc" /\ ~req.retry
  /\ MallocFails
  /\ rooted' = SGC_ROOT(req.args)
  /\ req' = Retrying(req)
  /\ pc' = "collect"
  /\ UNCHANGED <<heapVars, next_collect, gc_enabled, stack, held, gcVars>>

\* The second one: fatal_error("out of memory"), and the process exits.
OutOfMemory ==
  /\ pc = "malloc" /\ req.retry
  /\ MallocFails
  /\ pc' = "fatal"
  /\ UNCHANGED <<heapVars, next_collect, gc_enabled, rootVars, req, gcVars>>

-----------------------------------------------------------------------------
(* gc_collect                                                               *)

\* gc_collect returns at once when it is disabled.  (The slip: it does not.)
CollectsAlways == TRUE
CollectorRuns == gc_enabled

CollectBegin ==
  /\ pc = "collect"
  /\ IF CollectorRuns
     THEN pc' = "mark" /\ pending' = rooted \o stack
     ELSE pc' = "malloc" /\ UNCHANGED pending
  /\ UNCHANGED <<heapVars, next_collect, gc_enabled, rootVars, req, marked, cursor>>

\* What gc_mark looks at once self is marked: the visitor calls gc_mark on the
\* fields in order and returns the last one.  (The slip: it returns NULL.)
ForgetsLastField(self) ==
  (IF ref[self] = <<>> THEN <<>> ELSE Front(ref[self])) \o Tail(pending)
Visit(self) == ref[self] \o Tail(pending)

\* One turn of the loop of gc_mark.
Mark ==
  /\ pc = "mark" /\ pending # <<>>
  /\ LET self == Head(pending) IN
       IF self \in Addr \ marked
       THEN /\ marked' = marked \cup {self}
            /\ pending' = Visit(self)
       ELSE /\ pending' = Tail(pending)
            /\ UNCHANGED marked
  /\ UNCHANGED <<heapVars, next_collect, gc_enabled, rootVars, req, pc, cursor>>

\* There may be no object to sweep.  (The slip: the test of gc_head is left out.)
SweepsEmptyHeap == "sweep"
SweepOrNot == IF objs = <<>> THEN "clear" ELSE "sweep"

MarkDone ==
  /\ pc = "mark" /\ pending = <<>>
  /\ pc' = SweepOrNot
  /\ cursor' = 1
  /\ UNCHANGED <<heapVars, next_collect, gc_enabled, rootVars, req, marked, pending>>

\* What is taken off heap_size.  (The slip: the header is not counted.)
SizeWithoutHeader(victim) == ObSize[ob_type[victim]] - 1
SizeFreed(victim) == ObSize[ob_type[victim]]

\* finalizer_types[...](victim) frees the object.
Free(victim) ==
  /\ heap_size' = heap_size - SizeFreed(victim)
  /\ ref' = [ref EXCEPT ![victim] = <<>>]
  /\ ob_type' = [ob_type EXCEPT ![victim] = "none"]

\* The link after self is taken out of the list, or becomes self.
Sweep ==
  /\ pc = "sweep" /\ cursor < Len(objs)
  /\ LET victim == objs[cursor + 1] IN
       IF victim \notin marked
       THEN /\ objs' = RemoveAt(objs, cursor + 1)
            /\ Free(victim)
            /\ UNCHANGED cursor
       ELSE /\ cursor' = cursor + 1
            /\ UNCHANGED heapVars
  /\ UNCHANGED <<next_collect, gc_enabled, rootVars, req, pc, marked, pending>>

\* The head has no predecessor to sweep it.  (The slip: it is left alone.)
HeadIsKept == FALSE
HeadIsGarbage == objs[1] \notin marked

SweepHead ==
  /\ pc = "sweep" /\ cursor = Len(objs)
  /\ IF HeadIsGarbage
     THEN objs' = Tail(objs) /\ Free(objs[1])
     ELSE UNCHANGED heapVars
  /\ pc' = "clear"
  /\ UNCHANGED <<next_collect, gc_enabled, rootVars, req, gcVars>>

\* expand_factor = 1.5
Threshold(size) == Max({(3 * size) \div 2, MIN_HEAP_SIZE})

\* (The slip: the walk starts after gc_head, as the sweep does.)
UnmarkedButHead == marked \ { objs[i] : i \in 2 .. Len(objs) }
Unmarked == marked \ Range(objs)

ClearMarks ==
  /\ pc = "clear"
  /\ marked' = Unmarked
  /\ next_collect' = Threshold(heap_size)
  /\ cursor' = 1
  /\ pc' = "malloc"
  /\ UNCHANGED <<heapVars, gc_enabled, rootVars, req, pending>>

\* sgc_fini: main returns; every object is freed, and the stack.  heap_size
\* keeps its value.
Fini ==
  /\ pc = "run" /\ gc_enabled
  /\ objs' = <<>>
  /\ ref' = [a \in Addr |-> <<>>]
  /\ ob_type' = [a \in Addr |-> "none"]
  /\ stack' = <<>> /\ held' = {}
  /\ pc' = "exit"
  /\ UNCHANGED <<heap_size, next_collect, gc_enabled, rooted, req, gcVars>>

\* The process is gone.
Exited == pc \in {"exit", "fatal"} /\ UNCHANGED vars

-----------------------------------------------------------------------------
Mutator == Push \/ Pop \/ Load \/ Store \/ Call \/ Dogc \/ ParseBegin \/ ParseEnd \/ Fini

StorageManager == \/ MallocOk \/ MallocNull \/ OutOfMemory
                  \/ CollectBegin \/ Mark \/ MarkDone
                  \/ Sweep \/ SweepHead \/ ClearMarks

Next == Mutator \/ StorageManager \/ Exited

Spec == Init /\ [][Next]_vars

(* The storage manager is ordinary sequential C: once it is called, nothing *)
(* else runs until it returns.                                              *)
FairSpec == Spec /\ WF_vars(StorageManager)

-----------------------------------------------------------------------------
\* The pointers between the allocated objects.
Edges == [a \in Addr |-> Range(ref[a]) \cap Addr]

\* What the program can still name: its stack, its C locals, and the
\* arguments of the constructor it is in.
Roots == Held \cup (Range(req.args) \cap Addr)

\* The live objects.  During the sweep these are the marked ones: seen from
\* outside, the collection happens when marking ends.
live == IF pc = "sweep" THEN marked ELSE Allocated

TypeOK ==
  /\ objs \in Seq(Addr)
  /\ ref \in [Addr -> Seq(Ref)]
  /\ ob_type \in [Addr -> ObType \cup {"none"}]
  /\ heap_size \in Int
  /\ next_collect \in Int
  /\ gc_enabled \in BOOLEAN
  /\ stack \in Seq(Ref)
  /\ held \in SUBSET Addr
  /\ rooted \in Seq(Ref)
  /\ req \in Requests
  /\ pc \in {"run", "malloc", "collect", "mark", "sweep", "clear", "fatal", "exit"}
  /\ marked \in SUBSET Addr
  /\ pending \in Seq(Ref)
  /\ cursor \in Nat \ {0}
  /\ pc = "sweep" => cursor <= Len(objs)

(* Whatever the program can reach from its stack, its C locals or a call's  *)
(* arguments has not been freed, in the middle of a collection too.         *)
NoDangling == Reach(Edges, Roots) \subseteq Allocated

(* An object is marked only during a collection.  A mark left behind would  *)
(* make the next gc_mark stop at that object and free what only it holds.   *)
MarksClean == pc \notin {"mark", "sweep", "clear"} => marked = {}

\* The sum of ob_size over the first n objects of the list.
SizeOfFirst[n \in 0 .. Len(objs)] ==
  IF n = 0 THEN 0 ELSE SizeOfFirst[n - 1] + ObSize[ob_type[objs[n]]]

(* heap_size is the sum of ob_size over the list, and no object is on the   *)
(* list twice: the sweep unlinks and accounts for each victim once.         *)
HeapSizeExact ==
  pc # "exit" => IsInjective(objs) /\ heap_size = SizeOfFirst[Len(objs)]

(* fatal_error("out of memory") is reached only when a collection has just  *)
(* left nothing but what the program holds: no garbage is in the way.       *)
FatalOnlyWhenNoGarbage ==
  pc = "fatal" /\ gc_enabled => Allocated = Reach(Edges, Roots)

(* Why these hold.  HeapClosed is the heart: the live objects hold what the *)
(* program can name, and nothing that is live points at what is not.        *)
HeapClosed == /\ Roots \subseteq live
              /\ Closed(Edges, live)
              /\ live \subseteq Allocated

(* During a collection the arguments are among the slots that gc_collect    *)
(* scans, and no C local is needed any more.                                *)
CallRooted ==
  /\ pc \in {"mark", "sweep", "clear"} => gc_enabled
  /\ pc # "run" /\ pc # "exit" /\ gc_enabled => held = {}
  /\ pc \in {"collect", "mark"} /\ gc_enabled => Range(req.args) \subseteq Range(rooted)
  /\ Range(rooted) \subseteq Range(req.args)
  /\ pc \in {"run", "exit"} => req = NoRequest
  /\ pc \notin {"run", "exit"} => /\ req.type \in ObType
                                 /\ Len(req.args) = NbArgs(req.type)

(* No object is on the list twice, and those on it have a type.             *)
ListSound == /\ IsInjective(objs)
             /\ \A a \in Allocated : ob_type[a] \in ObType

(* The tricolour argument: what a marked object points at is marked or will *)
(* be looked at, and so are the roots; only the reachable is looked at.     *)
MarkTricolour ==
  pc = "mark" =>
    /\ marked \subseteq Allocated
    /\ Roots \subseteq marked \cup Range(pending)
    /\ \A a \in marked : Edges[a] \subseteq marked \cup Range(pending)
    /\ Range(pending) \cap Addr \subseteq Reach(Edges, Roots)

(* The part of the list behind the sweep's self is marked, but for the head. *)
SweepBehind ==
  /\ pc = "sweep" => \A i \in 2 .. cursor : objs[i] \in marked
  /\ pc = "clear" => marked = Allocated

(* From the end of marking until the retry, only the reachable is live.     *)
LiveIsReachable ==
  /\ pc = "mark" => marked \subseteq Reach(Edges, Roots)
  /\ \/ pc \in {"sweep", "clear"}
     \/ gc_enabled /\ pc = "fatal"
     \/ gc_enabled /\ pc = "malloc" /\ req.retry
     => live \subseteq Reach(Edges, Roots)

IInv == /\ TypeOK /\ ListSound /\ HeapClosed /\ CallRooted /\ MarkTricolour
        /\ SweepBehind /\ MarksClean /\ LiveIsReachable

(* A constructor returns, or the process exits: the collection it may have  *)
(* to wait for ends, whatever cycles the graph has, and is tried only once. *)
CallsReturn == pc \notin {"run", "fatal", "exit"} ~> pc \in {"run", "fatal"}

(* "out of memory" (sobj.c:797) means that malloc had nothing to give.      *)
OutOfMemoryIsReal == pc = "fatal" => Allocated = Addr

\* The pointers of the live objects.
liveEdges == [a \in Addr |-> IF a \in live THEN Edges[a] ELSE {}]

Heap == INSTANCE AbstractHeap WITH edges <- liveEdges, roots <- Roots

(* Every step of the storage manager and of its client is a step the        *)
(* abstract heap allows: only a collection takes objects away, and exactly  *)
(* the unreachable ones.                                                    *)
ImplementsHeap == Heap!Spec
=============================================================================
