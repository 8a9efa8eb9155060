---------------------------- MODULE Quasiquote ----------------------------
(* expand_quasiquote and pair_copy_list on the pairs they copy and relink.  *)
(* The recursion is a stack of the calls that are in their loop.  What      *)
(* eval_frame returns for an unquoted expression is given.                  *)
EXTENDS Integers, Sequences

CONSTANTS
  Nil,                                        \* nil_wrap()
  quasiquote, unquote, unquote_splicing,      \* the symbols
  Atom,       \* all that is not a pair
  Start       \* the programs: [template, heap, at, values]

\* An object is an atom or the place of a pair in the heap.
Pointer == Atom \cup Nat

\* In a program, the pair a is heap[a] = <<car, cdr>>, the template is at
\* the object at, and an expression evaluates to values[expr].
ASSUME ProgramAssumption ==
  /\ {Nil, quasiquote, unquote, unquote_splicing} \subseteq Atom
  /\ \A a \in Atom : a \notin Nat
  /\ \A s \in Start : /\ s.heap \in Seq(Pointer \X Pointer)
                      /\ s.at \in Pointer
                      /\ s.values \in [DOMAIN s.values -> Pointer]
                      /\ \A expr \in DOMAIN s.values : expr \in Pointer

VARIABLES
  program,         \* the program that the template is in
  heap,            \* heap[a] = <<car, cdr>> of the pair a
  calls,           \* the calls in their loop, the innermost first
  copy,            \* pair_copy_list: cpy, and iter_src and iter_dest
  pc,
  arg,             \* expand: the argument content
  result, flag,    \* returned: the value, and *flag; walk: the variable got
  evaluated        \* history: the expressions evaluated so far

vars == <<program, heap, calls, copy, pc, arg, result, flag, evaluated>>

Pair(a) == a \in DOMAIN heap
car(a) == heap[a][1]
cdr(a) == heap[a][2]

\* The heap h after pair_wrap, pair_set_car and pair_set_cdr.
pair_wrap(h, x, y) == Append(h, <<x, y>>)
pair_set_car(h, a, x) == [h EXCEPT ![a][1] = x]
pair_set_cdr(h, a, x) == [h EXCEPT ![a][2] = x]

Init ==
  /\ program \in Start
  /\ heap = program.heap
  /\ calls = <<>>
  /\ copy = [cpy |-> 0, src |-> Nil, dest |-> 0]
  /\ pc = "expand"
  /\ arg = program.at
  /\ result = Nil /\ flag = "DEFAULT"
  /\ evaluated = <<>>

Fatal == /\ pc' = "fatal"
         /\ UNCHANGED <<program, heap, calls, copy, arg, result, flag, evaluated>>

-----------------------------------------------------------------------------
(* pair_copy_list, on its way to the place in the code that is next.        *)
CopyFirst(list, then) ==
  /\ heap' = pair_wrap(heap, car(list), Nil)
  /\ copy' = [cpy |-> Len(heap) + 1, src |-> cdr(list), dest |-> Len(heap) + 1]
  /\ pc' = then

Copying == pc \in {"copy_content", "copy_got"}

CopyNext ==
  /\ Copying /\ Pair(copy.src)
  /\ heap' = pair_set_cdr(pair_wrap(heap, car(copy.src), Nil),
                          copy.dest, Len(heap) + 1)
  /\ copy' = [copy EXCEPT !.src = cdr(copy.src), !.dest = Len(heap) + 1]
  /\ UNCHANGED <<program, calls, pc, arg, result, flag, evaluated>>

\* It has no place for an end but nil.
CopyImproper == Copying /\ ~Pair(copy.src) /\ copy.src # Nil /\ Fatal

-----------------------------------------------------------------------------
(* expand_quasiquote, up to its loop.                                       *)

\* What content is.
Form == IF ~Pair(arg) THEN "atom"
        ELSE CASE car(arg) = quasiquote -> "nested"
               [] car(arg) = unquote -> "unquote"
               [] car(arg) = unquote_splicing -> "splicing"
               [] OTHER -> "list"

Return(x, fl) == pc' = "returned" /\ result' = x /\ flag' = fl

\* Atoms, and quasiquotes in the template, are returned as they are.
ExpandConstant ==
  /\ pc = "expand" /\ Form \in {"atom", "nested"}
  /\ Return(arg, "DEFAULT")
  /\ UNCHANGED <<program, heap, calls, copy, arg, evaluated>>

\* The body of an unquote is evaluated.
ExpandUnquote ==
  /\ pc = "expand" /\ Form \in {"unquote", "splicing"}
  /\ Pair(cdr(arg))
  /\ LET expr == car(cdr(arg)) IN
       /\ expr \in DOMAIN program.values
       /\ Return(program.values[expr], IF Form = "unquote" THEN "UNQUOTE" ELSE "SPLICING")
       /\ evaluated' = Append(evaluated, expr)
  /\ UNCHANGED <<program, heap, calls, copy, arg>>

\* pair_cadr of an unquote without a body.
ExpandMalformed ==
  pc = "expand" /\ Form \in {"unquote", "splicing"} /\ ~Pair(cdr(arg)) /\ Fatal

\* A list is copied.
ExpandList ==
  /\ pc = "expand" /\ Form = "list"
  /\ CopyFirst(arg, "copy_content")
  /\ UNCHANGED <<program, calls, arg, result, flag, evaluated>>

\* A dummy head is put before the copy, and the loop begins there.
ContentCopied ==
  /\ pc = "copy_content" /\ copy.src = Nil
  /\ heap' = pair_wrap(heap, Nil, copy.cpy)
  /\ LET content == Len(heap) + 1 IN
       calls' = <<[content |-> content, iter |-> content, next |-> Nil,
                   first |-> copy.cpy]>> \o calls     \* first: history
  /\ pc' = "loop"
  /\ UNCHANGED <<program, copy, arg, result, flag, evaluated>>

-----------------------------------------------------------------------------
(* Its loop.                                                                *)
iter == Head(calls).iter
next == Head(calls).next
IterAt(a) == calls' = [calls EXCEPT ![1].iter = a]

\* The element after iter.  (The slip: loop_begin is behind the line that
\* takes it, so that it is still the one that a list was spliced in for.)
StaleNext == IF flag = "SPLICING" /\ Pair(result) THEN next ELSE cdr(iter)
NextElement == cdr(iter)

\* It is the next to be expanded.
LoopCall ==
  /\ pc = "loop" /\ Pair(iter) /\ NextElement # Nil
  /\ calls' = [calls EXCEPT ![1].next = NextElement]
  /\ arg' = car(NextElement)
  /\ pc' = "expand"
  /\ UNCHANGED <<program, heap, copy, result, flag, evaluated>>

LoopDone ==
  /\ pc = "loop" /\ (Pair(iter) => cdr(iter) = Nil)
  /\ Return(cdr(Head(calls).content), "DEFAULT")
  /\ calls' = Tail(calls)
  /\ UNCHANGED <<program, heap, copy, arg, evaluated>>

Returned == pc = "returned" /\ calls # <<>>

\* got takes the place of the element.
PutOne ==
  /\ Returned /\ flag # "SPLICING"
  /\ heap' = pair_set_car(heap, next, result)
  /\ IterAt(cdr(iter))
  /\ pc' = "loop"
  /\ UNCHANGED <<program, copy, arg, result, flag, evaluated>>

\* The element is taken out, and the loop goes on behind what follows it.
SpliceNone ==
  /\ Returned /\ flag = "SPLICING" /\ result = Nil
  /\ heap' = pair_set_cdr(heap, iter, cdr(next))
  /\ IterAt(cdr(next))
  /\ pc' = "loop"
  /\ UNCHANGED <<program, copy, arg, result, flag, evaluated>>

\* A list is copied to be spliced in.  (The slip: there is no copy.)
SpliceUncopied ==
  /\ Returned /\ flag = "SPLICING" /\ Pair(result)
  /\ heap' = pair_set_cdr(heap, iter, result)
  /\ pc' = "walk"
  /\ UNCHANGED <<program, calls, copy, arg, result, flag, evaluated>>
SpliceList ==
  /\ Returned /\ flag = "SPLICING" /\ Pair(result)
  /\ CopyFirst(result, "copy_got")
  /\ UNCHANGED <<program, calls, arg, result, flag, evaluated>>

SpliceAtom ==
  Returned /\ flag = "SPLICING" /\ ~Pair(result) /\ result # Nil /\ Fatal

\* iter -> got
GotCopied ==
  /\ pc = "copy_got" /\ copy.src = Nil
  /\ heap' = pair_set_cdr(heap, iter, copy.cpy)
  /\ result' = copy.cpy
  /\ pc' = "walk"
  /\ UNCHANGED <<program, calls, copy, arg, flag, evaluated>>

Walk ==
  /\ pc = "walk" /\ Pair(cdr(result))
  /\ result' = cdr(result)
  /\ UNCHANGED <<program, heap, calls, copy, pc, arg, flag, evaluated>>

\* Where the loop goes on after the elements up to got have been put in.
\* (The slip: before them, so that they are expanded too.)
BeforeThem(got) == iter
BehindThem(got) == got

\* got -> (next->next)
WalkDone ==
  /\ pc = "walk" /\ ~Pair(cdr(result))
  /\ heap' = pair_set_cdr(heap, result, cdr(next))
  /\ IterAt(BehindThem(result))
  /\ pc' = "loop"
  /\ UNCHANGED <<program, copy, arg, result, flag, evaluated>>

-----------------------------------------------------------------------------
Finished == pc = "returned" /\ calls = <<>>

Done == (Finished \/ pc = "fatal") /\ UNCHANGED vars

Next == \/ CopyNext \/ CopyImproper
        \/ ExpandConstant \/ ExpandUnquote \/ ExpandMalformed
        \/ ExpandList \/ ContentCopied
        \/ LoopCall \/ LoopDone
        \/ PutOne \/ SpliceNone \/ SpliceList \/ SpliceAtom
        \/ GotCopied \/ Walk \/ WalkDone
        \/ Done

Spec == Init /\ [][Next]_vars

-----------------------------------------------------------------------------
(* The pairs of the program, which are those of the template that a macro   *)
(* expands again at its next use and those of the lists spliced in, are     *)
(* never relinked, whatever is expanded.                                    *)
OriginalsIntact == \A a \in DOMAIN program.heap : heap[a] = program.heap[a]

\* The calls that wait for an element to be expanded or copied.
Waiting == { n \in DOMAIN calls :
               n > 1 \/ pc \in {"expand", "copy_content", "returned", "copy_got"} }

(* "next will always be null or pair" (slang.c:283), and it still follows   *)
(* iter when the element's expansion, with all the expansions nested in it, *)
(* comes back: the loop relinks the pairs that it thinks it does.           *)
NextFollowsIter ==
  \A n \in Waiting : /\ Pair(calls[n].iter) /\ Pair(calls[n].next)
                     /\ cdr(calls[n].iter) = calls[n].next
=============================================================================
