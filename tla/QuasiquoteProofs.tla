------------------------- MODULE QuasiquoteProofs -------------------------
(* What expand_quasiquote relinks, for every program and every template.    *)
EXTENDS Quasiquote, TLAPS

Cell == Pointer \X Pointer

Call == [content : Nat, iter : Pointer, next : Pointer, first : Nat]

TypeOK ==
  /\ program \in Start
  /\ heap \in Seq(Cell)
  /\ calls \in Seq(Call)
  /\ copy \in [cpy : Nat, src : Pointer, dest : Nat]
  /\ pc \in {"expand", "copy_content", "loop", "returned", "copy_got", "walk", "fatal"}
  /\ arg \in Pointer
  /\ result \in Pointer

-----------------------------------------------------------------------------
(* The inductive invariant.  The pairs that were made after a copy was      *)
(* begun lead only to each other, and a call looks only at those that were  *)
(* made after its own copy was begun and before that of the next call was.  *)

\* The pairs of the heap h from the pair f on, and where they lead.
From(h, f) == f .. Len(h)
Closed(h, f) == \A a \in From(h, f) : h[a][2] \in From(h, f) \cup {Nil}

\* The heap h still has the pairs of the program.
Keeps(h) == /\ Len(program.heap) <= Len(h)
            /\ \A a \in 1 .. Len(program.heap) : h[a] = program.heap[a]

\* Where the call c is.
CallIn(h, c) == /\ Closed(h, c.first)
                /\ c.content \in From(h, c.first)
                /\ c.iter \in From(h, c.first) \cup {Nil}

CallsIn == \A n \in DOMAIN calls : /\ calls[n].first > Len(program.heap)
                                   /\ CallIn(heap, calls[n])

CallWaits(h, c) == /\ c.iter \in From(h, c.first)
                   /\ c.next \in From(h, c.first)
                   /\ h[c.iter][2] = c.next

CallsWait == \A n \in Waiting : CallWaits(heap, calls[n])

\* The call c is before the pair f.
Before(c, f) == c.first < f /\ c.iter < f /\ c.next < f

CallsNested == \A m, n \in DOMAIN calls : m < n => Before(calls[n], calls[m].first)

CopyIn ==
  Copying => /\ copy.cpy > Len(program.heap)
             /\ Closed(heap, copy.cpy)
             /\ copy.dest \in From(heap, copy.cpy)
             /\ \A n \in DOMAIN calls : Before(calls[n], copy.cpy)

HasCall == pc \in {"loop", "walk", "copy_got"} => calls # <<>>

\* While the end of the list that was spliced in is looked for.
WalkIn ==
  pc = "walk" => LET pairs == From(heap, calls[1].first) IN
                 calls[1].iter \in pairs /\ calls[1].next \in pairs /\ result \in pairs

Linked == /\ Keeps(heap) /\ CallsIn /\ CallsWait /\ CallsNested
          /\ CopyIn /\ HasCall /\ WalkIn

IInv == TypeOK /\ Linked

-----------------------------------------------------------------------------
(* Heaps.                                                                   *)

LEMMA NilNotPair == Nil \notin Nat /\ Nil \in Pointer
  BY ProgramAssumption DEF Pointer

\* A pair whose cdr is set.
LEMMA SetCdr ==
  ASSUME NEW h \in Seq(Cell), NEW i \in 1 .. Len(h), NEW p \in Pointer
  PROVE  LET g == pair_set_cdr(h, i, p) IN
         /\ g \in Seq(Cell) /\ Len(g) = Len(h)
         /\ g[i][2] = p
         /\ \A a \in 1 .. Len(h) : a # i => g[a] = h[a]
<1>1. h[i] \in Pointer \X Pointer
  BY DEF Cell
<1>2. [h[i] EXCEPT ![2] = p] \in Pointer \X Pointer /\ [h[i] EXCEPT ![2] = p][2] = p
  BY <1>1
<1>3. pair_set_cdr(h, i, p) = [h EXCEPT ![i] = [h[i] EXCEPT ![2] = p]]
  BY DEF pair_set_cdr
<1> QED BY <1>2, <1>3 DEF Cell

\* A pair whose car is set.
LEMMA SetCar ==
  ASSUME NEW h \in Seq(Cell), NEW i \in 1 .. Len(h), NEW p \in Pointer
  PROVE  LET g == pair_set_car(h, i, p) IN
         /\ g \in Seq(Cell) /\ Len(g) = Len(h)
         /\ \A a \in 1 .. Len(h) : g[a][2] = h[a][2]
         /\ \A a \in 1 .. Len(h) : a # i => g[a] = h[a]
<1>1. h[i] \in Pointer \X Pointer
  BY DEF Cell
<1>2. [h[i] EXCEPT ![1] = p] \in Pointer \X Pointer
      /\ [h[i] EXCEPT ![1] = p][2] = h[i][2]
  BY <1>1
<1>3. pair_set_car(h, i, p) = [h EXCEPT ![i] = [h[i] EXCEPT ![1] = p]]
  BY DEF pair_set_car
<1> QED BY <1>2, <1>3 DEF Cell

\* A pair is made.
LEMMA NewPair ==
  ASSUME NEW h \in Seq(Cell), NEW x \in Pointer, NEW y \in Pointer
  PROVE  LET g == pair_wrap(h, x, y) IN
         /\ g \in Seq(Cell) /\ Len(g) = Len(h) + 1
         /\ g[Len(h) + 1][2] = y
         /\ \A a \in 1 .. Len(h) : g[a] = h[a]
<1>1. <<x, y>> \in Cell /\ <<x, y>>[2] = y
  BY DEF Cell
<1> QED BY <1>1 DEF pair_wrap

LEMMA ClosedSetCdr ==
  ASSUME NEW h \in Seq(Cell), NEW i \in 1 .. Len(h), NEW p \in Pointer,
         NEW f \in Nat \ {0}, Closed(h, f), i >= f => p \in From(h, f) \cup {Nil}
  PROVE  Closed(pair_set_cdr(h, i, p), f)
<1> DEFINE g == pair_set_cdr(h, i, p)
<1>1. /\ Len(g) = Len(h) /\ g[i][2] = p
      /\ \A a \in 1 .. Len(h) : a # i => g[a] = h[a]
  BY SetCdr
<1> HIDE DEF g
<1> SUFFICES ASSUME NEW a \in From(g, f) PROVE g[a][2] \in From(g, f) \cup {Nil}
  BY DEF Closed, g
<1>2. a \in From(h, f) /\ From(g, f) = From(h, f) /\ a \in 1 .. Len(h)
  BY <1>1 DEF From
<1>3. h[a][2] \in From(h, f) \cup {Nil}
  BY <1>2 DEF Closed
<1>4. CASE a = i
  BY <1>1, <1>2, <1>4 DEF From
<1>5. CASE a # i
  BY <1>1, <1>2, <1>3, <1>5
<1> QED BY <1>4, <1>5

LEMMA ClosedSetCar ==
  ASSUME NEW h \in Seq(Cell), NEW g \in Seq(Cell), Len(g) = Len(h),
         \A a \in 1 .. Len(h) : g[a][2] = h[a][2],
         NEW f \in Nat \ {0}, Closed(h, f)
  PROVE  Closed(g, f)
<1> SUFFICES ASSUME NEW a \in From(g, f) PROVE g[a][2] \in From(g, f) \cup {Nil}
  BY DEF Closed
<1>1. a \in From(h, f) /\ From(g, f) = From(h, f) /\ a \in 1 .. Len(h)
  BY DEF From
<1>2. h[a][2] \in From(h, f) \cup {Nil}
  BY <1>1 DEF Closed
<1> QED BY <1>1, <1>2

LEMMA ClosedNewPair ==
  ASSUME NEW h \in Seq(Cell), NEW x \in Pointer, NEW y \in Pointer,
         NEW f \in Nat \ {0}, Closed(h, f), y \in From(h, f) \cup {Nil}
  PROVE  Closed(pair_wrap(h, x, y), f)
<1> DEFINE g == pair_wrap(h, x, y)
<1>1. /\ Len(g) = Len(h) + 1 /\ g[Len(h) + 1][2] = y
      /\ \A a \in 1 .. Len(h) : g[a] = h[a]
  BY NewPair
<1> HIDE DEF g
<1> SUFFICES ASSUME NEW a \in From(g, f) PROVE g[a][2] \in From(g, f) \cup {Nil}
  BY DEF Closed, g
<1>2. From(h, f) \subseteq From(g, f)
  BY <1>1 DEF From
<1>3. CASE a = Len(h) + 1
  BY <1>1, <1>2, <1>3
<1>4. CASE a # Len(h) + 1
  <2>1. a \in From(h, f) /\ a \in 1 .. Len(h)
    BY <1>1, <1>4 DEF From
  <2>2. h[a][2] \in From(h, f) \cup {Nil}
    BY <2>1 DEF Closed
  <2> QED BY <1>1, <1>2, <2>1, <2>2
<1> QED BY <1>3, <1>4

\* The first pair of a copy leads nowhere yet.
LEMMA ClosedFirst ==
  ASSUME NEW h \in Seq(Cell), NEW x \in Pointer
  PROVE  Closed(pair_wrap(h, x, Nil), Len(h) + 1)
<1> DEFINE g == pair_wrap(h, x, Nil)
<1>1. Len(g) = Len(h) + 1 /\ g[Len(h) + 1][2] = Nil
  BY NewPair, NilNotPair
<1> HIDE DEF g
<1>2. From(g, Len(h) + 1) = {Len(h) + 1}
  BY <1>1 DEF From
<1>3. Closed(g, Len(h) + 1)
  BY <1>1, <1>2 DEF Closed
<1> QED BY <1>3 DEF g

-----------------------------------------------------------------------------
(* A step from the heap h to the heap g that writes no pair before b.       *)
HeapStep(h, g, b) ==
  /\ g \in Seq(Cell) /\ Len(h) <= Len(g)
  /\ \A a \in 1 .. Len(h) : a < b => g[a] = h[a]
  /\ \A f \in 1 .. b : Closed(h, f) => Closed(g, f)

LEMMA FromLater ==
  ASSUME NEW h \in Seq(Cell), NEW b \in Nat \ {0}, NEW f \in 1 .. b
  PROVE  From(h, b) \subseteq From(h, f)
  BY DEF From

LEMMA StepSetCdr ==
  ASSUME NEW h \in Seq(Cell), NEW b \in Nat \ {0},
         NEW i \in From(h, b), NEW p \in From(h, b) \cup {Nil}
  PROVE  HeapStep(h, pair_set_cdr(h, i, p), b)
<1>1. i \in 1 .. Len(h) /\ i >= b
  BY DEF From
<1>2. p \in Pointer
  BY NilNotPair DEF From, Pointer
<1>3. /\ pair_set_cdr(h, i, p) \in Seq(Cell) /\ Len(pair_set_cdr(h, i, p)) = Len(h)
      /\ \A a \in 1 .. Len(h) : a # i => pair_set_cdr(h, i, p)[a] = h[a]
  BY <1>1, <1>2, SetCdr
<1>4. ASSUME NEW f \in 1 .. b, Closed(h, f) PROVE Closed(pair_set_cdr(h, i, p), f)
  BY <1>1, <1>2, <1>4, FromLater, ClosedSetCdr
<1> QED BY <1>1, <1>3, <1>4 DEF HeapStep

LEMMA StepSetCar ==
  ASSUME NEW h \in Seq(Cell), NEW b \in Nat \ {0},
         NEW i \in From(h, b), NEW p \in Pointer
  PROVE  /\ HeapStep(h, pair_set_car(h, i, p), b)
         /\ Len(pair_set_car(h, i, p)) = Len(h)
<1> DEFINE g == pair_set_car(h, i, p)
<1>1. i \in 1 .. Len(h) /\ i >= b
  BY DEF From
<1>2. /\ g \in Seq(Cell) /\ Len(g) = Len(h)
      /\ \A a \in 1 .. Len(h) : g[a][2] = h[a][2]
      /\ \A a \in 1 .. Len(h) : a # i => g[a] = h[a]
  BY <1>1, SetCar
<1> HIDE DEF g
<1>3. ASSUME NEW f \in 1 .. b, Closed(h, f) PROVE Closed(g, f)
  BY <1>2, <1>3, ClosedSetCar
<1>4. HeapStep(h, g, b)
  BY <1>1, <1>2, <1>3 DEF HeapStep
<1> QED BY <1>2, <1>4 DEF g

LEMMA StepNewPair ==
  ASSUME NEW h \in Seq(Cell), NEW b \in 1 .. Len(h) + 1,
         NEW x \in Pointer, NEW y \in From(h, b) \cup {Nil}
  PROVE  HeapStep(h, pair_wrap(h, x, y), b)
<1>1. y \in Pointer
  BY NilNotPair DEF From, Pointer
<1>2. /\ pair_wrap(h, x, y) \in Seq(Cell) /\ Len(pair_wrap(h, x, y)) = Len(h) + 1
      /\ \A a \in 1 .. Len(h) : pair_wrap(h, x, y)[a] = h[a]
  BY <1>1, NewPair
<1>3. ASSUME NEW f \in 1 .. b, Closed(h, f) PROVE Closed(pair_wrap(h, x, y), f)
  BY <1>1, <1>3, FromLater, ClosedNewPair
<1> QED BY <1>2, <1>3 DEF HeapStep

LEMMA StepTwice ==
  ASSUME NEW h \in Seq(Cell), NEW g, NEW k, NEW b \in Nat,
         HeapStep(h, g, b), HeapStep(g, k, b)
  PROVE  HeapStep(h, k, b)
<1> USE DEF HeapStep
<1>1. Len(h) <= Len(k) /\ k \in Seq(Cell)
  OBVIOUS
<1>2. ASSUME NEW a \in 1 .. Len(h), a < b PROVE k[a] = h[a]
  BY <1>2
<1>3. ASSUME NEW f \in 1 .. b, Closed(h, f) PROVE Closed(k, f)
  BY <1>3
<1> QED BY <1>1, <1>2, <1>3

\* The program's pairs are kept.
LEMMA KeepsStep ==
  ASSUME TypeOK, Keeps(heap), NEW g, NEW b \in Nat, b > Len(program.heap),
         HeapStep(heap, g, b)
  PROVE  Keeps(g)
<1>1. program.heap \in Seq(Cell)
  BY ProgramAssumption DEF TypeOK, Cell
<1> QED BY <1>1 DEF Keeps, HeapStep, TypeOK

\* The calls before b still are where they were.
LEMMA CallStep ==
  ASSUME NEW h \in Seq(Cell), NEW g, NEW b \in Nat, HeapStep(h, g, b),
         NEW c \in Call, c.first \in 1 .. b, CallIn(h, c)
  PROVE  CallIn(g, c)
<1>1. From(h, c.first) \subseteq From(g, c.first)
  BY DEF From, HeapStep, Call
<1> QED BY <1>1 DEF CallIn, HeapStep

LEMMA WaitStep ==
  ASSUME NEW h \in Seq(Cell), NEW g, NEW b \in Nat, HeapStep(h, g, b),
         NEW c \in Call, c.first \in 1 .. b, c.iter < b, CallWaits(h, c)
  PROVE  CallWaits(g, c)
<1>1. From(h, c.first) \subseteq From(g, c.first)
  BY DEF From, HeapStep, Call
<1>2. c.iter \in 1 .. Len(h)
  BY DEF CallWaits, From
<1>3. g[c.iter] = h[c.iter]
  BY <1>2 DEF HeapStep
<1> QED BY <1>1, <1>3 DEF CallWaits

-----------------------------------------------------------------------------
(* Types.                                                                   *)

LEMMA HeapTypes ==
  ASSUME TypeOK, NEW a, Pair(a)
  PROVE  /\ a \in 1 .. Len(heap) /\ a \in Pointer
         /\ car(a) \in Pointer /\ cdr(a) \in Pointer
<1>1. a \in 1 .. Len(heap) /\ heap[a] \in Pointer \X Pointer
  BY DEF TypeOK, Pair, Cell
<1> QED BY <1>1 DEF car, cdr, Pointer

LEMMA CopyFirstTypes ==
  ASSUME TypeOK, NEW list, Pair(list), NEW then, CopyFirst(list, then)
  PROVE  heap' \in Seq(Cell) /\ copy' \in [cpy : Nat, src : Pointer, dest : Nat]
<1>1. car(list) \in Pointer /\ cdr(list) \in Pointer /\ Nil \in Pointer
  BY HeapTypes, NilNotPair
<1>2. heap' \in Seq(Cell)
  BY <1>1, NewPair DEF CopyFirst, TypeOK
<1> QED BY <1>1, <1>2 DEF CopyFirst, TypeOK

\* The call in its loop.
LEMMA TopCall ==
  ASSUME TypeOK, calls # <<>>
  PROVE  /\ 1 \in DOMAIN calls /\ calls[1] \in Call
         /\ Head(calls) = calls[1] /\ iter = calls[1].iter /\ next = calls[1].next
  BY DEF TypeOK, iter, next

\* The call in its loop is changed.
LEMMA CallSet ==
  ASSUME TypeOK, calls # <<>>, NEW p \in Pointer
  PROVE  /\ [calls EXCEPT ![1].iter = p] \in Seq(Call)
         /\ [calls EXCEPT ![1].next = p] \in Seq(Call)
<1>1. calls[1] \in Call /\ 1 \in DOMAIN calls
  BY TopCall
<1>2. [calls[1] EXCEPT !.iter = p] \in Call /\ [calls[1] EXCEPT !.next = p] \in Call
  BY <1>1 DEF Call
<1> QED BY <1>1, <1>2 DEF TypeOK

LEMMA ProgramHeap ==
  ASSUME TypeOK
  PROVE  program.heap \in Seq(Cell) /\ Len(program.heap) \in Nat
<1>1. program.heap \in Seq(Cell)
  BY ProgramAssumption DEF TypeOK, Cell
<1> QED BY <1>1

\* Where the call in its loop is.
LEMMA TopIn ==
  ASSUME IInv, calls # <<>>
  PROVE  /\ calls[1].first \in Nat \ {0} /\ calls[1].first > Len(program.heap)
         /\ CallIn(heap, calls[1])
<1>1. TypeOK
  BY DEF IInv
<1>2. 1 \in DOMAIN calls /\ calls[1].first \in Nat
  BY <1>1, TopCall DEF Call
<1>3. calls[1].first > Len(program.heap) /\ CallIn(heap, calls[1])
  BY <1>2 DEF IInv, Linked, CallsIn
<1> QED BY <1>1, <1>2, <1>3, ProgramHeap

\* The element after a pair that the loop is at.
LEMMA AfterIter ==
  ASSUME IInv, calls # <<>>, Pair(iter)
  PROVE  /\ iter \in From(heap, calls[1].first)
         /\ cdr(iter) \in From(heap, calls[1].first) \cup {Nil}
<1>1. TypeOK
  BY DEF IInv
<1>2. iter # Nil
  BY <1>1, NilNotPair DEF Pair, TypeOK
<1>3. iter \in From(heap, calls[1].first)
  BY <1>1, <1>2, TopCall, TopIn DEF CallIn
<1> QED BY <1>3, TopIn DEF CallIn, Closed, cdr

LEMMA InitTypes == Init => TypeOK
<1> SUFFICES ASSUME Init PROVE TypeOK
  OBVIOUS
<1>1. program.heap \in Seq(Cell) /\ program.at \in Pointer
  BY ProgramAssumption DEF Init, Cell
<1> QED BY <1>1, NilNotPair DEF Init, TypeOK

LEMMA TypeStep == IInv /\ [Next]_vars => TypeOK'
<1> SUFFICES ASSUME IInv, [Next]_vars PROVE TypeOK'
  OBVIOUS
<1>t. TypeOK
  BY DEF IInv
<1> USE DEF TypeOK
<1>1. CASE CopyNext
  <2>1. car(copy.src) \in Pointer /\ cdr(copy.src) \in Pointer /\ Nil \in Pointer
    BY <1>t, <1>1, HeapTypes, NilNotPair DEF CopyNext
  <2> DEFINE g == pair_wrap(heap, car(copy.src), Nil)
  <2>2. g \in Seq(Cell) /\ Len(g) = Len(heap) + 1
    BY <1>t, <2>1, NewPair
  <2>3. copy.dest \in 1 .. Len(heap)
    BY <1>t, <1>1 DEF IInv, Linked, CopyIn, CopyNext, From
  <2>4. Len(heap) + 1 \in Pointer
    BY <1>t DEF Pointer
  <2> HIDE DEF g
  <2>5. heap' = pair_set_cdr(g, copy.dest, Len(heap) + 1)
    BY <1>1 DEF CopyNext, g
  <2>6. heap' \in Seq(Cell)
    BY <2>2, <2>3, <2>4, <2>5, SetCdr
  <2>7. copy' = [copy EXCEPT !.src = cdr(copy.src), !.dest = Len(heap) + 1]
    BY <1>1 DEF CopyNext
  <2>8. copy' \in [cpy : Nat, src : Pointer, dest : Nat]
    <3>1. copy \in [cpy : Nat, src : Pointer, dest : Nat] /\ Len(heap) + 1 \in Nat
      BY <1>t
    <3> HIDE DEF TypeOK
    <3> QED BY <2>1, <2>7, <3>1
  <2> QED BY <1>t, <1>1, <2>6, <2>8 DEF CopyNext
<1>2. CASE Fatal
  BY <1>t, <1>2 DEF Fatal
<1>3. CASE ExpandConstant
  BY <1>t, <1>3 DEF ExpandConstant, Return
<1>4. CASE ExpandUnquote
  <2>1. \A expr \in DOMAIN program.values : program.values[expr] \in Pointer
    BY <1>t, ProgramAssumption
  <2> QED BY <1>t, <1>4, <2>1 DEF ExpandUnquote, Return
<1>5. CASE ExpandList
  <2>1. Pair(arg)
    BY <1>5 DEF ExpandList, Form
  <2>2. CopyFirst(arg, "copy_content")
    BY <1>5 DEF ExpandList
  <2>3. heap' \in Seq(Cell) /\ copy' \in [cpy : Nat, src : Pointer, dest : Nat]
    BY <1>t, <2>1, <2>2, CopyFirstTypes
  <2> QED BY <1>t, <1>5, <2>2, <2>3 DEF ExpandList, CopyFirst
<1>6. CASE ContentCopied
  <2>1. copy.cpy \in Pointer /\ Nil \in Pointer
    BY <1>t, NilNotPair DEF Pointer
  <2>2. heap' \in Seq(Cell)
    BY <1>t, <1>6, <2>1, NewPair DEF ContentCopied
  <2>3. [content |-> Len(heap) + 1, iter |-> Len(heap) + 1, next |-> Nil,
         first |-> copy.cpy] \in Call
    BY <1>t, <2>1 DEF Call, Pointer
  <2>4. calls' \in Seq(Call)
    BY <1>t, <1>6, <2>3 DEF ContentCopied
  <2> QED BY <1>t, <1>6, <2>2, <2>4 DEF ContentCopied
<1>7. CASE LoopCall
  <2>1. calls # <<>>
    BY <1>7 DEF IInv, Linked, HasCall, LoopCall
  <2>2. NextElement \in Pointer
    BY <1>t, <1>7, HeapTypes DEF LoopCall, NextElement
  <2>3. Pair(NextElement)
    <3>1. NextElement \in From(heap, calls[1].first)
      BY <1>7, <2>1, AfterIter DEF NextElement, LoopCall
    <3> QED BY <1>t, <2>1, <3>1, TopIn DEF From, Pair
  <2>4. car(NextElement) \in Pointer
    BY <1>t, <2>3, HeapTypes
  <2>5. calls' \in Seq(Call)
    BY <1>t, <1>7, <2>1, <2>2, CallSet DEF LoopCall
  <2> QED BY <1>t, <1>7, <2>4, <2>5 DEF LoopCall
<1>8. CASE LoopDone
  <2>1. calls # <<>>
    BY <1>8 DEF IInv, Linked, HasCall, LoopDone
  <2>2. calls[1].content \in From(heap, calls[1].first)
    BY <2>1, TopIn DEF CallIn
  <2>3. Pair(calls[1].content)
    BY <1>t, <2>1, <2>2, TopIn DEF From, Pair
  <2>4. cdr(Head(calls).content) \in Pointer
    BY <1>t, <2>1, <2>3, HeapTypes, TopCall
  <2>5. Tail(calls) \in Seq(Call)
    BY <1>t, <2>1
  <2> QED BY <1>t, <1>8, <2>4, <2>5 DEF LoopDone, Return
<1>9. CASE PutOne
  <2>1. calls # <<>> /\ 1 \in Waiting
    BY <1>t, <1>9, TopCall DEF PutOne, Returned, Waiting
  <2>2. CallWaits(heap, calls[1])
    BY <2>1 DEF IInv, Linked, CallsWait
  <2>3. next \in 1 .. Len(heap) /\ Pair(iter)
    BY <1>t, <2>1, <2>2, TopCall, TopIn DEF CallWaits, From, Pair
  <2>4. heap' \in Seq(Cell)
    BY <1>t, <1>9, <2>3, SetCar DEF PutOne
  <2>5. cdr(iter) \in Pointer
    BY <1>t, <2>3, HeapTypes
  <2>6. calls' \in Seq(Call)
    BY <1>t, <1>9, <2>1, <2>5, CallSet DEF PutOne, IterAt
  <2> QED BY <1>t, <1>9, <2>4, <2>6 DEF PutOne
<1>10. CASE SpliceNone
  <2>1. calls # <<>> /\ 1 \in Waiting
    BY <1>t, <1>10, TopCall DEF SpliceNone, Returned, Waiting
  <2>2. CallWaits(heap, calls[1])
    BY <2>1 DEF IInv, Linked, CallsWait
  <2>3. iter \in 1 .. Len(heap) /\ Pair(next)
    BY <1>t, <2>1, <2>2, TopCall, TopIn DEF CallWaits, From, Pair
  <2>4. cdr(next) \in Pointer
    BY <1>t, <2>3, HeapTypes
  <2>5. heap' \in Seq(Cell)
    BY <1>t, <1>10, <2>3, <2>4, SetCdr DEF SpliceNone
  <2>6. calls' \in Seq(Call)
    BY <1>t, <1>10, <2>1, <2>4, CallSet DEF SpliceNone, IterAt
  <2> QED BY <1>t, <1>10, <2>5, <2>6 DEF SpliceNone
<1>11. CASE SpliceList
  <2>1. Pair(result) /\ CopyFirst(result, "copy_got")
    BY <1>11 DEF SpliceList
  <2>2. heap' \in Seq(Cell) /\ copy' \in [cpy : Nat, src : Pointer, dest : Nat]
    BY <1>t, <2>1, CopyFirstTypes
  <2> QED BY <1>t, <1>11, <2>1, <2>2 DEF SpliceList, CopyFirst
<1>12. CASE GotCopied
  <2>1. calls # <<>>
    BY <1>12 DEF IInv, Linked, HasCall, GotCopied
  <2>2. 1 \in Waiting
    BY <1>t, <1>12, <2>1, TopCall DEF GotCopied, Waiting
  <2>3. CallWaits(heap, calls[1])
    BY <2>2 DEF IInv, Linked, CallsWait
  <2>4. iter \in 1 .. Len(heap)
    BY <1>t, <2>1, <2>3, TopCall, TopIn DEF CallWaits, From
  <2>5. copy.cpy \in Pointer
    BY <1>t DEF Pointer
  <2>6. heap' \in Seq(Cell)
    BY <1>t, <1>12, <2>4, <2>5, SetCdr DEF GotCopied
  <2> QED BY <1>t, <1>12, <2>5, <2>6 DEF GotCopied
<1>13. CASE Walk
  <2>1. cdr(result) \in Pointer
    BY <1>t, <1>13, HeapTypes DEF Walk
  <2> QED BY <1>t, <1>13, <2>1 DEF Walk
<1>14. CASE WalkDone
  <2>1. calls # <<>>
    BY <1>14 DEF IInv, Linked, HasCall, WalkDone
  <2>2. calls[1].next \in From(heap, calls[1].first) /\ result \in From(heap, calls[1].first)
    BY <1>14 DEF IInv, Linked, WalkIn, WalkDone
  <2>3. result \in 1 .. Len(heap) /\ Pair(next)
    BY <1>t, <2>1, <2>2, TopCall, TopIn DEF From, Pair
  <2>4. cdr(next) \in Pointer
    BY <1>t, <2>3, HeapTypes
  <2>5. heap' \in Seq(Cell)
    BY <1>t, <1>14, <2>3, <2>4, SetCdr DEF WalkDone
  <2>6. calls' \in Seq(Call)
    BY <1>t, <1>14, <2>1, CallSet DEF WalkDone, IterAt, BehindThem
  <2> QED BY <1>t, <1>14, <2>5, <2>6 DEF WalkDone
<1>15. CASE UNCHANGED vars
  BY <1>t, <1>15 DEF vars
<1> QED
  BY <1>1, <1>2, <1>3, <1>4, <1>5, <1>6, <1>7, <1>8, <1>9, <1>10, <1>11, <1>12,
     <1>13, <1>14, <1>15
     DEF Next, CopyImproper, ExpandMalformed, SpliceAtom, Done

-----------------------------------------------------------------------------
(* The calls in a step.                                                     *)

LEMMA CallAt ==
  ASSUME IInv, NEW n \in DOMAIN calls
  PROVE  /\ calls[n] \in Call /\ CallIn(heap, calls[n])
         /\ calls[n].first \in 1 .. Len(heap) /\ calls[n].first > Len(program.heap)
<1>1. TypeOK /\ calls[n].first > Len(program.heap) /\ CallIn(heap, calls[n])
  BY DEF IInv, Linked, CallsIn
<1>2. calls[n] \in Call /\ calls[n].first \in Nat /\ Len(heap) \in Nat
  <2>1. calls[n] \in Call /\ Len(heap) \in Nat
    BY <1>1 DEF TypeOK
  <2> QED BY <2>1 DEF Call
<1>3. calls[n].first <= Len(heap)
  BY <1>1, <1>2 DEF CallIn, From, Call
<1> QED BY <1>1, <1>2, <1>3, ProgramHeap

\* A call that waits is before the pairs that are made next.
LEMMA WaitsBefore ==
  ASSUME IInv, NEW n \in DOMAIN calls, CallWaits(heap, calls[n])
  PROVE  Before(calls[n], Len(heap) + 1)
<1>1. heap \in Seq(Cell) /\ calls[n].first \in 1 .. Len(heap)
  BY CallAt DEF IInv, TypeOK
<1> QED BY <1>1 DEF CallWaits, Before, From

\* The calls outside of the one in its loop.
LEMMA OuterCall ==
  ASSUME IInv, NEW n \in DOMAIN calls, n > 1
  PROVE  /\ Before(calls[n], calls[1].first) /\ CallWaits(heap, calls[n])
         /\ 1 \in DOMAIN calls
<1>1. n \in Waiting
  BY DEF Waiting
<1>2. 1 \in DOMAIN calls
  BY DEF IInv, TypeOK
<1> QED BY <1>1, <1>2 DEF IInv, Linked, CallsWait, CallsNested

LEMMA CallKept ==
  ASSUME IInv, NEW b \in Nat, HeapStep(heap, heap', b), NEW n \in DOMAIN calls,
         calls[n].first <= b
  PROVE  /\ CallIn(heap', calls[n])
         /\ CallWaits(heap, calls[n]) /\ calls[n].iter < b => CallWaits(heap', calls[n])
<1>1. heap \in Seq(Cell) /\ calls[n] \in Call /\ CallIn(heap, calls[n])
      /\ calls[n].first \in 1 .. b
  BY CallAt DEF IInv, TypeOK
<1> QED BY <1>1, CallStep, WaitStep

LEMMA ProgramKept ==
  ASSUME IInv, NEW b \in Nat, b > Len(program.heap), HeapStep(heap, heap', b),
         program' = program
  PROVE  Keeps(heap)'
<1>1. TypeOK /\ Keeps(heap)
  BY DEF IInv, Linked
<1>2. Keeps(heap')
  BY <1>1, KeepsStep
<1> QED BY <1>2 DEF Keeps

\* The calls stay, and what is written is behind them.
LEMMA CallsKept ==
  ASSUME IInv, NEW b \in Nat, b > Len(program.heap), HeapStep(heap, heap', b),
         program' = program, calls' = calls, Waiting' \subseteq Waiting,
         \A n \in DOMAIN calls : Before(calls[n], b)
  PROVE  Keeps(heap)' /\ CallsIn' /\ CallsWait' /\ CallsNested'
<1>1. ASSUME NEW n \in DOMAIN calls
      PROVE  /\ calls[n].first > Len(program.heap) /\ CallIn(heap', calls[n])
             /\ CallWaits(heap, calls[n]) => CallWaits(heap', calls[n])
  <2>1. calls[n].first \in Nat /\ calls[n].first > Len(program.heap)
    BY CallAt
  <2>2. calls[n].first <= b /\ calls[n].iter < b
    BY <2>1 DEF Before
  <2> QED BY <2>1, <2>2, CallKept
<1>2. CallsIn'
  BY <1>1 DEF CallsIn
<1>3. CallsWait'
  <2>1. \A n \in Waiting : n \in DOMAIN calls /\ CallWaits(heap, calls[n])
    BY DEF IInv, Linked, CallsWait, Waiting
  <2>2. \A n \in Waiting' : CallWaits(heap', calls[n])
    BY <1>1, <2>1
  <2> QED BY <2>2 DEF CallsWait
<1>4. CallsNested'
  BY DEF IInv, Linked, CallsNested
<1> QED BY <1>2, <1>3, <1>4, ProgramKept

\* The heap and the calls stay.
LEMMA SameHeap ==
  ASSUME IInv, UNCHANGED <<program, heap, calls>>, Waiting' \subseteq Waiting,
         ~Copying', HasCall', WalkIn'
  PROVE  Linked'
<1>1. Keeps(heap)' /\ CallsIn' /\ CallsNested'
  BY DEF IInv, Linked, Keeps, CallsIn, CallsNested
<1>2. CallsWait'
  BY DEF IInv, Linked, CallsWait
<1>3. CopyIn'
  BY DEF CopyIn
<1> QED BY <1>1, <1>2, <1>3 DEF Linked

-----------------------------------------------------------------------------
(* pair_copy_list.                                                          *)

LEMMA CopyBegins ==
  ASSUME IInv, NEW list, Pair(list), NEW then, CopyFirst(list, then),
         UNCHANGED <<program, calls>>, DOMAIN calls \subseteq Waiting,
         then # "walk", HasCall'
  PROVE  Linked'
<1> DEFINE b == Len(heap) + 1
<1>1. TypeOK
  BY DEF IInv
<1>2. heap \in Seq(Cell) /\ b \in 1 .. Len(heap) + 1 /\ b \in Nat /\ car(list) \in Pointer
  BY <1>1, HeapTypes DEF TypeOK
<1>3. b > Len(program.heap)
  BY <1>1, <1>2, ProgramHeap DEF IInv, Linked, Keeps
<1>4. heap' = pair_wrap(heap, car(list), Nil)
  BY DEF CopyFirst
<1>5. Len(heap') = b
  BY <1>2, <1>4, NewPair, NilNotPair
<1>6. HeapStep(heap, heap', b)
  BY <1>2, <1>4, StepNewPair
<1>7. Closed(heap', b)
  BY <1>2, <1>4, ClosedFirst
<1>8. \A n \in DOMAIN calls : Before(calls[n], b)
  BY WaitsBefore DEF IInv, Linked, CallsWait
<1>9. Waiting' \subseteq Waiting
  BY DEF Waiting
<1>10. copy'.cpy = b /\ copy'.dest = b /\ pc' = then
  BY DEF CopyFirst
<1> HIDE DEF b
<1>11. Keeps(heap)' /\ CallsIn' /\ CallsWait' /\ CallsNested'
  BY <1>2, <1>3, <1>6, <1>8, <1>9, CallsKept
<1>12. CopyIn'
  <2>1. b \in From(heap', b)
    BY <1>2, <1>5 DEF From
  <2> QED BY <1>3, <1>7, <1>8, <1>10, <2>1 DEF CopyIn
<1>13. WalkIn'
  BY <1>10 DEF WalkIn
<1> QED BY <1>11, <1>12, <1>13 DEF Linked

LEMMA CopyGoesOn == IInv /\ CopyNext => Linked'
<1> SUFFICES ASSUME IInv, CopyNext PROVE Linked'
  OBVIOUS
<1> DEFINE b == copy.cpy
           x == car(copy.src)
           g == pair_wrap(heap, x, Nil)
<1>1. TypeOK /\ heap \in Seq(Cell) /\ b \in Nat /\ x \in Pointer
  BY HeapTypes DEF IInv, TypeOK, CopyNext
<1>2. /\ b > Len(program.heap) /\ Closed(heap, b) /\ copy.dest \in From(heap, b)
      /\ \A n \in DOMAIN calls : Before(calls[n], b)
  BY DEF IInv, Linked, CopyIn, CopyNext
<1>3. b \in 1 .. Len(heap) + 1 /\ b \in Nat \ {0}
  BY <1>1, <1>2, ProgramHeap DEF From
<1>4. g \in Seq(Cell) /\ Len(g) = Len(heap) + 1
  BY <1>1, NewPair, NilNotPair
<1>5. HeapStep(heap, g, b)
  BY <1>1, <1>3, StepNewPair
<1>6. heap' = pair_set_cdr(g, copy.dest, Len(heap) + 1)
  BY DEF CopyNext
<1>7. copy' = [copy EXCEPT !.src = cdr(copy.src), !.dest = Len(heap) + 1]
      /\ UNCHANGED <<program, calls, pc, result>>
  BY DEF CopyNext
<1> HIDE DEF g, b, x
<1>8. copy.dest \in From(g, b) /\ Len(heap) + 1 \in From(g, b)
  BY <1>1, <1>2, <1>3, <1>4 DEF From
<1>9. HeapStep(g, heap', b)
  BY <1>3, <1>4, <1>6, <1>8, StepSetCdr
<1>10. HeapStep(heap, heap', b)
  BY <1>1, <1>5, <1>9, StepTwice
<1>11. Keeps(heap)' /\ CallsIn' /\ CallsWait' /\ CallsNested'
  <2>1. Waiting' = Waiting
    BY <1>7 DEF Waiting
  <2> QED BY <1>1, <1>2, <1>7, <1>10, <2>1, CallsKept
<1>12. CopyIn'
  <2>1. copy'.cpy = b /\ copy'.dest = Len(heap) + 1
    BY <1>1, <1>7 DEF TypeOK, b
  <2>2. Closed(heap', b)
    BY <1>2, <1>3, <1>10 DEF HeapStep
  <2>3. Len(heap) + 1 \in From(heap', b)
    BY <1>1, <1>4, <1>8, <1>9 DEF HeapStep, From
  <2> QED BY <1>2, <1>7, <2>1, <2>2, <2>3 DEF CopyIn
<1>13. HasCall' /\ WalkIn'
  BY <1>7 DEF IInv, Linked, HasCall, WalkIn, CopyNext, Copying
<1> QED BY <1>11, <1>12, <1>13 DEF Linked

LEMMA ContentLinked == IInv /\ ContentCopied => Linked'
<1> SUFFICES ASSUME IInv, ContentCopied PROVE Linked'
  OBVIOUS
<1> DEFINE b == copy.cpy
           k == Len(heap) + 1
           c == [content |-> k, iter |-> k, next |-> Nil, first |-> b]
<1>1. TypeOK /\ heap \in Seq(Cell) /\ b \in Nat /\ calls \in Seq(Call) /\ k \in Nat
  BY DEF IInv, TypeOK
<1>2. /\ b > Len(program.heap) /\ Closed(heap, b) /\ copy.dest \in From(heap, b)
      /\ \A n \in DOMAIN calls : Before(calls[n], b)
  BY DEF IInv, Linked, CopyIn, ContentCopied, Copying
<1>3. b \in 1 .. Len(heap) /\ b \in 1 .. Len(heap) + 1 /\ b \in From(heap, b)
  BY <1>1, <1>2, ProgramHeap DEF From
<1>4. heap' = pair_wrap(heap, Nil, b) /\ calls' = <<c>> \o calls
      /\ program' = program /\ pc' = "loop" /\ pc = "copy_content"
  BY DEF ContentCopied
<1>5. HeapStep(heap, heap', b)
  BY <1>1, <1>3, <1>4, StepNewPair, NilNotPair
<1>6. Len(heap') = k
  BY <1>1, <1>4, NewPair, NilNotPair DEF Pointer
<1>7. CallIn(heap', c)
  <2>1. Closed(heap', b)
    BY <1>2, <1>3, <1>5 DEF HeapStep
  <2>2. k \in From(heap', b)
    BY <1>1, <1>3, <1>6 DEF From
  <2> QED BY <2>1, <2>2 DEF CallIn
<1>8. c \in Call
  BY <1>1, NilNotPair DEF Call, Pointer
<1>9. c.first = b
  OBVIOUS
<1> HIDE DEF c, k, b
\* The calls there were.
<1>10. ASSUME NEW n \in DOMAIN calls
       PROVE  /\ Before(calls[n], b) /\ CallWaits(heap', calls[n])
              /\ calls[n].first > Len(program.heap) /\ CallIn(heap', calls[n])
  <2>1. n \in Waiting
    BY <1>4 DEF Waiting
  <2>2. CallWaits(heap, calls[n])
    BY <2>1 DEF IInv, Linked, CallsWait
  <2>3. Before(calls[n], b) /\ calls[n].first \in Nat /\ calls[n].first > Len(program.heap)
    BY <1>2, CallAt
  <2>4. calls[n].first <= b /\ calls[n].iter < b
    BY <1>1, <2>3 DEF Before
  <2> QED BY <1>1, <1>5, <2>2, <2>3, <2>4, CallKept
<1>11. /\ DOMAIN calls' = 1 .. Len(calls) + 1
       /\ calls'[1] = c
       /\ \A n \in DOMAIN calls' : n > 1 => n - 1 \in DOMAIN calls /\ calls'[n] = calls[n - 1]
  BY <1>1, <1>4, <1>8
<1>12. Keeps(heap)'
  BY <1>1, <1>2, <1>4, <1>5, ProgramKept
<1>13. CallsIn'
  <2>1. ASSUME NEW n \in DOMAIN calls'
        PROVE  calls'[n].first > Len(program.heap) /\ CallIn(heap', calls'[n])
    <3>1. CASE n = 1
      BY <1>2, <1>7, <1>9, <1>11, <3>1
    <3>2. CASE n # 1
      BY <1>1, <1>10, <1>11, <3>2
    <3> QED BY <3>1, <3>2
  <2> QED BY <1>4, <2>1 DEF CallsIn
<1>14. CallsWait'
  <2>1. \A n \in Waiting' : n \in DOMAIN calls' /\ n > 1
    BY <1>4 DEF Waiting
  <2>2. \A n \in Waiting' : CallWaits(heap', calls'[n])
    BY <1>10, <1>11, <2>1
  <2> QED BY <2>2 DEF CallsWait
<1>15. CallsNested'
  <2>1. ASSUME NEW m \in DOMAIN calls', NEW n \in DOMAIN calls', m < n
        PROVE  Before(calls'[n], calls'[m].first)
    <3>1. n > 1 /\ n - 1 \in DOMAIN calls /\ calls'[n] = calls[n - 1]
      BY <1>1, <1>11, <2>1
    <3>2. CASE m = 1
      BY <1>9, <1>10, <1>11, <3>1, <3>2
    <3>3. CASE m # 1
      <4>1. m - 1 \in DOMAIN calls /\ calls'[m] = calls[m - 1] /\ m - 1 < n - 1
        BY <1>1, <1>11, <2>1, <3>3
      <4> QED BY <3>1, <4>1 DEF IInv, Linked, CallsNested
    <3> QED BY <3>2, <3>3
  <2> QED BY <2>1 DEF CallsNested
<1>16. CopyIn' /\ WalkIn'
  BY <1>4 DEF CopyIn, Copying, WalkIn
<1>17. HasCall'
  BY <1>1, <1>4, <1>11 DEF HasCall
<1> QED BY <1>12, <1>13, <1>14, <1>15, <1>16, <1>17 DEF Linked

-----------------------------------------------------------------------------
(* The loop.                                                                *)

\* The loop goes on at p.
LEMMA LoopGoesOn ==
  ASSUME IInv, TypeOK', calls # <<>>, HeapStep(heap, heap', calls[1].first),
         program' = program, NEW p \in Pointer, calls' = [calls EXCEPT ![1].iter = p],
         p \in From(heap', calls[1].first) \cup {Nil}, pc' = "loop"
  PROVE  Linked'
<1> DEFINE b == calls[1].first
<1>1. TypeOK /\ heap \in Seq(Cell) /\ calls \in Seq(Call)
  BY DEF IInv, TypeOK
<1>2. 1 \in DOMAIN calls /\ calls[1] \in Call
  BY <1>1, TopCall
<1>3. b \in Nat /\ b > Len(program.heap) /\ CallIn(heap, calls[1])
  BY <1>2, CallAt
<1>4. /\ DOMAIN calls' = DOMAIN calls
      /\ calls'[1] = [calls[1] EXCEPT !.iter = p]
      /\ \A n \in DOMAIN calls : n # 1 => calls'[n] = calls[n]
  BY <1>1, <1>2
<1>5. calls'[1].first = b /\ calls'[1].content = calls[1].content /\ calls'[1].iter = p
  BY <1>2, <1>4 DEF Call
<1>6. CallIn(heap', calls[1])
  BY <1>2, <1>3, CallKept
<1>7. CallIn(heap', calls'[1])
  BY <1>5, <1>6 DEF CallIn
<1> HIDE DEF b
<1>8. ASSUME NEW n \in DOMAIN calls, n # 1
      PROVE  /\ Before(calls[n], b) /\ CallWaits(heap', calls[n])
             /\ calls[n].first > Len(program.heap) /\ CallIn(heap', calls[n])
  <2>1. n > 1
    BY <1>1, <1>8
  <2>2. Before(calls[n], b) /\ CallWaits(heap, calls[n])
    BY <2>1, OuterCall DEF b
  <2>3. calls[n].first \in Nat /\ calls[n].first > Len(program.heap)
    BY CallAt
  <2>4. calls[n].first <= b /\ calls[n].iter < b
    BY <1>3, <2>2, <2>3 DEF Before
  <2> QED BY <1>3, <2>2, <2>3, <2>4, CallKept DEF b
<1>9. Keeps(heap)'
  BY <1>3, ProgramKept DEF b
<1>10. CallsIn'
  <2>1. ASSUME NEW n \in DOMAIN calls
        PROVE  calls'[n].first > Len(program.heap) /\ CallIn(heap', calls'[n])
    <3>1. CASE n = 1
      BY <1>3, <1>5, <1>7, <3>1
    <3>2. CASE n # 1
      BY <1>4, <1>8, <3>2
    <3> QED BY <3>1, <3>2
  <2> QED BY <1>4, <2>1 DEF CallsIn
<1>11. CallsWait'
  <2>1. \A n \in Waiting' : n \in DOMAIN calls /\ n # 1
    BY <1>1, <1>4 DEF Waiting
  <2>2. \A n \in Waiting' : CallWaits(heap', calls'[n])
    BY <1>4, <1>8, <2>1
  <2> QED BY <2>2 DEF CallsWait
<1>12. CallsNested'
  <2>1. ASSUME NEW m \in DOMAIN calls, NEW n \in DOMAIN calls, m < n
        PROVE  Before(calls'[n], calls'[m].first)
    <3>1. n # 1 /\ calls'[n] = calls[n]
      BY <1>1, <1>4, <2>1
    <3>2. calls'[m].first = calls[m].first
      BY <1>4, <1>5 DEF b
    <3> QED BY <2>1, <3>1, <3>2 DEF IInv, Linked, CallsNested
  <2> QED BY <1>4, <2>1 DEF CallsNested
<1>13. CopyIn' /\ WalkIn'
  BY DEF CopyIn, Copying, WalkIn
<1>14. HasCall'
  BY <1>1, <1>2, <1>4 DEF HasCall
<1> QED BY <1>9, <1>10, <1>11, <1>12, <1>13, <1>14 DEF Linked

\* What the call that waits has in its hands.
LEMMA TopWaits ==
  ASSUME IInv, calls # <<>>, 1 \in Waiting
  PROVE  /\ CallWaits(heap, calls[1]) /\ cdr(iter) = next
         /\ iter \in From(heap, calls[1].first) /\ next \in From(heap, calls[1].first)
<1>1. TypeOK
  BY DEF IInv
<1>2. CallWaits(heap, calls[1])
  BY DEF IInv, Linked, CallsWait
<1> QED BY <1>1, <1>2, TopCall DEF CallWaits, cdr

LEMMA CallLinked == IInv /\ TypeOK' /\ LoopCall => Linked'
<1> SUFFICES ASSUME IInv, TypeOK', LoopCall PROVE Linked'
  OBVIOUS
<1>1. TypeOK /\ calls \in Seq(Call) /\ calls # <<>> /\ Pair(iter)
  BY DEF IInv, TypeOK, Linked, HasCall, LoopCall
<1>2. 1 \in DOMAIN calls /\ calls[1] \in Call /\ iter = calls[1].iter
  BY <1>1, TopCall
<1>3. /\ iter \in From(heap, calls[1].first)
      /\ NextElement \in From(heap, calls[1].first)
  BY <1>1, AfterIter DEF NextElement, LoopCall
<1>4. /\ calls' = [calls EXCEPT ![1].next = NextElement] /\ pc' = "expand" /\ pc = "loop"
      /\ UNCHANGED <<program, heap>>
  BY DEF LoopCall
<1>5. /\ DOMAIN calls' = DOMAIN calls
      /\ calls'[1] = [calls[1] EXCEPT !.next = NextElement]
      /\ \A n \in DOMAIN calls : n # 1 => calls'[n] = calls[n]
  BY <1>1, <1>2, <1>4
<1>6. /\ calls'[1].first = calls[1].first /\ calls'[1].content = calls[1].content
      /\ calls'[1].iter = iter /\ calls'[1].next = NextElement
  BY <1>2, <1>5 DEF Call
<1>7. CallWaits(heap, calls'[1])
  BY <1>3, <1>6 DEF CallWaits, NextElement, cdr
<1>8. CallsIn'
  <2>1. ASSUME NEW n \in DOMAIN calls
        PROVE  calls'[n].first > Len(program.heap) /\ CallIn(heap, calls'[n])
    <3>1. calls[n].first > Len(program.heap) /\ CallIn(heap, calls[n])
      BY CallAt
    <3>2. CASE n = 1
      BY <1>2, <1>6, <3>1, <3>2 DEF CallIn
    <3>3. CASE n # 1
      BY <1>5, <3>1, <3>3
    <3> QED BY <3>2, <3>3
  <2> QED BY <1>4, <1>5, <2>1 DEF CallsIn
<1>9. CallsWait'
  <2>1. ASSUME NEW n \in DOMAIN calls PROVE CallWaits(heap, calls'[n])
    <3>1. CASE n = 1
      BY <1>7, <3>1
    <3>2. CASE n # 1
      <4>1. n > 1
        BY <1>1, <3>2
      <4> QED BY <1>5, <3>2, <4>1, OuterCall
    <3> QED BY <3>1, <3>2
  <2> QED BY <1>4, <1>5, <2>1 DEF CallsWait, Waiting
<1>10. CallsNested'
  <2>1. ASSUME NEW m \in DOMAIN calls, NEW n \in DOMAIN calls, m < n
        PROVE  Before(calls'[n], calls'[m].first)
    <3>1. n # 1 /\ calls'[n] = calls[n]
      BY <1>1, <1>5, <2>1
    <3>2. calls'[m].first = calls[m].first
      BY <1>5, <1>6
    <3> QED BY <2>1, <3>1, <3>2 DEF IInv, Linked, CallsNested
  <2> QED BY <1>5, <2>1 DEF CallsNested
<1>11. Keeps(heap)' /\ CopyIn' /\ HasCall' /\ WalkIn'
  BY <1>4 DEF IInv, Linked, Keeps, CopyIn, Copying, HasCall, WalkIn
<1> QED BY <1>8, <1>9, <1>10, <1>11 DEF Linked

LEMMA DoneLinked == IInv /\ LoopDone => Linked'
<1> SUFFICES ASSUME IInv, LoopDone PROVE Linked'
  OBVIOUS
<1>1. TypeOK /\ calls \in Seq(Call) /\ calls # <<>>
  BY DEF IInv, TypeOK, Linked, HasCall, LoopDone
<1>2. calls' = Tail(calls) /\ pc' = "returned" /\ UNCHANGED <<program, heap>>
  BY DEF LoopDone, Return
<1>3. \A n \in DOMAIN calls' : /\ n \in Nat \ {0} /\ n + 1 \in DOMAIN calls
                               /\ calls'[n] = calls[n + 1]
  BY <1>1, <1>2
<1>4. CallsIn'
  BY <1>2, <1>3 DEF IInv, Linked, CallsIn
<1>5. CallsWait'
  <2>1. ASSUME NEW n \in DOMAIN calls' PROVE CallWaits(heap, calls'[n])
    <3>1. n + 1 \in DOMAIN calls /\ n + 1 > 1 /\ calls'[n] = calls[n + 1]
      BY <1>3
    <3> QED BY <3>1, OuterCall
  <2> QED BY <1>2, <2>1 DEF CallsWait, Waiting
<1>6. CallsNested'
  <2>1. ASSUME NEW m \in DOMAIN calls', NEW n \in DOMAIN calls', m < n
        PROVE  Before(calls'[n], calls'[m].first)
    <3>1. /\ m + 1 \in DOMAIN calls /\ n + 1 \in DOMAIN calls /\ m + 1 < n + 1
          /\ calls'[m] = calls[m + 1] /\ calls'[n] = calls[n + 1]
      BY <1>3, <2>1
    <3> QED BY <3>1 DEF IInv, Linked, CallsNested
  <2> QED BY <2>1 DEF CallsNested
<1>7. Keeps(heap)' /\ CopyIn' /\ HasCall' /\ WalkIn'
  BY <1>2 DEF IInv, Linked, Keeps, CopyIn, Copying, HasCall, WalkIn
<1> QED BY <1>4, <1>5, <1>6, <1>7 DEF Linked

LEMMA PutLinked == IInv /\ TypeOK' /\ PutOne => Linked'
<1> SUFFICES ASSUME IInv, TypeOK', PutOne PROVE Linked'
  OBVIOUS
<1> DEFINE b == calls[1].first
<1>1. TypeOK /\ heap \in Seq(Cell) /\ calls # <<>> /\ 1 \in Waiting /\ result \in Pointer
  BY TopCall DEF IInv, TypeOK, PutOne, Returned, Waiting
<1>2. cdr(iter) = next /\ next \in From(heap, b) /\ b \in Nat \ {0}
  BY <1>1, TopWaits, TopIn
<1>3. heap' = pair_set_car(heap, next, result) /\ calls' = [calls EXCEPT ![1].iter = next]
      /\ pc' = "loop" /\ program' = program
  BY <1>2 DEF PutOne, IterAt
<1>4. HeapStep(heap, heap', b) /\ Len(heap') = Len(heap)
  BY <1>1, <1>2, <1>3, StepSetCar
<1>5. next \in From(heap', b) /\ next \in Pointer
  BY <1>2, <1>4 DEF From, Pointer
<1> QED BY <1>1, <1>3, <1>4, <1>5, LoopGoesOn

\* A pair of the call is linked to another of its pairs or to the end.
LEMMA LinkedIn ==
  ASSUME IInv, calls # <<>>,
         NEW i \in From(heap, calls[1].first),
         NEW p \in From(heap, calls[1].first) \cup {Nil},
         heap' = pair_set_cdr(heap, i, p)
  PROVE  /\ HeapStep(heap, heap', calls[1].first)
         /\ From(heap', calls[1].first) = From(heap, calls[1].first)
<1> DEFINE b == calls[1].first
<1>1. heap \in Seq(Cell) /\ b \in Nat \ {0}
  BY TopIn DEF IInv, TypeOK
<1>2. i \in 1 .. Len(heap) /\ p \in Pointer
  BY <1>1, NilNotPair DEF From, Pointer
<1>3. Len(heap') = Len(heap)
  BY <1>1, <1>2, SetCdr
<1> QED BY <1>1, <1>3, StepSetCdr DEF From

\* What follows a pair of the call.
LEMMA Follows ==
  ASSUME IInv, calls # <<>>, NEW a \in From(heap, calls[1].first)
  PROVE  cdr(a) \in From(heap, calls[1].first) \cup {Nil}
  BY TopIn DEF CallIn, Closed, cdr

LEMMA NoneLinked == IInv /\ TypeOK' /\ SpliceNone => Linked'
<1> SUFFICES ASSUME IInv, TypeOK', SpliceNone PROVE Linked'
  OBVIOUS
<1> DEFINE b == calls[1].first
<1>1. TypeOK /\ calls # <<>> /\ 1 \in Waiting
  BY TopCall DEF IInv, TypeOK, SpliceNone, Returned, Waiting
<1>2. iter \in From(heap, b) /\ next \in From(heap, b)
  BY <1>1, TopWaits
<1>3. cdr(next) \in From(heap, b) \cup {Nil}
  BY <1>1, <1>2, Follows
<1>4. heap' = pair_set_cdr(heap, iter, cdr(next)) /\ calls' = [calls EXCEPT ![1].iter = cdr(next)]
      /\ pc' = "loop" /\ program' = program
  BY DEF SpliceNone, IterAt
<1>5. HeapStep(heap, heap', b) /\ From(heap', b) = From(heap, b)
  BY <1>1, <1>2, <1>3, <1>4, LinkedIn
<1>6. cdr(next) \in Pointer
  <2>1. Pair(next)
    BY <1>1, <1>2, TopIn DEF From, Pair, TypeOK
  <2> QED BY <1>1, <2>1, HeapTypes
<1> QED BY <1>1, <1>3, <1>4, <1>5, <1>6, LoopGoesOn

LEMMA WalkDoneLinked == IInv /\ TypeOK' /\ WalkDone => Linked'
<1> SUFFICES ASSUME IInv, TypeOK', WalkDone PROVE Linked'
  OBVIOUS
<1> DEFINE b == calls[1].first
<1>1. TypeOK /\ calls # <<>> /\ result \in Pointer
  BY DEF IInv, TypeOK, Linked, HasCall, WalkDone
<1>2. result \in From(heap, b) /\ next \in From(heap, b)
  BY <1>1, TopCall DEF IInv, Linked, WalkIn, WalkDone
<1>3. cdr(next) \in From(heap, b) \cup {Nil}
  BY <1>1, <1>2, Follows
<1>4. heap' = pair_set_cdr(heap, result, cdr(next)) /\ calls' = [calls EXCEPT ![1].iter = result]
      /\ pc' = "loop" /\ program' = program
  BY DEF WalkDone, IterAt, BehindThem
<1>5. HeapStep(heap, heap', b) /\ From(heap', b) = From(heap, b)
  BY <1>1, <1>2, <1>3, <1>4, LinkedIn
<1> QED BY <1>1, <1>2, <1>4, <1>5, LoopGoesOn

LEMMA GotLinked == IInv /\ GotCopied => Linked'
<1> SUFFICES ASSUME IInv, GotCopied PROVE Linked'
  OBVIOUS
<1> DEFINE b == calls[1].first
<1>1. TypeOK /\ heap \in Seq(Cell) /\ calls \in Seq(Call) /\ calls # <<>> /\ copy.cpy \in Nat
  BY DEF IInv, TypeOK, Linked, HasCall, GotCopied
<1>2. 1 \in DOMAIN calls /\ 1 \in Waiting /\ b \in Nat /\ b > Len(program.heap)
  BY <1>1, TopCall, TopIn DEF GotCopied, Waiting
<1>3. iter \in From(heap, b) /\ next \in From(heap, b)
  BY <1>1, <1>2, TopWaits
<1>4. copy.cpy \in From(heap, b)
  <2>1. copy.dest \in From(heap, copy.cpy) /\ b < copy.cpy
    BY <1>2 DEF IInv, Linked, CopyIn, Copying, GotCopied, Before
  <2> QED BY <1>1, <1>2, <2>1 DEF From
<1>5. heap' = pair_set_cdr(heap, iter, copy.cpy) /\ result' = copy.cpy /\ pc' = "walk"
      /\ UNCHANGED <<program, calls>>
  BY DEF GotCopied
<1>6. HeapStep(heap, heap', b) /\ From(heap', b) = From(heap, b)
  BY <1>1, <1>3, <1>4, <1>5, LinkedIn
<1>7. Keeps(heap)'
  BY <1>2, <1>5, <1>6, ProgramKept
<1>8. ASSUME NEW n \in DOMAIN calls
      PROVE  /\ calls[n].first > Len(program.heap) /\ CallIn(heap', calls[n])
             /\ n > 1 => CallWaits(heap', calls[n])
  <2>1. calls[n].first \in Nat /\ calls[n].first > Len(program.heap)
    BY CallAt
  <2>2. CASE n = 1
    BY <1>2, <1>6, <2>1, <2>2, CallKept
  <2>3. CASE n # 1
    <3>1. n > 1
      BY <1>1, <2>3
    <3>2. Before(calls[n], b) /\ CallWaits(heap, calls[n])
      BY <3>1, OuterCall
    <3>3. calls[n].first <= b /\ calls[n].iter < b
      BY <1>2, <2>1, <3>2 DEF Before
    <3> QED BY <1>2, <1>6, <2>1, <3>2, <3>3, CallKept
  <2> QED BY <2>2, <2>3
<1>9. CallsIn'
  BY <1>5, <1>8 DEF CallsIn
<1>10. CallsWait'
  <2>1. \A n \in Waiting' : n \in DOMAIN calls /\ n > 1
    BY <1>5 DEF Waiting
  <2> QED BY <1>5, <1>8, <2>1 DEF CallsWait
<1>11. CallsNested' /\ HasCall' /\ CopyIn'
  BY <1>1, <1>5 DEF IInv, Linked, CallsNested, HasCall, CopyIn, Copying
<1>12. WalkIn'
  BY <1>1, <1>3, <1>4, <1>5, <1>6, TopCall DEF WalkIn
<1> QED BY <1>7, <1>9, <1>10, <1>11, <1>12 DEF Linked

LEMMA WalkLinked == IInv /\ Walk => Linked'
<1> SUFFICES ASSUME IInv, Walk PROVE Linked'
  OBVIOUS
<1>1. TypeOK /\ calls # <<>> /\ cdr(result) \in 1 .. Len(heap)
  BY DEF IInv, Linked, HasCall, Walk, Pair, TypeOK
<1>2. cdr(result) # Nil
  BY <1>1, NilNotPair
<1>3. result \in From(heap, calls[1].first)
  BY DEF IInv, Linked, WalkIn, Walk
<1>4. cdr(result) \in From(heap, calls[1].first)
  BY <1>1, <1>2, <1>3, Follows
<1>5. WalkIn'
  BY <1>4 DEF IInv, Linked, WalkIn, Walk
<1>6. Waiting' \subseteq Waiting /\ ~Copying' /\ HasCall'
  BY DEF IInv, Linked, HasCall, Waiting, Copying, Walk
<1> QED BY <1>5, <1>6, SameHeap DEF Walk

LEMMA InitLinked == Init => Linked
<1> SUFFICES ASSUME Init PROVE Linked
  OBVIOUS
<1>1. TypeOK
  BY InitTypes
<1>2. Keeps(heap)
  BY <1>1, ProgramHeap DEF Keeps, Init
<1>3. DOMAIN calls = {}
  BY DEF Init
<1> QED BY <1>2, <1>3 DEF Init, Linked, CallsIn, CallsWait, Waiting, CallsNested, CopyIn,
                         Copying, HasCall, WalkIn

LEMMA LinkedStep == IInv /\ [Next]_vars => Linked'
<1> SUFFICES ASSUME IInv, [Next]_vars PROVE Linked'
  OBVIOUS
<1>t. TypeOK' /\ TypeOK
  BY TypeStep DEF IInv
<1>1. CASE Fatal
  <2>1. Waiting' \subseteq Waiting /\ ~Copying' /\ HasCall' /\ WalkIn'
    BY <1>1 DEF Fatal, Waiting, Copying, HasCall, WalkIn
  <2> QED BY <1>1, <2>1, SameHeap DEF Fatal
<1>2. CASE ExpandConstant \/ ExpandUnquote
  <2>1. pc = "expand" /\ pc' = "returned" /\ UNCHANGED <<program, heap, calls>>
    BY <1>2 DEF ExpandConstant, ExpandUnquote, Return
  <2>2. Waiting' \subseteq Waiting /\ ~Copying' /\ HasCall' /\ WalkIn'
    BY <2>1 DEF Waiting, Copying, HasCall, WalkIn
  <2> QED BY <2>1, <2>2, SameHeap
<1>3. CASE ExpandList
  <2>1. /\ Pair(arg) /\ CopyFirst(arg, "copy_content") /\ UNCHANGED <<program, calls>>
        /\ pc = "expand"
    BY <1>3 DEF ExpandList, Form
  <2>2. DOMAIN calls \subseteq Waiting /\ HasCall'
    BY <2>1 DEF Waiting, HasCall, CopyFirst
  <2> QED BY <2>1, <2>2, CopyBegins
<1>4. CASE SpliceList
  <2>1. /\ Pair(result) /\ CopyFirst(result, "copy_got") /\ UNCHANGED <<program, calls>>
        /\ pc = "returned" /\ calls # <<>>
    BY <1>4 DEF SpliceList, Returned
  <2>2. DOMAIN calls \subseteq Waiting /\ HasCall'
    BY <2>1 DEF Waiting, HasCall
  <2> QED BY <2>1, <2>2, CopyBegins
<1>5. CASE UNCHANGED vars
  BY <1>5 DEF vars, IInv, Linked, Keeps, CallsIn, CallsWait, Waiting, CallsNested,
              CopyIn, Copying, HasCall, WalkIn
<1> QED
  BY <1>1, <1>2, <1>3, <1>4, <1>5, <1>t, CopyGoesOn, ContentLinked, CallLinked, DoneLinked,
     PutLinked, NoneLinked, GotLinked, WalkLinked, WalkDoneLinked
     DEF Next, CopyImproper, ExpandMalformed, SpliceAtom, Done

-----------------------------------------------------------------------------
THEOREM Invariance == Spec => []IInv
<1>1. Init => IInv
  BY InitTypes, InitLinked DEF IInv
<1>2. IInv /\ [Next]_vars => IInv'
  BY TypeStep, LinkedStep DEF IInv
<1> QED BY <1>1, <1>2, PTL DEF Spec

(* No pair of the program is written, whatever template of whatever program *)
(* is expanded (lang_quasiquote): a macro can be used again, and a list can *)
(* be spliced into many places.                                             *)
THEOREM ProgramUntouched == Spec => []OriginalsIntact
<1>1. IInv => OriginalsIntact
  <2> SUFFICES ASSUME IInv PROVE OriginalsIntact
    OBVIOUS
  <2>1. TypeOK /\ Keeps(heap)
    BY DEF IInv, Linked
  <2>2. DOMAIN program.heap = 1 .. Len(program.heap)
    BY <2>1, ProgramHeap
  <2> QED BY <2>1, <2>2 DEF Keeps, OriginalsIntact
<1> QED BY <1>1, Invariance, PTL

(* However the expansions nest, the element that one is about to replace is *)
(* the one its loop is at (slang.c:283).                                    *)
THEOREM LoopKeepsItsPlace == Spec => []NextFollowsIter
<1>1. IInv => NextFollowsIter
  <2> SUFFICES ASSUME IInv, NEW n \in Waiting
               PROVE  /\ Pair(calls[n].iter) /\ Pair(calls[n].next)
                      /\ cdr(calls[n].iter) = calls[n].next
    BY DEF NextFollowsIter
  <2>1. n \in DOMAIN calls /\ CallWaits(heap, calls[n]) /\ heap \in Seq(Cell)
    BY DEF IInv, TypeOK, Linked, CallsWait, Waiting
  <2>2. calls[n].first \in 1 .. Len(heap)
    BY <2>1, CallAt
  <2> QED BY <2>1, <2>2 DEF CallWaits, From, Pair, cdr
<1> QED BY <1>1, Invariance, PTL
=============================================================================
