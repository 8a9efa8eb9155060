--------------------------- MODULE MCQuasiquote ---------------------------
EXTENDS Quasiquote, SequencesExt

CONSTANTS a, b,          \* symbols
          x, none, two,  \* expressions
          Template       \* the terms that are expanded

MCAtom == {Nil, quasiquote, unquote, unquote_splicing, a, b, x, none, two}

-----------------------------------------------------------------------------
(* A term is an atom or a list of terms and what the list ends with.        *)
List(items, end) == [items |-> items, end |-> end]
ListOf(items, end) == IF items = <<>> THEN end ELSE List(items, end)
Items(t) == IF t \in MCAtom THEN <<>> ELSE t.items
IsForm(t, symbol) == t \notin MCAtom /\ t.items[1] = symbol
IsConstant(t) == t \in MCAtom \/ IsForm(t, quasiquote)
IsUnquote(t) == IsForm(t, unquote) \/ IsForm(t, unquote_splicing)

\* The pointer to t, once t is in the heap h.
RECURSIVE Build(_, _)
Build(t, h) ==
  IF t \in MCAtom THEN [at |-> t, heap |-> h]
  ELSE IF t.items = <<>> THEN [at |-> t.end, heap |-> h]
  ELSE LET first == Build(Head(t.items), h)
           rest == Build(List(Tail(t.items), t.end), first.heap)
       IN  [at |-> Len(rest.heap) + 1, heap |-> Append(rest.heap, <<first.at, rest.at>>)]

\* The term that is at p, with atoms for lists of no items.
RECURSIVE Read(_)
Read(p) == IF ~Pair(p) THEN p
           ELSE LET rest == Read(cdr(p))
                    first == Read(car(p))
                IN  IF rest \in MCAtom THEN List(<<first>>, rest)
                    ELSE List(<<first>> \o rest.items, rest.end)

-----------------------------------------------------------------------------
(* The programs.                                                            *)
Form2(symbol, t) == List(<<symbol, t>>, Nil)

\* What the expressions evaluate to.  One of the values looks like a template.
Value == (x :> a) @@ (none :> Nil)
         @@ (two :> List(<<Form2(unquote, x), b>>, Nil))

Values == LET Put(built, expr) == LET new == Build(Value[expr], built.heap)
                                  IN  [heap |-> new.heap, at |-> (expr :> new.at) @@ built.at]
          IN  FoldLeft(Put, [heap |-> <<>>, at |-> <<>>], SetToSeq(DOMAIN Value))

MCStart == { LET new == Build(t, Values.heap)
             IN  [template |-> t, heap |-> new.heap, at |-> new.at, values |-> Values.at]
             : t \in Template }

Element == {a, Form2(unquote, x), Form2(unquote, two), Form2(unquote_splicing, none),
            Form2(unquote_splicing, two), Form2(quasiquote, Form2(unquote, x))}

\* Lists of up to n terms of S.
ListsOf(S, n) == { ListOf(items, Nil) : items \in SeqOf(S, n) }

Bad == {Form2(unquote_splicing, x), List(<<unquote>>, Nil),
        List(<<a, Form2(unquote, x)>>, b)}

MCTemplate == Element \cup ListsOf(Element, 3)
              \cup ListsOf(Element \cup ListsOf(Element, 2), 2)
              \cup ListsOf(Bad \cup {Form2(unquote, x)}, 2)

SmallTemplate == ListsOf(Element, 2)

-----------------------------------------------------------------------------
(* The reference: what a template expands to, and in which order.           *)
RECURSIVE Expansion(_)
Expansion(t) ==
  IF IsConstant(t) THEN t
  ELSE IF IsUnquote(t) THEN Value[t.items[2]]
  ELSE LET Part(i) == IF IsForm(i, unquote_splicing)
                      THEN Items(Value[i.items[2]])
                      ELSE <<Expansion(i)>>
       IN  ListOf(FlattenSeq([n \in DOMAIN t.items |-> Part(t.items[n])]), t.end)

\* The expressions in the order they are written.
RECURSIVE Unquoted(_)
Unquoted(t) ==
  IF IsConstant(t) THEN <<>>
  ELSE IF IsUnquote(t) THEN Tail(t.items)
  ELSE FlattenSeq([n \in DOMAIN t.items |-> Unquoted(t.items[n])])

\* An element follows a splice of the empty list.
RECURSIVE FollowsNothing(_)
FollowsNothing(t) ==
  /\ ~IsConstant(t) /\ ~IsUnquote(t)
  /\ \E n \in DOMAIN t.items :
       \/ FollowsNothing(t.items[n])
       \/ /\ n < Len(t.items)
          /\ IsForm(t.items[n], unquote_splicing)
          /\ Value[t.items[n].items[2]] = Nil

(* A template expands to what it stands for, lists spliced in and evaluated *)
(* parts in their places, unless a splice of the empty list is followed by  *)
(* an element.                                                              *)
Expands == Finished /\ ~FollowsNothing(program.template) =>
             Read(result) = Expansion(program.template)

(* The expressions are evaluated in the order they are written, each once.  *)
InOrder == ~FollowsNothing(program.template) =>
             /\ IsPrefix(evaluated, Unquoted(program.template))
             /\ Finished => evaluated = Unquoted(program.template)

(* "make sure the next iteration is correct" (slang.c:306): the loop goes   *)
(* on with the element that follows the one spliced, whatever was spliced.  *)
NextIterationCorrect == Finished => Read(result) = Expansion(program.template)
=============================================================================
