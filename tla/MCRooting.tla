----------------------------- MODULE MCRooting -----------------------------
(* The functions of Rooting, each run where the program calls it: the       *)
(* symbol table at 1, the global environment at 6, and an argument for each *)
(* of them.                                                                 *)
EXTENDS RootingFlow

CONSTANT Running      \* the functions that are run

World == <<
  <<2>>, <<3, 31>>, <<4, Nil>>, <<5, Nil>>, <<>>,         \*  1 symbol table, 5 a symbol
  <<7, Nil>>, <<8>>, <<Nil, Nil>>,                        \*  6 global environment
  <<>>, <<>>, <<9, 12>>, <<13, 28>>, <<>>,                \* 11 a list of 9, 13 and 10
  <<9, 10>>,                                              \* 14 a vector
  <<6, 16, 19>>, <<17, 18>>, <<>>, <<>>, <<10, Nil>>,     \* 15 a closure
  <<15>>, <<16, 19>>,                                     \* 20 a macro, 21 formals and body
  <<23>>, <<24, Nil>>, <<25, 26>>, <<17, 9>>, <<27, Nil>>, <<18, 10>>,
                                                          \* 22 a hash table of two
  <<10, Nil>>, <<>>, <<Nil, Nil>>,                        \* 29 a symbol, 30 an environment
  <<32, Nil>>, <<33, Nil>>, <<>>,                         \* 33 another interned symbol
  <<35, 19>>, <<29, 16>> >>                               \* 34 ((f x . rest) body)

\* The steps, the arguments, and the slots that the caller has filled.
Case == [
  environ_wrap |-> [code |-> environ_wrap("result", "outer"),
    args |-> [outer |-> 30], frame |-> <<>>],
  environ_bind |-> [code |-> environ_bind("table_env", "key", "value"),
    args |-> [table_env |-> 6, key |-> 17, value |-> 11], frame |-> <<>>],
  hash_set |-> [code |-> lib_dict_set,
    args |-> [dic |-> 22, key |-> 29, val |-> 13], frame |-> <<22, 29, 13>>],
  hash_delete |-> [code |-> dict_pop("dic"),
    args |-> [dic |-> 22], frame |-> <<22>>],
  hash_keys |-> [code |-> dict_get_keys("result", "dic"),
    args |-> [dic |-> 22], frame |-> <<22>>],
  symbol_intern |-> [code |-> symbol_intern("result"), args |-> <<>>, frame |-> <<>>],
  list_copy |-> [code |-> pair_copy_list("result", "lis"),
    args |-> [lis |-> 11], frame |-> <<>>],
  list_to_vector |-> [code |-> vector_from_list("result", "lis", 3),
    args |-> [lis |-> 11], frame |-> <<>>],
  vector_to_list |-> [code |-> vector_to_list("result", "vec", 2),
    args |-> [vec |-> 14], frame |-> <<14>>],
  macro |-> [code |-> macro_expand("self", "args"),
    args |-> [self |-> 20, args |-> 11], frame |-> <<>>],
  lambda_syntax |-> [code |-> lang_lambda_syntax,
    args |-> [expr |-> 21], frame |-> <<21>>],
  closure |-> [code |-> apply_closure,
    args |-> [proc |-> 15, arg1 |-> 11, arg2 |-> 13],
    frame |-> <<15, 11, 13, Null, 6>>],
  call_ec |-> [code |-> lib_call_ec, args |-> [proc |-> 15], frame |-> <<15>>],
  define |-> [code |-> lang_define, args |-> [expr |-> 34], frame |-> <<34>>],
  quasiquote |-> [code |-> expand_quasiquote, args |-> [content |-> 11], frame |-> <<>>] ]

Globals == [symbol_table |-> 1, env |-> 6]

\* (f @@ <<>> is f, of which TLC evaluates each value once.)
Programs == <<>> @@ [f \in Running |->
  [code |-> Case[f].code,
   args |-> Case[f].args @@ Globals,
   stack |-> <<1, 6>> \o Case[f].frame,
   heap |-> World]]

-----------------------------------------------------------------------------
(* The facts: what is known on every way to a step.                         *)

Common(F, G) ==
  [live |-> F.live \cap G.live, held |-> F.held \cap G.held,
   direct |-> F.direct \cap G.direct, links |-> F.links \cap G.links,
   apart |-> F.apart \cap G.apart, unset |-> F.unset \cup G.unset,
   depth |-> F.depth, saved |-> F.saved]

\* known has the facts of the steps of p that have been reached so far, and
\* todo those of them that have not been followed since.  (What one round finds
\* is evaluated before the next one, as a member of a set.)
RECURSIVE Flow(_, _, _)
Flow(p, known, todo) ==
  IF todo = {} THEN known
  ELSE LET k == Min(todo)
           ts == Targets(k, p.code[k])
           Followed(out) == <<>> @@
             [t \in DOMAIN known \cup ts |->
                IF t \notin DOMAIN known THEN out
                ELSE IF t \in ts THEN Common(known[t], out)
                ELSE known[t]]
           Changed(next) ==
             {t \in ts \cap DOMAIN p.code : t \in DOMAIN known => next[t] # known[t]}
       IN  CHOOSE facts \in
             {Flow(p, next, (todo \ {k}) \cup Changed(next)) :
                next \in {Followed(out) : out \in {After(known[k], p.code[k])}}} : TRUE

KnownFacts ==
  [f \in Running |->
    CHOOSE facts \in {Flow(p, <<Entry(p)>>, {1}) : p \in {Programs[f]}} : TRUE]

-----------------------------------------------------------------------------
\* The objects that can be reached from those in R.
RECURSIVE Reached(_)
Reached(R) == LET next == R \cup ((UNION {Range(heap[a]) : a \in R}) \cap DOMAIN heap)
              IN  IF next = R THEN R ELSE Reached(next)

RECURSIVE Elements(_)
Elements(list) == IF list = Nil THEN <<>>
                  ELSE <<heap[list][1]>> \o Elements(heap[list][2])

\* The pairs a list is made of.
RECURSIVE Spine(_)
Spine(list) == IF list = Nil THEN {} ELSE {list} \cup Spine(heap[list][2])

\* The keys and values of a hash table, which has no key twice.
Entries(dict) == LET vec == heap[heap[dict][1]]
                     entries == FlattenSeq([i \in DOMAIN vec |-> Elements(vec[i])])
                 IN  [i \in DOMAIN entries |-> heap[entries[i]]]

Bindings(env) == Range(Entries(heap[env][1]))

\* What each function is to have done when it returns.
Expected(f) ==
  LET L(x) == local[x] IN
  CASE f = "environ_wrap" ->
         heap[L("result")][2] = L("outer") /\ Bindings(L("result")) = {}
    [] f = "environ_bind" -> Bindings(6) = {<<L("key"), L("value")>>}
    [] f = "hash_set" ->
         /\ Range(Entries(22)) = {<<17, 9>>, <<18, 10>>, <<29, 13>>}
         /\ Len(Entries(22)) = 3
    [] f = "hash_delete" -> Entries(22) = << <<18, 10>> >>
    [] f = "hash_keys" -> Elements(L("result")) = <<18, 17>>
    [] f = "symbol_intern" -> <<L("result"), Nil>> \in Range(Entries(1))
    [] f = "list_copy" ->
         /\ Elements(L("result")) = <<9, 13, 10>>
         /\ Spine(L("result")) \cap DOMAIN World = {}
    [] f = "list_to_vector" -> heap[L("result")] = <<9, 13, 10>>
    [] f = "vector_to_list" -> Elements(L("result")) = <<9, 10>>
    [] f = "macro" ->
         \* (apply rules (quote (9 13 10)))
         LET form == Elements(stack[Slot(3)]) IN
           /\ form[1] = L("apply") /\ form[2] = 15 /\ Len(form) = 3
           /\ Elements(form[3]) = <<L("quote"), 11>>
    [] f = "lambda_syntax" -> heap[heap[L("result")][1]] = <<6, 16, 19>>
    [] f = "closure" ->
         /\ heap[stack[Slot(1)]][2] = 6
         /\ \E rest \in DOMAIN heap :
              /\ Bindings(stack[Slot(1)]) = {<<17, 11>>, <<18, rest>>}
              /\ Elements(rest) = <<13>>
         /\ Elements(L("result")) = <<5, 10>>
    [] f = "call_ec" -> Elements(stack[Slot(3)]) = <<15, L("cont")>>
    [] f = "define" ->
         \E closure \in DOMAIN heap \ DOMAIN World :
           /\ heap[closure] = <<6, 16, 19>>
           /\ Bindings(6) = {<<29, closure>>}
    [] f = "quasiquote" ->
         /\ Spine(L("result")) \cap DOMAIN World = {}
         /\ Range(Elements(L("result"))) \cap DOMAIN World \subseteq {9, 13, 10}

(* A function returns what it should, and all of it allocated, whichever of *)
(* its allocations had to collect.                                          *)
ResultIntact ==
  pc \notin DOMAIN code /\ ~wild =>
    LET result == {local[x] : x \in {"result"} \cap DOMAIN local}
        reached == Reached((result \cup Range(stack)) \cap DOMAIN heap)
    IN  /\ reached \cap freed = {}
        /\ \A a \in reached : Junk \notin Range(heap[a])
        /\ Expected(fn)
=============================================================================
