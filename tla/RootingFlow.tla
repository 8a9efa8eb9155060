----------------------------- MODULE RootingFlow -----------------------------
(* Which locals are safe to read, where: a data flow analysis of the steps  *)
(* of Rooting.  What is known before each step of each function is a set of *)
(* facts about its locals; Verified says that the facts agree with the      *)
(* steps and that they allow every step, whatever the heap looks like, the  *)
(* lists and tables are as long as they are and the branches go.            *)
EXTENDS Rooting

CONSTANT Known    \* for each function, the facts before each of its steps

\* The facts, about locals x, y, z, fields i and slots d counted from the bottom.
Facts ==
  [ live   : SUBSET STRING,                    \* x is no object that was freed
    held   : SUBSET (STRING \X Nat),           \* <<x, d>>: the slot d reaches x
    direct : SUBSET (STRING \X Nat),           \* <<x, d>>: the slot d holds x
    links  : SUBSET (STRING \X STRING \X Nat), \* <<z, x, i>>: x->i is z
    apart  : SUBSET (STRING \X STRING),        \* <<x, y>>: they are different
    unset  : SUBSET (STRING \X Nat),           \* <<x, i>>: x->i may be unset,
                                               \* and no other field may be
    depth  : Nat,                              \* how many slots there are
    saved  : Seq(Nat) ]

\* The names of what is no object of the heap.
Named == DOMAIN Static

-----------------------------------------------------------------------------
(* What each step does to the facts.                                        *)

\* x is going to be assigned.
Forget(F, x) ==
  [F EXCEPT !.held = {t \in @ : t[1] # x},
            !.direct = {t \in @ : t[1] # x},
            !.links = {t \in @ : t[1] # x /\ t[2] # x},
            !.apart = {t \in @ : t[1] # x /\ t[2] # x}]

HeldNames(F) == {t[1] : t \in F.held}

AfterNew(F, s) ==
  LET G == Forget(F, s.dst) IN
  [G EXCEPT
     !.live = {s.dst} \cup ((Named \cup Range(s.args) \cup HeldNames(F)) \cap F.live),
     !.links = @ \cup {<<s.fields[i], s.dst, i>> :
                         i \in {j \in DOMAIN s.fields : s.fields[j] # s.dst}},
     !.apart = @ \cup {<<s.dst, y>> : y \in F.live \ {s.dst}},
     !.unset = @ \cup {<<s.dst, i>> : i \in {j \in DOMAIN s.fields : s.fields[j] = "junk"}}]

AfterRoot(F, s) ==
  [F EXCEPT !.depth = @ + 1,
            !.direct = @ \cup {<<s.x, F.depth + 1>>},
            !.held = @ \cup {<<s.x, F.depth + 1>>}]

AfterPoke(F, s) ==
  LET d == F.depth + 1 - s.i IN
  [F EXCEPT !.direct = {t \in @ : t[2] # d} \cup {<<s.x, d>>},
            !.held = {t \in @ : t[2] # d} \cup {<<s.x, d>>}]

\* dst becomes another name of what the names in S are names of, and is held
\* where those of H are.
Alias(F, dst, S, H) ==
  LET G == Forget(F, dst) IN
  [G EXCEPT
     !.live = @ \cup {dst},
     !.held = @ \cup {<<dst, t[2]>> : t \in {u \in F.held : u[1] \in S \cup H}},
     !.links = @ \cup {<<t[1], dst, t[3]>> : t \in {u \in G.links : u[2] \in S}},
     !.apart = @ \cup {<<dst, t[2]>> : t \in {u \in G.apart : u[1] \in S}}]

AfterCopy(F, s) == Alias(F, s.dst, {s.x}, {})

AfterGet(F, s) ==
  LET same == {t[1] : t \in {u \in F.links : u[2] = s.x /\ u[3] = s.i}}
      G == Alias(F, s.dst, same, {s.x})
  IN  [G EXCEPT !.links = @ \cup ({<<s.dst, s.x, s.i>>} \ {<<s.dst, s.dst, s.i>>})]

\* Nothing is lost when x->i is assigned: it was no object, or it is a field of
\* the object y that is put in its place.
Keeps(F, s) ==
  \E t \in F.links :
    /\ t[2] = s.x /\ t[3] = s.i
    /\ \/ t[1] \in Named
       \/ \E u \in F.links :
            /\ u[1] = t[1] /\ u[2] = s.y
            /\ u[3] # s.i \/ <<s.x, s.y>> \in F.apart \/ <<s.y, s.x>> \in F.apart

\* What the slots still reach by one field at most, whatever was assigned.
Near(F, links) ==
  F.direct \cup {<<p[1][1], p[2][2]>> :
                   p \in {q \in links \X F.direct : q[1][2] = q[2][1]}}

\* With x, the slot reaches y and its fields.
Joined(H, links, x, y) ==
  H \cup {<<y, t[2]>> : t \in {u \in H : u[1] = x}}
    \cup {<<p[1][1], p[2][2]>> :
            p \in {q \in links \X H : q[1][2] = y /\ q[2][1] = x}}

AfterPut(F, s) ==
  LET left == {t \in F.links : \/ t[3] # s.i
                               \/ <<t[2], s.x>> \in F.apart
                               \/ <<s.x, t[2]>> \in F.apart}
      held == IF Keeps(F, s) THEN F.held
              ELSE Near(F, left) \cup {t \in F.held : t[1] = s.x}
  IN  [F EXCEPT !.links = left \cup {<<s.y, s.x, s.i>>},
                !.held = Joined(held, left, s.x, s.y),
                !.unset = @ \ {<<s.x, s.i>>}]

AfterEnter(F) == [F EXCEPT !.saved = Append(@, F.depth)]

AfterLeave(F) ==
  LET d == Last(F.saved) IN
  [F EXCEPT !.depth = d,
            !.saved = Front(@),
            !.direct = {t \in @ : t[2] <= d},
            !.held = {t \in @ : t[2] <= d}]

After(F, s) ==
  CASE s.do = "new" -> AfterNew(F, s)
    [] s.do = "root" -> AfterRoot(F, s)
    [] s.do = "poke" -> AfterPoke(F, s)
    [] s.do = "copy" -> AfterCopy(F, s)
    [] s.do = "get" -> AfterGet(F, s)
    [] s.do = "put" -> AfterPut(F, s)
    [] s.do = "enter" -> AfterEnter(F)
    [] s.do = "leave" -> AfterLeave(F)
    [] OTHER -> F

-----------------------------------------------------------------------------
(* What each step demands of the facts.                                     *)

\* The locals that may be assigned: not those whose fields are watched.
Assignable(F) == STRING \ (Named \cup {t[1] : t \in F.unset})

Allows(F, s) ==
  /\ Operands(s) \subseteq F.live
  /\ s.do = "new" =>
       /\ Range(s.fields) \subseteq Range(s.args) \cup HeldNames(F) \cup Named
       /\ F.unset = {} \/ s.dst = "target_vec"
       /\ s.dst \in Assignable(F)
  /\ s.do = "root" => s.x # "junk"
  /\ s.do = "poke" => s.x # "junk" /\ s.i \in 1 .. F.depth
  /\ s.do = "copy" => s.x # "junk" /\ s.dst # s.x /\ s.dst \in Assignable(F)
  /\ s.do = "get" => F.unset = {} /\ s.dst \in Assignable(F)
  /\ s.do = "put" => s.y # "junk"
  /\ s.do = "leave" => F.saved # <<>> /\ Last(F.saved) <= F.depth

\* Where the step k of a function, a step s, may lead.
Targets(k, s) ==
  CASE s.do \in {"if", "either"} -> {k + 1, k + 1 + s.over}
    [] s.do = "jump" -> {k + 1 + s.over}
    [] OTHER -> {k + 1}

\* What holds when the function of the program p is called: its arguments have
\* not been freed, and some of them are in slots.
Entry(p) ==
  LET slots == {t \in (DOMAIN p.args) \X (DOMAIN p.stack) : p.args[t[1]] = p.stack[t[2]]}
  IN  [live |-> Named \cup DOMAIN p.args, held |-> slots, direct |-> slots,
       links |-> {}, apart |-> {}, unset |-> {}, depth |-> Len(p.stack), saved |-> <<>>]

\* The facts of F are among those of G.
Weaker(F, G) ==
  /\ F.live \subseteq G.live /\ F.held \subseteq G.held /\ F.direct \subseteq G.direct
  /\ F.links \subseteq G.links /\ F.apart \subseteq G.apart /\ G.unset \subseteq F.unset
  /\ F.depth = G.depth /\ F.saved = G.saved

\* The facts known agree with the steps of the program p, and allow them.
Agree(p, known) ==
  LET n == Len(p.code) IN
  /\ known \in [1 .. n + 1 -> Facts]
  /\ DOMAIN p.args \cap Named = {}
  /\ Weaker(known[1], Entry(p))
  /\ \A k \in 1 .. n :
       /\ Allows(known[k], p.code[k])
       /\ \A t \in Targets(k, p.code[k]) :
            t \in 1 .. n + 1 /\ Weaker(known[t], After(known[k], p.code[k]))

Verified(f) == \E known \in {Known[f]}, p \in {Program[f]} : Agree(p, known)

(* A function that is called is verified: the locals that a step reads are  *)
(* live on each way that leads to it.                                       *)
CallsVerified == pc = 1 => Verified(fn)
=============================================================================
