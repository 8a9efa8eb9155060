---------------------------- MODULE RootingProofs ----------------------------
(* Proofs about Rooting, for every program of steps: if each function that  *)
(* is called is verified, no step reads a local whose object was freed, no  *)
(* slot and no object refers to a freed one, and a visitor is sent to an    *)
(* unassigned field by dict_rehash only.  What is proved is that the data   *)
(* flow analysis is sound: its facts are true of the locals, the slots and  *)
(* the heap, whatever these are and whenever a collection happens.          *)
EXTENDS RootingFlow, SequenceTheorems, TLAPS

-----------------------------------------------------------------------------
(* What the facts mean.                                                     *)

\* No field of an object of S refers to an object outside S.
IsClosed(h, S) ==
  \A a \in S : \A i \in DOMAIN h[a] : h[a][i] \in DOMAIN h => h[a][i] \in S

\* In the heap h, what can be reached from r includes v, if v is an object.
Reaches(h, r, v) ==
  v \in DOMAIN h =>
    \A S \in SUBSET DOMAIN h : (r \in DOMAIN h => r \in S) /\ IsClosed(h, S) => v \in S

LiveTrue(F, loc, fr) ==
  \A x \in F.live : /\ x \in DOMAIN loc /\ loc[x] \notin fr
                    /\ x # "junk" => loc[x] # Junk

HeldTrue(F, loc, st, h) ==
  \A t \in F.held : /\ t[1] \in DOMAIN loc /\ t[2] \in 1 .. Len(st)
                    /\ Reaches(h, st[t[2]], loc[t[1]])

DirectTrue(F, loc, st) ==
  \A t \in F.direct : /\ t[1] \in DOMAIN loc /\ t[2] \in 1 .. Len(st)
                      /\ st[t[2]] = loc[t[1]]

\* The field i of what x refers to is z.
Linked(loc, h, z, x, i) ==
  /\ z \in DOMAIN loc /\ x \in DOMAIN loc
  /\ loc[x] \in DOMAIN h /\ i \in DOMAIN h[loc[x]] /\ h[loc[x]][i] = loc[z]

LinksTrue(F, loc, h) == \A t \in F.links : Linked(loc, h, t[1], t[2], t[3])

ApartTrue(F, loc) ==
  \A t \in F.apart : /\ t[1] \in DOMAIN loc /\ t[2] \in DOMAIN loc
                     /\ loc[t[1]] # loc[t[2]]

UnsetTrue(F, loc, h) ==
  \A a \in DOMAIN h : \A i \in DOMAIN h[a] :
    h[a][i] = Junk =>
      \E t \in F.unset : t[1] \in DOMAIN loc /\ loc[t[1]] = a /\ t[2] = i

AllTrue(F, loc, st, sv, h, fr) ==
  /\ LiveTrue(F, loc, fr) /\ HeldTrue(F, loc, st, h) /\ DirectTrue(F, loc, st)
  /\ LinksTrue(F, loc, h) /\ ApartTrue(F, loc) /\ UnsetTrue(F, loc, h)
  /\ F.depth = Len(st) /\ F.saved = sv

\* Heaps and locals: an address is a number, and nothing else is.
HeapOK(h) ==
  /\ h \in Seq(Seq(Nat \cup Atoms))
  /\ \A a \in DOMAIN h : \A i \in DOMAIN h[a] : h[a][i] \in Value(h)

LocalOK(loc, h) ==
  /\ loc \in [DOMAIN loc -> Value(h)]
  /\ Named \subseteq DOMAIN loc
  /\ \A x \in Named : loc[x] = Static[x]

StackOK(st, h) == st \in Seq(Value(h))

-----------------------------------------------------------------------------
(* The inductive invariant.                                                 *)

TypeOK ==
  /\ fn \in DOMAIN Program
  /\ pc \in 1 .. Len(code) + 1
  /\ HeapOK(heap) /\ LocalOK(local, heap) /\ StackOK(stack, heap)
  /\ saved \in Seq(Nat)
  /\ freed \subseteq DOMAIN heap /\ marked \subseteq DOMAIN heap
  /\ collecting \in BOOLEAN /\ wild \in BOOLEAN

FactsTrue == AllTrue(Known[fn][pc], local, stack, saved, heap, freed)

\* While a constructor collects, its arguments and the slots are marked, and
\* nothing that is marked was freed before.
MarkOK ==
  /\ marked \cap freed = {}
  /\ collecting => /\ pc \in DOMAIN code /\ step.do = "new"
                   /\ Scanned(step.args) \subseteq marked

WildOK == wild => /\ pc \in DOMAIN code /\ step.do = "new"
                  /\ Known[fn][pc].unset # {}

IInv == /\ TypeOK /\ Agree(Program[fn], Known[fn])
        /\ FactsTrue /\ NoDangling /\ MarkOK /\ WildOK

-----------------------------------------------------------------------------
(* Heaps.                                                                   *)

(* An address is no NULL, nil or junk.                                      *)
LEMMA AtomsNoAddress == ASSUME NEW h, HeapOK(h) PROVE Atoms \cap DOMAIN h = {}
BY ProgramAssumption DEF HeapOK

(* What a field refers to can be reached from where its object can.         *)
LEMMA ReachesField ==
  ASSUME NEW h, NEW r, NEW a \in DOMAIN h, Reaches(h, r, a), NEW i \in DOMAIN h[a]
  PROVE  Reaches(h, r, h[a][i])
BY DEF Reaches, IsClosed

(* What a closed set of marked objects holds the roots of, it holds.        *)
LEMMA ReachesMarked ==
  ASSUME NEW h, NEW r, NEW v \in DOMAIN h, Reaches(h, r, v), NEW S \in SUBSET DOMAIN h,
         r \in DOMAIN h => r \in S, IsClosed(h, S)
  PROVE  v \in S
BY DEF Reaches

(* A new object: the heap is as it was, with one more object.               *)
LEMMA AppendHeap ==
  ASSUME NEW h, HeapOK(h), NEW o \in Seq(Value(h))
  PROVE  LET g == Append(h, o)
             n == Len(h) + 1
         IN  /\ HeapOK(g) /\ DOMAIN g = DOMAIN h \cup {n}
             /\ n \in Nat /\ n \notin DOMAIN h /\ n \notin Atoms
             /\ g[n] = o /\ \A a \in DOMAIN h : g[a] = h[a]
             /\ Value(h) \subseteq Value(g)
<1> DEFINE g == Append(h, o)
           n == Len(h) + 1
<1>1. /\ h \in Seq(Seq(Nat \cup Atoms)) /\ Len(h) \in Nat /\ DOMAIN h = 1 .. Len(h)
  BY DEF HeapOK
<1>2. Value(h) \subseteq Nat \cup Atoms
  BY <1>1 DEF Value
<1>3. o \in Seq(Nat \cup Atoms)
  BY <1>2
<1>4. /\ g \in Seq(Seq(Nat \cup Atoms)) /\ Len(g) = n
      /\ g[n] = o /\ \A a \in 1 .. Len(h) : g[a] = h[a]
  BY <1>1, <1>3
<1>5. DOMAIN g = 1 .. n
  BY <1>4
<1>6. DOMAIN g = DOMAIN h \cup {n} /\ n \in Nat /\ n \notin DOMAIN h
  BY <1>1, <1>5
<1>7. n \notin Atoms
  BY <1>6, ProgramAssumption
<1> HIDE DEF g, n
<1>8. Value(h) \subseteq Value(g)
  BY <1>6 DEF Value
<1>9. ASSUME NEW a \in DOMAIN g, NEW i \in DOMAIN g[a] PROVE g[a][i] \in Value(g)
  <2>1. CASE a = n
    <3>1. o[i] \in Value(h)
      BY <1>4, <1>9, <2>1
    <3>2. QED
      BY <1>4, <1>8, <2>1, <3>1
  <2>2. CASE a \in DOMAIN h
    <3>1. g[a] = h[a]
      BY <1>1, <1>4, <2>2
    <3>2. h[a][i] \in Value(h)
      BY <1>9, <2>2, <3>1 DEF HeapOK
    <3>3. QED
      BY <1>8, <3>1, <3>2
  <2>3. QED
    BY <1>6, <2>1, <2>2
<1>10. HeapOK(g)
  BY <1>4, <1>9 DEF HeapOK
<1>11. \A a \in DOMAIN h : g[a] = h[a]
  BY <1>1, <1>4
<1>12. QED
  BY <1>4, <1>6, <1>7, <1>8, <1>10, <1>11 DEF g, n

(* Nothing is lost by it.                                                   *)
LEMMA ReachesAppend ==
  ASSUME NEW h, HeapOK(h), NEW o \in Seq(Value(h)),
         NEW r \in Value(h), NEW v \in Value(h), Reaches(h, r, v)
  PROVE  Reaches(Append(h, o), r, v)
<1> DEFINE g == Append(h, o)
<1>1. /\ \A a \in DOMAIN h : g[a] = h[a]
      /\ DOMAIN h \subseteq DOMAIN g /\ Atoms \cap DOMAIN g = {}
  <2>1. HeapOK(g)
    BY AppendHeap
  <2>2. QED
    BY <2>1, AppendHeap, AtomsNoAddress
<1> HIDE DEF g
<1> SUFFICES ASSUME v \in DOMAIN g,
                    NEW S \in SUBSET DOMAIN g, r \in DOMAIN g => r \in S, IsClosed(g, S)
             PROVE  v \in S
  BY DEF Reaches, g
<1>2. v \in DOMAIN h
  BY <1>1 DEF Value
<1>3. r \in DOMAIN h => r \in S \cap DOMAIN h
  BY <1>1
<1>4. IsClosed(h, S \cap DOMAIN h)
  BY <1>1 DEF IsClosed
<1>5. QED
  BY <1>2, <1>3, <1>4 DEF Reaches

(* An assignment to a field.                                                *)
LEMMA SetFieldHeap ==
  ASSUME NEW h, HeapOK(h), NEW a \in DOMAIN h, NEW i \in DOMAIN h[a], NEW v \in Value(h)
  PROVE  LET g == SetField(h, a, i, v)
         IN  /\ HeapOK(g) /\ DOMAIN g = DOMAIN h /\ Value(g) = Value(h)
             /\ \A b \in DOMAIN h : DOMAIN g[b] = DOMAIN h[b]
             /\ \A b \in DOMAIN h : \A j \in DOMAIN h[b] :
                  g[b][j] = IF b = a /\ j = i THEN v ELSE h[b][j]
<1> DEFINE g == SetField(h, a, i, v)
           o == [h[a] EXCEPT ![i] = v]
<1>1. h \in Seq(Seq(Nat \cup Atoms)) /\ DOMAIN h = 1 .. Len(h) /\ Len(h) \in Nat
  BY DEF HeapOK
<1>2. v \in Nat \cup Atoms
  BY <1>1 DEF Value
<1>3. h[a] \in Seq(Nat \cup Atoms)
  BY <1>1
<1>4. /\ o \in Seq(Nat \cup Atoms) /\ DOMAIN o = DOMAIN h[a]
      /\ \A j \in DOMAIN h[a] : o[j] = IF j = i THEN v ELSE h[a][j]
  BY <1>2, <1>3
<1>5. g = [h EXCEPT ![a] = o]
  BY DEF SetField
<1> HIDE DEF o
<1>6. g \in Seq(Seq(Nat \cup Atoms)) /\ DOMAIN g = DOMAIN h
  BY <1>1, <1>4, <1>5
<1>7. \A b \in DOMAIN h : g[b] = IF b = a THEN o ELSE h[b]
  BY <1>1, <1>5
<1> HIDE DEF g
<1>8. Value(g) = Value(h)
  BY <1>6 DEF Value
<1>9. /\ \A b \in DOMAIN h : DOMAIN g[b] = DOMAIN h[b]
      /\ \A b \in DOMAIN h : \A j \in DOMAIN h[b] :
           g[b][j] = IF b = a /\ j = i THEN v ELSE h[b][j]
  BY <1>4, <1>7
<1>10. HeapOK(g)
  BY <1>6, <1>8, <1>9 DEF HeapOK
<1>11. QED
  BY <1>6, <1>8, <1>9, <1>10 DEF g

(* It loses nothing if the field held no object, or if the object that it   *)
(* refers to now has what it held in another field.                         *)
LEMMA ReachesSetField ==
  ASSUME NEW h, HeapOK(h), NEW a \in DOMAIN h, NEW i \in DOMAIN h[a], NEW v \in Value(h),
         \/ h[a][i] \notin DOMAIN h
         \/ /\ v \in DOMAIN h
            /\ \E j \in DOMAIN h[v] : h[v][j] = h[a][i] /\ (v # a \/ j # i),
         NEW r, NEW w, Reaches(h, r, w)
  PROVE  Reaches(SetField(h, a, i, v), r, w)
<1> DEFINE g == SetField(h, a, i, v)
<1>1. /\ DOMAIN g = DOMAIN h /\ \A b \in DOMAIN h : DOMAIN g[b] = DOMAIN h[b]
      /\ \A b \in DOMAIN h : \A j \in DOMAIN h[b] :
           g[b][j] = IF b = a /\ j = i THEN v ELSE h[b][j]
  BY SetFieldHeap
<1> HIDE DEF g
<1> SUFFICES ASSUME w \in DOMAIN h,
                    NEW S \in SUBSET DOMAIN h, r \in DOMAIN h => r \in S, IsClosed(g, S)
             PROVE  w \in S
  BY <1>1 DEF Reaches, g
<1>2. ASSUME NEW b \in S, NEW j \in DOMAIN h[b], h[b][j] \in DOMAIN h
      PROVE  h[b][j] \in S
  <2>1. CASE b # a \/ j # i
    <3>1. g[b][j] = h[b][j] /\ j \in DOMAIN g[b]
      BY <1>1, <1>2, <2>1
    <3>2. QED
      BY <1>1, <1>2, <3>1 DEF IsClosed
  <2>2. CASE b = a /\ j = i
    <3>1. PICK k \in DOMAIN h[v] : h[v][k] = h[a][i] /\ (v # a \/ k # i)
      BY <1>2, <2>2
    <3>2. v \in DOMAIN h
      BY <1>2, <2>2
    <3>3. g[a][i] = v /\ i \in DOMAIN g[a]
      BY <1>1
    <3>4. v \in S
      BY <1>1, <1>2, <2>2, <3>2, <3>3 DEF IsClosed
    <3>5. g[v][k] = h[a][i] /\ k \in DOMAIN g[v]
      BY <1>1, <3>1, <3>2
    <3>6. QED
      BY <1>1, <1>2, <2>2, <3>4, <3>5 DEF IsClosed
  <2>3. QED
    BY <2>1, <2>2
<1>3. IsClosed(h, S)
  BY <1>2 DEF IsClosed
<1>4. QED
  BY <1>3 DEF Reaches

(* The object itself can be reached as before, whatever is lost.            *)
LEMMA ReachesChanged ==
  ASSUME NEW h, HeapOK(h), NEW a \in DOMAIN h, NEW i \in DOMAIN h[a], NEW v \in Value(h),
         NEW r, Reaches(h, r, a)
  PROVE  Reaches(SetField(h, a, i, v), r, a)
<1> DEFINE g == SetField(h, a, i, v)
<1>1. /\ DOMAIN g = DOMAIN h
      /\ \A b \in DOMAIN h : DOMAIN g[b] = DOMAIN h[b]
      /\ \A b \in DOMAIN h : \A j \in DOMAIN h[b] :
           g[b][j] = IF b = a /\ j = i THEN v ELSE h[b][j]
  BY SetFieldHeap
<1> HIDE DEF g
<1> SUFFICES ASSUME NEW S \in SUBSET DOMAIN h, r \in DOMAIN h => r \in S,
                    IsClosed(g, S), a \notin S
             PROVE  FALSE
  BY <1>1 DEF Reaches, g
<1>2. IsClosed(h, S)
  BY <1>1 DEF IsClosed
<1>3. QED
  BY <1>2 DEF Reaches


-----------------------------------------------------------------------------
(* The facts after a step, one by one.                                      *)

LEMMA ForgetFields ==
  ASSUME NEW F \in Facts, NEW x
  PROVE  LET G == Forget(F, x)
         IN  /\ G \in Facts /\ G.live = F.live
             /\ G.held = {t \in F.held : t[1] # x}
             /\ G.direct = {t \in F.direct : t[1] # x}
             /\ G.links = {t \in F.links : t[1] # x /\ t[2] # x}
             /\ G.apart = {t \in F.apart : t[1] # x /\ t[2] # x}
             /\ G.unset = F.unset /\ G.depth = F.depth /\ G.saved = F.saved
BY DEF Facts, Forget

LEMMA AfterNewFields ==
  ASSUME NEW F \in Facts, NEW s
  PROVE  LET G == Forget(F, s.dst)
             H == AfterNew(F, s)
         IN  /\ H.live = {s.dst} \cup ((Named \cup Range(s.args) \cup HeldNames(F)) \cap F.live)
             /\ H.held = G.held /\ H.direct = G.direct
             /\ H.links = G.links \cup {<<s.fields[i], s.dst, i>> :
                            i \in {j \in DOMAIN s.fields : s.fields[j] # s.dst}}
             /\ H.apart = G.apart \cup {<<s.dst, y>> : y \in F.live \ {s.dst}}
             /\ H.unset = G.unset \cup {<<s.dst, i>> :
                            i \in {j \in DOMAIN s.fields : s.fields[j] = "junk"}}
             /\ H.depth = G.depth /\ H.saved = G.saved
<1>1. Forget(F, s.dst) \in Facts
  BY ForgetFields
<1>2. QED
  BY <1>1 DEF Facts, AfterNew

LEMMA AliasFields ==
  ASSUME NEW F \in Facts, NEW x, NEW S, NEW T
  PROVE  LET G == Forget(F, x)
             H == Alias(F, x, S, T)
         IN  /\ H.live = G.live \cup {x}
             /\ H.held = G.held \cup {<<x, t[2]>> : t \in {u \in F.held : u[1] \in S \cup T}}
             /\ H.direct = G.direct
             /\ H.links = G.links \cup {<<t[1], x, t[3]>> : t \in {u \in G.links : u[2] \in S}}
             /\ H.apart = G.apart \cup {<<x, t[2]>> : t \in {u \in G.apart : u[1] \in S}}
             /\ H.unset = G.unset /\ H.depth = G.depth /\ H.saved = G.saved
<1>1. Forget(F, x) \in Facts
  BY ForgetFields
<1>2. QED
  BY <1>1 DEF Facts, Alias

-----------------------------------------------------------------------------
(* Assigning a local.                                                       *)

(* It keeps the types: a name of no object is not assigned.                 *)
LEMMA AssignedOK ==
  ASSUME NEW h, NEW g, Value(h) \subseteq Value(g), NEW loc, LocalOK(loc, h),
         NEW x \in STRING \ Named, NEW v \in Value(g)
  PROVE  LocalOK(Assigned(loc, x, v), g)
<1> DEFINE m == Assigned(loc, x, v)
<1>1. /\ DOMAIN m = DOMAIN loc \cup {x} /\ m[x] = v
      /\ \A y \in DOMAIN loc : y # x => m[y] = loc[y]
      /\ (\A y \in DOMAIN loc \cup {x} : m[y] \in Value(g))
           => m \in [DOMAIN loc \cup {x} -> Value(g)]
  BY DEF Assigned
<1> HIDE DEF m
<1>2. \A y \in DOMAIN m : m[y] \in Value(g)
  BY <1>1 DEF LocalOK
<1>3. m \in [DOMAIN m -> Value(g)]
  BY <1>1, <1>2
<1>4. QED
  BY <1>1, <1>3 DEF LocalOK, m

(* The facts that do not mention x are as true as they were.                *)
LEMMA ForgetTrue ==
  ASSUME NEW F \in Facts, NEW x, NEW loc, NEW v, NEW st, NEW h,
         HeldTrue(F, loc, st, h), DirectTrue(F, loc, st),
         LinksTrue(F, loc, h), ApartTrue(F, loc)
  PROVE  LET G == Forget(F, x)
             m == Assigned(loc, x, v)
         IN  /\ HeldTrue(G, m, st, h) /\ DirectTrue(G, m, st)
             /\ LinksTrue(G, m, h) /\ ApartTrue(G, m)
<1> DEFINE G == Forget(F, x)
           m == Assigned(loc, x, v)
<1>1. /\ DOMAIN loc \subseteq DOMAIN m
      /\ \A y \in DOMAIN loc : y # x => m[y] = loc[y]
  BY DEF Assigned
<1>2. /\ G.held = {t \in F.held : t[1] # x}
      /\ G.direct = {t \in F.direct : t[1] # x}
      /\ G.links = {t \in F.links : t[1] # x /\ t[2] # x}
      /\ G.apart = {t \in F.apart : t[1] # x /\ t[2] # x}
  BY ForgetFields
<1> HIDE DEF G, m
<1>3. HeldTrue(G, m, st, h)
  BY <1>1, <1>2 DEF HeldTrue
<1>4. DirectTrue(G, m, st)
  BY <1>1, <1>2 DEF DirectTrue
<1>5. LinksTrue(G, m, h)
  BY <1>1, <1>2 DEF LinksTrue, Linked
<1>6. ApartTrue(G, m)
  BY <1>1, <1>2 DEF ApartTrue
<1>7. QED
  BY <1>3, <1>4, <1>5, <1>6 DEF G, m

-----------------------------------------------------------------------------
(* A new object.                                                            *)

(* The facts are as true in a heap that has one more object.                *)
LEMMA AppendTrue ==
  ASSUME NEW F \in Facts, NEW loc, NEW st, NEW h, HeapOK(h), LocalOK(loc, h), StackOK(st, h),
         NEW o \in Seq(Value(h)), HeldTrue(F, loc, st, h), LinksTrue(F, loc, h)
  PROVE  HeldTrue(F, loc, st, Append(h, o)) /\ LinksTrue(F, loc, Append(h, o))
<1> DEFINE g == Append(h, o)
<1>1. DOMAIN h \subseteq DOMAIN g /\ \A a \in DOMAIN h : g[a] = h[a]
  BY AppendHeap
<1>2. ASSUME NEW r \in Value(h), NEW v \in Value(h), Reaches(h, r, v)
      PROVE  Reaches(g, r, v)
  BY <1>2, ReachesAppend
<1> HIDE DEF g
<1>3. \A d \in 1 .. Len(st) : st[d] \in Value(h)
  BY DEF StackOK
<1>4. \A x \in DOMAIN loc : loc[x] \in Value(h)
  BY DEF LocalOK
<1>5. HeldTrue(F, loc, st, g)
  BY <1>2, <1>3, <1>4 DEF HeldTrue
<1>6. LinksTrue(F, loc, g)
  BY <1>1 DEF LinksTrue, Linked
<1>7. QED
  BY <1>5, <1>6 DEF g

(* What is known after an allocation is true, whatever was freed by it, as  *)
(* long as this is none of what is said to be live.                         *)
LEMMA NewTrue ==
  ASSUME NEW F \in Facts, NEW s, s.fields \in Seq(STRING), s.dst \in Assignable(F),
         Range(s.fields) \subseteq F.live,
         NEW loc, NEW st, NEW sv, NEW h, NEW fr,
         HeapOK(h), LocalOK(loc, h), StackOK(st, h), AllTrue(F, loc, st, sv, h, fr),
         NEW now, Len(h) + 1 \notin now,
         \A x \in AfterNew(F, s).live : x # s.dst => loc[x] \notin now
  PROVE  LET o == [i \in DOMAIN s.fields |-> loc[s.fields[i]]]
             g == Append(h, o)
             m == Assigned(loc, s.dst, Len(h) + 1)
         IN  o \in Seq(Value(h)) /\ AllTrue(AfterNew(F, s), m, st, sv, g, now)
<1> DEFINE x == s.dst
           n == Len(h) + 1
           o == [i \in DOMAIN s.fields |-> loc[s.fields[i]]]
           g == Append(h, o)
           m == Assigned(loc, x, n)
           G == Forget(F, x)
           H == AfterNew(F, s)
<1>1. /\ \A i \in DOMAIN s.fields : s.fields[i] \in F.live
      /\ DOMAIN s.fields = 1 .. Len(s.fields) /\ Len(s.fields) \in Nat
  BY DEF Range
<1>2. \A y \in F.live : y \in DOMAIN loc /\ loc[y] \in Value(h)
  BY DEF AllTrue, LiveTrue, LocalOK
<1>3. o \in Seq(Value(h))
  BY <1>1, <1>2
<1>4. /\ \A i \in DOMAIN s.fields : i \in DOMAIN o /\ o[i] = loc[s.fields[i]]
      /\ DOMAIN o = DOMAIN s.fields
  OBVIOUS
<1> HIDE DEF o
<1>5. /\ DOMAIN g = DOMAIN h \cup {n} /\ n \notin DOMAIN h /\ n \notin Atoms
      /\ g[n] = o /\ \A a \in DOMAIN h : g[a] = h[a]
  BY <1>3, AppendHeap
<1>6. HeldTrue(F, loc, st, g) /\ LinksTrue(F, loc, g)
  BY <1>3, AppendTrue DEF AllTrue
<1>7. /\ HeldTrue(G, m, st, g) /\ DirectTrue(G, m, st)
      /\ LinksTrue(G, m, g) /\ ApartTrue(G, m)
  BY <1>6, ForgetTrue DEF AllTrue
<1>8. /\ DOMAIN m = DOMAIN loc \cup {x} /\ m[x] = n
      /\ \A y \in DOMAIN loc : y # x => m[y] = loc[y]
  BY DEF Assigned
<1>9a. /\ H.live = {x} \cup ((Named \cup Range(s.args) \cup HeldNames(F)) \cap F.live)
       /\ H.held = G.held /\ H.direct = G.direct
       /\ H.links = G.links \cup {<<s.fields[i], x, i>> :
                      i \in {j \in DOMAIN s.fields : s.fields[j] # x}}
       /\ H.apart = G.apart \cup {<<x, y>> : y \in F.live \ {x}}
       /\ H.unset = G.unset \cup {<<x, i>> :
                      i \in {j \in DOMAIN s.fields : s.fields[j] = "junk"}}
       /\ H.depth = G.depth /\ H.saved = G.saved
  BY AfterNewFields
<1>9b. G.unset = F.unset /\ G.depth = F.depth /\ G.saved = F.saved
  BY ForgetFields
<1>10. /\ LiveTrue(F, loc, fr) /\ UnsetTrue(F, loc, h)
       /\ F.depth = Len(st) /\ F.saved = sv
  BY DEF AllTrue
<1>11. x \notin {t[1] : t \in F.unset} /\ x \notin Named
  BY DEF Assignable
<1>12. n \notin now /\ \A y \in H.live : y # x => loc[y] \notin now
  OBVIOUS
<1> HIDE DEF g, m, G, H, n, x
<1>13. LiveTrue(H, m, now)
  BY <1>5, <1>8, <1>9a, <1>9b, <1>10, <1>12 DEF LiveTrue, Atoms
<1>14. HeldTrue(H, m, st, g) /\ DirectTrue(H, m, st)
  BY <1>7, <1>9a, <1>9b DEF HeldTrue, DirectTrue
<1>15. LinksTrue(H, m, g)
  <2>1. ASSUME NEW i \in DOMAIN s.fields, s.fields[i] # x
        PROVE  Linked(m, g, s.fields[i], x, i)
    BY <1>1, <1>2, <1>4, <1>5, <1>8, <2>1 DEF Linked
  <2>2. QED
    BY <1>7, <1>9a, <1>9b, <2>1 DEF LinksTrue
<1>16. ApartTrue(H, m)
  <2>1. ASSUME NEW y \in F.live, y # x
        PROVE  y \in DOMAIN m /\ m[y] # m[x]
    BY <1>2, <1>5, <1>8, <2>1 DEF Value
  <2>2. QED
    BY <1>7, <1>8, <1>9a, <1>9b, <2>1 DEF ApartTrue
<1>17. UnsetTrue(H, m, g)
  <2> SUFFICES ASSUME NEW a \in DOMAIN g, NEW i \in DOMAIN g[a], g[a][i] = Junk
               PROVE  \E t \in H.unset : t[1] \in DOMAIN m /\ m[t[1]] = a /\ t[2] = i
    BY DEF UnsetTrue
  <2>1. CASE a = n
    <3>1. i \in DOMAIN s.fields /\ loc[s.fields[i]] = Junk
      BY <1>4, <1>5, <2>1
    <3>2. s.fields[i] = "junk"
      BY <1>1, <1>10, <3>1 DEF LiveTrue
    <3>3. <<x, i>> \in H.unset
      BY <1>9a, <1>9b, <3>1, <3>2
    <3>4. QED
      BY <1>8, <2>1, <3>3
  <2>2. CASE a \in DOMAIN h
    <3>1. PICK t \in F.unset : t[1] \in DOMAIN loc /\ loc[t[1]] = a /\ t[2] = i
      BY <1>5, <1>10, <2>2 DEF UnsetTrue
    <3>2. t[1] # x
      BY <1>11
    <3>3. QED
      BY <1>8, <1>9a, <1>9b, <3>1, <3>2
  <2>3. QED
    BY <1>5, <2>1, <2>2
<1>18. AllTrue(H, m, st, sv, g, now)
  BY <1>9a, <1>9b, <1>10, <1>13, <1>14, <1>15, <1>16, <1>17 DEF AllTrue
<1>19. QED
  BY <1>3, <1>18 DEF H, m, g, o, n, x

-----------------------------------------------------------------------------
(* Slots.                                                                   *)

(* What is known after SGC_ROOT1 is true.                                   *)
LEMMA RootTrue ==
  ASSUME NEW F \in Facts, NEW s, s.x \in F.live,
         NEW loc, NEW st, NEW sv, NEW h, NEW fr,
         LocalOK(loc, h), StackOK(st, h), AllTrue(F, loc, st, sv, h, fr)
  PROVE  AllTrue(AfterRoot(F, s), loc, Append(st, loc[s.x]), sv, h, fr)
<1> DEFINE H == AfterRoot(F, s)
           v == loc[s.x]
           now == Append(st, v)
<1>1. /\ LiveTrue(F, loc, fr) /\ HeldTrue(F, loc, st, h) /\ DirectTrue(F, loc, st)
      /\ LinksTrue(F, loc, h) /\ ApartTrue(F, loc) /\ UnsetTrue(F, loc, h)
      /\ F.depth = Len(st) /\ F.saved = sv
  BY DEF AllTrue
<1>2. s.x \in DOMAIN loc /\ v \in Value(h)
  BY <1>1 DEF LiveTrue, LocalOK
<1>3. /\ Len(st) \in Nat /\ Len(now) = Len(st) + 1 /\ now[Len(st) + 1] = v
      /\ \A d \in 1 .. Len(st) : now[d] = st[d]
  BY <1>2 DEF StackOK
<1>4. /\ H.live = F.live /\ H.links = F.links /\ H.apart = F.apart /\ H.unset = F.unset
      /\ H.direct = F.direct \cup {<<s.x, F.depth + 1>>}
      /\ H.held = F.held \cup {<<s.x, F.depth + 1>>}
      /\ H.depth = F.depth + 1 /\ H.saved = F.saved
  BY DEF Facts, AfterRoot
<1> HIDE DEF H, now
<1>5. HeldTrue(H, loc, now, h)
  <2>1. \A t \in F.held : /\ t[1] \in DOMAIN loc /\ t[2] \in 1 .. Len(now)
                          /\ Reaches(h, now[t[2]], loc[t[1]])
    BY <1>1, <1>3 DEF HeldTrue
  <2>2. Reaches(h, now[Len(st) + 1], loc[s.x])
    BY <1>3 DEF Reaches
  <2>3. QED
    BY <1>1, <1>2, <1>3, <1>4, <2>1, <2>2 DEF HeldTrue
<1>6. DirectTrue(H, loc, now)
  <2>1. \A t \in F.direct : /\ t[1] \in DOMAIN loc /\ t[2] \in 1 .. Len(now)
                            /\ now[t[2]] = loc[t[1]]
    BY <1>1, <1>3 DEF DirectTrue
  <2>2. QED
    BY <1>1, <1>2, <1>3, <1>4, <2>1 DEF DirectTrue
<1>7. /\ LiveTrue(H, loc, fr) /\ LinksTrue(H, loc, h)
      /\ ApartTrue(H, loc) /\ UnsetTrue(H, loc, h)
  BY <1>1, <1>4 DEF LiveTrue, LinksTrue, ApartTrue, UnsetTrue
<1>8. AllTrue(H, loc, now, sv, h, fr)
  BY <1>1, <1>3, <1>4, <1>5, <1>6, <1>7 DEF AllTrue
<1>9. QED
  BY <1>8 DEF H, now

(* What is known after an assignment to a slot is true.                     *)
LEMMA PokeTrue ==
  ASSUME NEW F \in Facts, NEW s, s.x \in F.live, s.i \in 1 .. F.depth,
         NEW loc, NEW st, NEW sv, NEW h, NEW fr,
         LocalOK(loc, h), StackOK(st, h), AllTrue(F, loc, st, sv, h, fr)
  PROVE  AllTrue(AfterPoke(F, s), loc, [st EXCEPT ![Len(st) + 1 - s.i] = loc[s.x]], sv, h, fr)
<1> DEFINE H == AfterPoke(F, s)
           v == loc[s.x]
           d == Len(st) + 1 - s.i
           now == [st EXCEPT ![d] = v]
<1>1. /\ LiveTrue(F, loc, fr) /\ HeldTrue(F, loc, st, h) /\ DirectTrue(F, loc, st)
      /\ LinksTrue(F, loc, h) /\ ApartTrue(F, loc) /\ UnsetTrue(F, loc, h)
      /\ F.depth = Len(st) /\ F.saved = sv
  BY DEF AllTrue
<1>2. s.x \in DOMAIN loc /\ v \in Value(h)
  BY <1>1 DEF LiveTrue, LocalOK
<1>3. /\ d \in 1 .. Len(st) /\ Len(now) = Len(st) /\ now[d] = v
      /\ \A e \in 1 .. Len(st) : e # d => now[e] = st[e]
  BY <1>1, <1>2 DEF StackOK
<1>4. /\ H.live = F.live /\ H.links = F.links /\ H.apart = F.apart /\ H.unset = F.unset
      /\ H.direct = {t \in F.direct : t[2] # d} \cup {<<s.x, d>>}
      /\ H.held = {t \in F.held : t[2] # d} \cup {<<s.x, d>>}
      /\ H.depth = F.depth /\ H.saved = F.saved
  BY <1>1 DEF Facts, AfterPoke
<1> HIDE DEF H, now, d
<1>5. HeldTrue(H, loc, now, h)
  <2>1. \A t \in F.held : t[2] # d => /\ t[1] \in DOMAIN loc /\ t[2] \in 1 .. Len(now)
                                      /\ Reaches(h, now[t[2]], loc[t[1]])
    BY <1>1, <1>3 DEF HeldTrue
  <2>2. Reaches(h, now[d], loc[s.x])
    BY <1>3 DEF Reaches
  <2>3. QED
    BY <1>2, <1>3, <1>4, <2>1, <2>2 DEF HeldTrue
<1>6. DirectTrue(H, loc, now)
  <2>1. \A t \in F.direct : t[2] # d => /\ t[1] \in DOMAIN loc /\ t[2] \in 1 .. Len(now)
                                        /\ now[t[2]] = loc[t[1]]
    BY <1>1, <1>3 DEF DirectTrue
  <2>2. QED
    BY <1>2, <1>3, <1>4, <2>1 DEF DirectTrue
<1>7. /\ LiveTrue(H, loc, fr) /\ LinksTrue(H, loc, h)
      /\ ApartTrue(H, loc) /\ UnsetTrue(H, loc, h)
  BY <1>1, <1>4 DEF LiveTrue, LinksTrue, ApartTrue, UnsetTrue
<1>8. AllTrue(H, loc, now, sv, h, fr)
  BY <1>1, <1>3, <1>4, <1>5, <1>6, <1>7 DEF AllTrue
<1>9. QED
  BY <1>8 DEF H, now, d

-----------------------------------------------------------------------------
(* Another name.                                                            *)

(* What is known of a local that is assigned v is true, if the names of S   *)
(* are names of v, and v can be reached from where those of T are held.     *)
LEMMA AliasTrue ==
  ASSUME NEW F \in Facts, NEW x \in Assignable(F), NEW S, NEW T,
         NEW loc, NEW st, NEW sv, NEW h, NEW fr, AllTrue(F, loc, st, sv, h, fr),
         NEW v, v # Junk, v \notin fr,
         \A y \in S : y \in DOMAIN loc => loc[y] = v,
         \A t \in F.held : t[1] \in T => Reaches(h, st[t[2]], v)
  PROVE  AllTrue(Alias(F, x, S, T), Assigned(loc, x, v), st, sv, h, fr)
<1> DEFINE G == Forget(F, x)
           H == Alias(F, x, S, T)
           m == Assigned(loc, x, v)
<1>1. /\ LiveTrue(F, loc, fr) /\ HeldTrue(F, loc, st, h) /\ DirectTrue(F, loc, st)
      /\ LinksTrue(F, loc, h) /\ ApartTrue(F, loc) /\ UnsetTrue(F, loc, h)
      /\ F.depth = Len(st) /\ F.saved = sv
  BY DEF AllTrue
<1>2. /\ HeldTrue(G, m, st, h) /\ DirectTrue(G, m, st)
      /\ LinksTrue(G, m, h) /\ ApartTrue(G, m)
  BY <1>1, ForgetTrue
<1>3. /\ H.live = G.live \cup {x}
      /\ H.held = G.held \cup {<<x, t[2]>> : t \in {u \in F.held : u[1] \in S \cup T}}
      /\ H.direct = G.direct
      /\ H.links = G.links \cup {<<t[1], x, t[3]>> : t \in {u \in G.links : u[2] \in S}}
      /\ H.apart = G.apart \cup {<<x, t[2]>> : t \in {u \in G.apart : u[1] \in S}}
      /\ H.unset = G.unset /\ H.depth = G.depth /\ H.saved = G.saved
  BY AliasFields
<1>4. /\ G.live = F.live /\ G.unset = F.unset /\ G.depth = F.depth /\ G.saved = F.saved
      /\ G.links = {t \in F.links : t[1] # x /\ t[2] # x}
      /\ G.apart = {t \in F.apart : t[1] # x /\ t[2] # x}
  BY ForgetFields
<1>5. /\ DOMAIN m = DOMAIN loc \cup {x} /\ m[x] = v
      /\ \A y \in DOMAIN loc : y # x => m[y] = loc[y]
  BY DEF Assigned
<1>6. x \notin {t[1] : t \in F.unset}
  BY DEF Assignable
<1> HIDE DEF G, H, m
<1>7. LiveTrue(H, m, fr)
  BY <1>1, <1>3, <1>4, <1>5 DEF LiveTrue
<1>8. HeldTrue(H, m, st, h)
  <2>1. ASSUME NEW t \in F.held, t[1] \in S \cup T
        PROVE  x \in DOMAIN m /\ t[2] \in 1 .. Len(st) /\ Reaches(h, st[t[2]], m[x])
    BY <1>1, <1>5, <2>1 DEF HeldTrue
  <2>2. QED
    BY <1>2, <1>3, <2>1 DEF HeldTrue
<1>9. LinksTrue(H, m, h)
  <2>1. ASSUME NEW t \in G.links, t[2] \in S
        PROVE  Linked(m, h, t[1], x, t[3])
    <3>1. Linked(loc, h, t[1], t[2], t[3]) /\ t[1] # x
      BY <1>1, <1>4 DEF LinksTrue
    <3>2. QED
      BY <1>5, <2>1, <3>1 DEF Linked
  <2>2. QED
    BY <1>2, <1>3, <2>1 DEF LinksTrue
<1>10. ApartTrue(H, m)
  <2>1. ASSUME NEW t \in G.apart, t[1] \in S
        PROVE  t[2] \in DOMAIN m /\ m[x] # m[t[2]]
    BY <1>1, <1>4, <1>5, <2>1 DEF ApartTrue
  <2>2. QED
    BY <1>2, <1>3, <1>5, <2>1 DEF ApartTrue
<1>11. UnsetTrue(H, m, h)
  BY <1>1, <1>3, <1>4, <1>5, <1>6 DEF UnsetTrue
<1>12. AllTrue(H, m, st, sv, h, fr)
  BY <1>1, <1>2, <1>3, <1>4, <1>7, <1>8, <1>9, <1>10, <1>11 DEF AllTrue, DirectTrue
<1>13. QED
  BY <1>12 DEF H, m

(* What is known after dst = x is true.                                     *)
LEMMA CopyTrue ==
  ASSUME NEW F \in Facts, NEW s, s.dst \in Assignable(F), s.x \in F.live, s.x # "junk",
         NEW loc, NEW st, NEW sv, NEW h, NEW fr, AllTrue(F, loc, st, sv, h, fr)
  PROVE  AllTrue(AfterCopy(F, s), Assigned(loc, s.dst, loc[s.x]), st, sv, h, fr)
<1>1. loc[s.x] # Junk /\ loc[s.x] \notin fr
  BY DEF AllTrue, LiveTrue
<1>2. QED
  BY <1>1, AliasTrue DEF AfterCopy

(* What is known after dst = x->field is true, if no field is unset and x   *)
(* refers to nothing that was freed.                                        *)
LEMMA GetTrue ==
  ASSUME NEW F \in Facts, NEW s, s.dst \in Assignable(F), F.unset = {},
         NEW loc, NEW st, NEW sv, NEW h, NEW fr, AllTrue(F, loc, st, sv, h, fr),
         s.x \in DOMAIN loc, loc[s.x] \in DOMAIN h, s.i \in DOMAIN h[loc[s.x]],
         h[loc[s.x]][s.i] \notin fr
  PROVE  AllTrue(AfterGet(F, s), Assigned(loc, s.dst, h[loc[s.x]][s.i]), st, sv, h, fr)
<1> DEFINE x == s.dst
           v == h[loc[s.x]][s.i]
           S == {t[1] : t \in {u \in F.links : u[2] = s.x /\ u[3] = s.i}}
           G == Alias(F, x, S, {s.x})
           H == AfterGet(F, s)
           m == Assigned(loc, x, v)
<1>1. v # Junk
  BY DEF AllTrue, UnsetTrue
<1>2. \A y \in S : loc[y] = v
  BY DEF AllTrue, LinksTrue, Linked
<1>3. \A t \in F.held : t[1] \in {s.x} => Reaches(h, st[t[2]], v)
  BY ReachesField DEF AllTrue, HeldTrue
<1>4. AllTrue(G, m, st, sv, h, fr)
  BY <1>1, <1>2, <1>3, AliasTrue
<1>5. /\ H.live = G.live /\ H.held = G.held /\ H.direct = G.direct
      /\ H.links = G.links \cup ({<<x, s.x, s.i>>} \ {<<x, x, s.i>>})
      /\ H.apart = G.apart /\ H.unset = G.unset
      /\ H.depth = G.depth /\ H.saved = G.saved
  <2>1. Forget(F, x) \in Facts
    BY ForgetFields
  <2>2. QED
    BY <2>1 DEF Facts, Alias, AfterGet
<1>6. m[x] = v /\ x \in DOMAIN m /\ (s.x # x => s.x \in DOMAIN m /\ m[s.x] = loc[s.x])
  BY DEF Assigned
<1> HIDE DEF G, H, m
<1>7. LinksTrue(H, m, h)
  <2>1. s.x # x => Linked(m, h, x, s.x, s.i)
    BY <1>6 DEF Linked
  <2>2. LinksTrue(G, m, h)
    BY <1>4 DEF AllTrue
  <2>3. QED
    BY <1>5, <2>1, <2>2 DEF LinksTrue
<1>8. AllTrue(H, m, st, sv, h, fr)
  BY <1>4, <1>5, <1>7
     DEF AllTrue, LiveTrue, HeldTrue, DirectTrue, ApartTrue, UnsetTrue
<1>9. QED
  BY <1>8 DEF H, m

-----------------------------------------------------------------------------
(* An assignment to a field.                                                *)

AllHeld(H, loc, st, h) ==
  \A t \in H : /\ t[1] \in DOMAIN loc /\ t[2] \in 1 .. Len(st)
               /\ Reaches(h, st[t[2]], loc[t[1]])

AllLinked(L, loc, h) == \A t \in L : Linked(loc, h, t[1], t[2], t[3])

(* A slot reaches what it holds and what the fields of that are.            *)
LEMMA NearTrue ==
  ASSUME NEW F, NEW L, NEW loc, NEW st, NEW h, DirectTrue(F, loc, st), AllLinked(L, loc, h)
  PROVE  AllHeld(Near(F, L), loc, st, h)
<1>1. ASSUME NEW t \in F.direct
      PROVE  /\ t[1] \in DOMAIN loc /\ t[2] \in 1 .. Len(st)
             /\ Reaches(h, st[t[2]], loc[t[1]])
  BY DEF DirectTrue, Reaches
<1>2. ASSUME NEW q \in L, NEW t \in F.direct, q[2] = t[1]
      PROVE  /\ q[1] \in DOMAIN loc /\ t[2] \in 1 .. Len(st)
             /\ Reaches(h, st[t[2]], loc[q[1]])
  <2>1. Linked(loc, h, q[1], q[2], q[3])
    BY DEF AllLinked
  <2>2. Reaches(h, st[t[2]], loc[q[2]])
    BY <1>1, <1>2
  <2>3. QED
    BY <1>1, <1>2, <2>1, <2>2, ReachesField DEF Linked
<1>3. QED
  <2> SUFFICES ASSUME NEW u \in Near(F, L)
               PROVE  /\ u[1] \in DOMAIN loc /\ u[2] \in 1 .. Len(st)
                      /\ Reaches(h, st[u[2]], loc[u[1]])
    BY DEF AllHeld
  <2>1. CASE u \in F.direct
    BY <1>1, <2>1
  <2>2. CASE \E p \in L \X F.direct : p[1][2] = p[2][1] /\ u = <<p[1][1], p[2][2]>>
    <3>1. PICK p \in L \X F.direct : p[1][2] = p[2][1] /\ u = <<p[1][1], p[2][2]>>
      BY <2>2
    <3>2. p[1] \in L /\ p[2] \in F.direct
      OBVIOUS
    <3>3. QED
      BY <1>2, <3>1, <3>2
  <2>3. QED
    BY <2>1, <2>2 DEF Near

(* A slot that reaches x reaches its field y, and the fields of y.          *)
LEMMA JoinedTrue ==
  ASSUME NEW K, NEW L, NEW loc, NEW st, NEW h, NEW x, NEW y, NEW i,
         AllHeld(K, loc, st, h), AllLinked(L, loc, h), Linked(loc, h, y, x, i)
  PROVE  AllHeld(Joined(K, L, x, y), loc, st, h)
<1>1. ASSUME NEW t \in K, t[1] = x
      PROVE  /\ y \in DOMAIN loc /\ t[2] \in 1 .. Len(st)
             /\ Reaches(h, st[t[2]], loc[y])
  <2>1. Reaches(h, st[t[2]], loc[x]) /\ t[2] \in 1 .. Len(st)
    BY <1>1 DEF AllHeld
  <2>2. QED
    BY <2>1, ReachesField DEF Linked
<1>2. ASSUME NEW q \in L, NEW t \in K, q[2] = y, t[1] = x
      PROVE  /\ q[1] \in DOMAIN loc /\ t[2] \in 1 .. Len(st)
             /\ Reaches(h, st[t[2]], loc[q[1]])
  <2>1. Linked(loc, h, q[1], y, q[3])
    BY <1>2 DEF AllLinked
  <2>2. Reaches(h, st[t[2]], loc[y]) /\ t[2] \in 1 .. Len(st)
    BY <1>1, <1>2
  <2>3. QED
    BY <2>1, <2>2, ReachesField DEF Linked
<1>3. QED
  <2> SUFFICES ASSUME NEW u \in Joined(K, L, x, y)
               PROVE  /\ u[1] \in DOMAIN loc /\ u[2] \in 1 .. Len(st)
                      /\ Reaches(h, st[u[2]], loc[u[1]])
    BY DEF AllHeld
  <2>1. CASE u \in K
    BY <2>1 DEF AllHeld
  <2>2. CASE \E t \in K : t[1] = x /\ u = <<y, t[2]>>
    BY <1>1, <2>2
  <2>3. CASE \E p \in L \X K : p[1][2] = y /\ p[2][1] = x /\ u = <<p[1][1], p[2][2]>>
    <3>1. PICK p \in L \X K : p[1][2] = y /\ p[2][1] = x /\ u = <<p[1][1], p[2][2]>>
      BY <2>3
    <3>2. p[1] \in L /\ p[2] \in K
      OBVIOUS
    <3>3. QED
      BY <1>2, <3>1, <3>2
  <2>4. QED
    BY <2>1, <2>2, <2>3 DEF Joined

(* What is known after x->field = y is true.                                *)
LEMMA PutTrue ==
  ASSUME NEW F \in Facts, NEW s, s.y \in F.live, s.y # "junk",
         NEW loc, NEW st, NEW sv, NEW h, NEW fr,
         HeapOK(h), LocalOK(loc, h), AllTrue(F, loc, st, sv, h, fr),
         s.x \in DOMAIN loc, loc[s.x] \in DOMAIN h, s.i \in DOMAIN h[loc[s.x]]
  PROVE  AllTrue(AfterPut(F, s), loc, st, sv, SetField(h, loc[s.x], s.i, loc[s.y]), fr)
<1> DEFINE a == loc[s.x]
           i == s.i
           v == loc[s.y]
           g == SetField(h, a, i, v)
           left == {t \in F.links : \/ t[3] # i
                                    \/ <<t[2], s.x>> \in F.apart
                                    \/ <<s.x, t[2]>> \in F.apart}
           held == IF Keeps(F, s) THEN F.held
                   ELSE Near(F, left) \cup {t \in F.held : t[1] = s.x}
           H == AfterPut(F, s)
<1>1. /\ LiveTrue(F, loc, fr) /\ HeldTrue(F, loc, st, h) /\ DirectTrue(F, loc, st)
      /\ LinksTrue(F, loc, h) /\ ApartTrue(F, loc) /\ UnsetTrue(F, loc, h)
      /\ F.depth = Len(st) /\ F.saved = sv
  BY DEF AllTrue
<1>2. s.y \in DOMAIN loc /\ v \in Value(h) /\ v # Junk
  BY <1>1 DEF LiveTrue, LocalOK
<1>3. /\ HeapOK(g) /\ DOMAIN g = DOMAIN h
      /\ \A b \in DOMAIN h : DOMAIN g[b] = DOMAIN h[b]
      /\ \A b \in DOMAIN h : \A j \in DOMAIN h[b] :
           g[b][j] = IF b = a /\ j = i THEN v ELSE h[b][j]
  BY <1>2, SetFieldHeap
<1>4. /\ H.live = F.live /\ H.direct = F.direct /\ H.apart = F.apart
      /\ H.links = left \cup {<<s.y, s.x, i>>}
      /\ H.held = Joined(held, left, s.x, s.y)
      /\ H.unset = F.unset \ {<<s.x, i>>}
      /\ H.depth = F.depth /\ H.saved = F.saved
  BY DEF Facts, AfterPut
<1>5. AllHeld(F.held, loc, st, h) /\ AllLinked(F.links, loc, h)
  BY <1>1 DEF HeldTrue, LinksTrue, AllHeld, AllLinked
<1> HIDE DEF g, H
<1>6. Linked(loc, g, s.y, s.x, i)
  BY <1>2, <1>3 DEF Linked
<1>7. AllLinked(left, loc, g)
  <2> SUFFICES ASSUME NEW t \in left
               PROVE  Linked(loc, g, t[1], t[2], t[3])
    BY DEF AllLinked
  <2>1. Linked(loc, h, t[1], t[2], t[3])
    BY <1>5 DEF AllLinked
  <2>2. t[3] # i \/ loc[t[2]] # a
    BY <1>1 DEF ApartTrue
  <2>3. QED
    BY <1>3, <2>1, <2>2 DEF Linked
<1>8. AllHeld(held, loc, st, g)
  <2>1. CASE Keeps(F, s)
    <3>1. \/ h[a][i] \notin DOMAIN h
          \/ /\ v \in DOMAIN h
             /\ \E j \in DOMAIN h[v] : h[v][j] = h[a][i] /\ (v # a \/ j # i)
      <4>1. PICK t \in F.links :
              /\ t[2] = s.x /\ t[3] = i
              /\ \/ t[1] \in Named
                 \/ \E u \in F.links :
                      /\ u[1] = t[1] /\ u[2] = s.y
                      /\ u[3] # i \/ <<s.x, s.y>> \in F.apart \/ <<s.y, s.x>> \in F.apart
        BY <2>1 DEF Keeps
      <4>2. h[a][i] = loc[t[1]]
        BY <1>5, <4>1 DEF AllLinked, Linked
      <4>3. CASE t[1] \in Named
        <5>1. loc[t[1]] \in Atoms
          BY <4>3 DEF LocalOK, Named, Static, Atoms
        <5>2. QED
          BY <4>2, <5>1, AtomsNoAddress
      <4>4. CASE t[1] \notin Named
        <5>1. PICK u \in F.links :
                /\ u[1] = t[1] /\ u[2] = s.y
                /\ u[3] # i \/ <<s.x, s.y>> \in F.apart \/ <<s.y, s.x>> \in F.apart
          BY <4>1, <4>4
        <5>2. v \in DOMAIN h /\ u[3] \in DOMAIN h[v] /\ h[v][u[3]] = loc[t[1]]
          BY <1>5, <5>1 DEF AllLinked, Linked
        <5>3. u[3] # i \/ v # a
          BY <1>1, <5>1 DEF ApartTrue
        <5>4. QED
          BY <4>2, <5>2, <5>3
      <4>5. QED
        BY <4>3, <4>4
    <3>2. \A r, w : Reaches(h, r, w) => Reaches(g, r, w)
      BY <1>2, <3>1, ReachesSetField DEF g
    <3>3. AllHeld(F.held, loc, st, g)
      BY <1>5, <3>2 DEF AllHeld
    <3>4. QED
      BY <2>1, <3>3
  <2>2. CASE ~Keeps(F, s)
    <3>1. AllHeld(Near(F, left), loc, st, g)
      BY <1>1, <1>7, NearTrue
    <3>2. ASSUME NEW t \in F.held, t[1] = s.x
          PROVE  /\ t[1] \in DOMAIN loc /\ t[2] \in 1 .. Len(st)
                 /\ Reaches(g, st[t[2]], loc[t[1]])
      <4>1. /\ t[1] \in DOMAIN loc /\ t[2] \in 1 .. Len(st)
            /\ Reaches(h, st[t[2]], a)
        BY <1>5, <3>2 DEF AllHeld
      <4>2. Reaches(g, st[t[2]], a)
        BY <1>2, <4>1, ReachesChanged DEF g
      <4>3. QED
        BY <3>2, <4>1, <4>2
    <3>3. QED
      BY <2>2, <3>1, <3>2 DEF AllHeld
  <2>3. QED
    BY <2>1, <2>2
<1>9. HeldTrue(H, loc, st, g)
  <2>1. AllHeld(Joined(held, left, s.x, s.y), loc, st, g)
    BY <1>6, <1>7, <1>8, JoinedTrue
  <2>2. QED
    BY <1>4, <2>1 DEF HeldTrue, AllHeld
<1>10. LinksTrue(H, loc, g)
  BY <1>4, <1>6, <1>7 DEF LinksTrue, AllLinked
<1>11. UnsetTrue(H, loc, g)
  <2> SUFFICES ASSUME NEW b \in DOMAIN g, NEW j \in DOMAIN g[b], g[b][j] = Junk
               PROVE  \E t \in H.unset : t[1] \in DOMAIN loc /\ loc[t[1]] = b /\ t[2] = j
    BY DEF UnsetTrue
  <2>1. h[b][j] = Junk /\ ~(b = a /\ j = i)
    BY <1>2, <1>3
  <2>2. PICK t \in F.unset : t[1] \in DOMAIN loc /\ loc[t[1]] = b /\ t[2] = j
    BY <1>1, <1>3, <2>1 DEF UnsetTrue
  <2>3. t # <<s.x, i>>
    BY <2>1, <2>2
  <2>4. QED
    BY <1>4, <2>2, <2>3
<1>12. LiveTrue(H, loc, fr) /\ DirectTrue(H, loc, st) /\ ApartTrue(H, loc)
  BY <1>1, <1>4 DEF LiveTrue, DirectTrue, ApartTrue
<1>13. AllTrue(H, loc, st, sv, g, fr)
  BY <1>1, <1>4, <1>9, <1>10, <1>11, <1>12 DEF AllTrue
<1>14. QED
  BY <1>13 DEF H, g

-----------------------------------------------------------------------------
(* Calls and returns.                                                       *)

(* What is known after a function is entered is true.                       *)
LEMMA EnterTrue ==
  ASSUME NEW F \in Facts, NEW loc, NEW st, NEW sv, NEW h, NEW fr,
         AllTrue(F, loc, st, sv, h, fr)
  PROVE  AllTrue(AfterEnter(F), loc, st, Append(sv, Len(st)), h, fr)
<1> DEFINE H == AfterEnter(F)
<1>1. /\ H.live = F.live /\ H.held = F.held /\ H.direct = F.direct /\ H.links = F.links
      /\ H.apart = F.apart /\ H.unset = F.unset /\ H.depth = F.depth
      /\ H.saved = Append(F.saved, F.depth)
  BY DEF Facts, AfterEnter
<1> HIDE DEF H
<1>2. AllTrue(H, loc, st, Append(sv, Len(st)), h, fr)
  BY <1>1 DEF AllTrue, LiveTrue, HeldTrue, DirectTrue, LinksTrue, ApartTrue, UnsetTrue
<1>3. QED
  BY <1>2 DEF H

(* What is known after it returns is true.                                  *)
LEMMA LeaveTrue ==
  ASSUME NEW F \in Facts, F.saved # <<>>, Last(F.saved) <= F.depth,
         NEW loc, NEW st, NEW sv, NEW h, NEW fr,
         StackOK(st, h), sv \in Seq(Nat), AllTrue(F, loc, st, sv, h, fr)
  PROVE  /\ StackOK(SubSeq(st, 1, Last(sv)), h)
         /\ Range(SubSeq(st, 1, Last(sv))) \subseteq Range(st)
         /\ AllTrue(AfterLeave(F), loc, SubSeq(st, 1, Last(sv)), Front(sv), h, fr)
<1> DEFINE d == Last(sv)
           now == SubSeq(st, 1, d)
           H == AfterLeave(F)
<1>1. /\ LiveTrue(F, loc, fr) /\ HeldTrue(F, loc, st, h) /\ DirectTrue(F, loc, st)
      /\ LinksTrue(F, loc, h) /\ ApartTrue(F, loc) /\ UnsetTrue(F, loc, h)
      /\ F.depth = Len(st) /\ F.saved = sv
  BY DEF AllTrue
<1>2. d \in 0 .. Len(st)
  BY <1>1 DEF Last, StackOK
<1>3. /\ now \in Seq(Value(h)) /\ Len(now) = d /\ DOMAIN now = 1 .. d
      /\ \A e \in 1 .. d : now[e] = st[e] /\ e \in 1 .. Len(st)
  BY <1>2 DEF StackOK
<1>4. /\ H.live = F.live /\ H.links = F.links /\ H.apart = F.apart /\ H.unset = F.unset
      /\ H.direct = {t \in F.direct : t[2] <= d}
      /\ H.held = {t \in F.held : t[2] <= d}
      /\ H.depth = d /\ H.saved = Front(sv)
  BY <1>1 DEF Facts, AfterLeave
<1>5. DOMAIN st = 1 .. Len(st) /\ Len(st) \in Nat
  BY DEF StackOK
<1>6. Range(now) \subseteq Range(st)
  BY <1>3, <1>5 DEF Range
<1> HIDE DEF H, d, now
<1>7. HeldTrue(H, loc, now, h)
  <2>1. ASSUME NEW t \in F.held, t[2] <= d
        PROVE  t[2] \in 1 .. d /\ now[t[2]] = st[t[2]]
    BY <1>1, <1>2, <1>3, <1>5, <2>1 DEF HeldTrue
  <2>2. QED
    BY <1>1, <1>3, <1>4, <2>1 DEF HeldTrue
<1>8. DirectTrue(H, loc, now)
  <2>1. ASSUME NEW t \in F.direct, t[2] <= d
        PROVE  t[2] \in 1 .. d /\ now[t[2]] = st[t[2]]
    BY <1>1, <1>2, <1>3, <1>5, <2>1 DEF DirectTrue
  <2>2. QED
    BY <1>1, <1>3, <1>4, <2>1 DEF DirectTrue
<1>9. /\ LiveTrue(H, loc, fr) /\ LinksTrue(H, loc, h)
      /\ ApartTrue(H, loc) /\ UnsetTrue(H, loc, h)
  BY <1>1, <1>4 DEF LiveTrue, LinksTrue, ApartTrue, UnsetTrue
<1>10. AllTrue(H, loc, now, Front(sv), h, fr)
  BY <1>3, <1>4, <1>7, <1>8, <1>9 DEF AllTrue
<1>11. QED
  BY <1>3, <1>6, <1>10 DEF H, now, d, StackOK

-----------------------------------------------------------------------------
(* From a step to the next one, and the first one.                          *)

(* Fewer facts are true as well.                                            *)
LEMMA WeakerTrue ==
  ASSUME NEW F, NEW G, Weaker(F, G),
         NEW loc, NEW st, NEW sv, NEW h, NEW fr, AllTrue(G, loc, st, sv, h, fr)
  PROVE  AllTrue(F, loc, st, sv, h, fr)
<1>1. /\ F.live \subseteq G.live /\ F.held \subseteq G.held /\ F.direct \subseteq G.direct
      /\ F.links \subseteq G.links /\ F.apart \subseteq G.apart /\ G.unset \subseteq F.unset
      /\ F.depth = G.depth /\ F.saved = G.saved
  BY DEF Weaker
<1>2. LiveTrue(F, loc, fr) /\ HeldTrue(F, loc, st, h) /\ DirectTrue(F, loc, st)
  BY <1>1 DEF AllTrue, LiveTrue, HeldTrue, DirectTrue
<1>3. LinksTrue(F, loc, h) /\ ApartTrue(F, loc)
  BY <1>1 DEF AllTrue, LinksTrue, ApartTrue
<1>4. UnsetTrue(F, loc, h)
  BY <1>1 DEF AllTrue, UnsetTrue
<1>5. QED
  BY <1>1, <1>2, <1>3, <1>4 DEF AllTrue

(* What is known of the arguments of a function that is called is true.     *)
LEMMA EntryTrue ==
  ASSUME NEW f \in DOMAIN Program, DOMAIN Program[f].args \cap Named = {}
  PROVE  LET p == Program[f]
             loc == [x \in DOMAIN Static \cup DOMAIN p.args |->
                       IF x \in DOMAIN Static THEN Static[x] ELSE p.args[x]]
         IN  /\ HeapOK(p.heap) /\ LocalOK(loc, p.heap) /\ StackOK(p.stack, p.heap)
             /\ AllTrue(Entry(p), loc, p.stack, <<>>, p.heap, {})
<1> DEFINE p == Program[f]
           loc == [x \in DOMAIN Static \cup DOMAIN p.args |->
                     IF x \in DOMAIN Static THEN Static[x] ELSE p.args[x]]
           E == Entry(p)
           slots == {t \in (DOMAIN p.args) \X (DOMAIN p.stack) :
                       p.args[t[1]] = p.stack[t[2]]}
<1>1. /\ IsHeap(p.heap) /\ p.stack \in Seq(Value(p.heap) \ {Junk})
      /\ p.args \in [DOMAIN p.args -> Value(p.heap) \ {Junk}]
  BY ProgramAssumption
<1>2. DOMAIN Static = {"NULL", "nil", "junk"}
  BY DEF Static
<1>3. /\ DOMAIN loc = Named \cup DOMAIN p.args
      /\ \A x \in Named : loc[x] = Static[x]
      /\ \A x \in DOMAIN p.args : loc[x] = p.args[x]
  BY DEF Named
<1>4. HeapOK(p.heap)
  BY <1>1 DEF IsHeap, HeapOK
<1>5. StackOK(p.stack, p.heap)
  BY <1>1 DEF StackOK
<1>6. LocalOK(loc, p.heap)
  <2>1. \A x \in DOMAIN loc : loc[x] \in Value(p.heap)
    BY <1>1, <1>2, <1>3 DEF Named, Static, Value, Atoms
  <2>2. QED
    BY <1>3, <2>1 DEF LocalOK
<1>7. /\ E.live = Named \cup DOMAIN p.args /\ E.held = slots /\ E.direct = slots
      /\ E.links = {} /\ E.apart = {} /\ E.unset = {}
      /\ E.depth = Len(p.stack) /\ E.saved = <<>>
  BY DEF Entry
<1>8. DOMAIN p.stack = 1 .. Len(p.stack)
  BY <1>1
<1> HIDE DEF p, loc, E
<1>9. LiveTrue(E, loc, {})
  <2>1. \A x \in Named : x # "junk" => loc[x] # Junk
    BY <1>2, <1>3, ProgramAssumption DEF Named, Static
  <2>2. \A x \in DOMAIN p.args : loc[x] # Junk
    BY <1>1, <1>3
  <2>3. QED
    BY <1>3, <1>7, <2>1, <2>2 DEF LiveTrue
<1>10. HeldTrue(E, loc, p.stack, p.heap) /\ DirectTrue(E, loc, p.stack)
  BY <1>3, <1>7, <1>8 DEF HeldTrue, DirectTrue, Reaches
<1>11. LinksTrue(E, loc, p.heap) /\ ApartTrue(E, loc)
  BY <1>7 DEF LinksTrue, ApartTrue
<1>12. UnsetTrue(E, loc, p.heap)
  BY <1>1 DEF IsHeap, UnsetTrue
<1>13. AllTrue(E, loc, p.stack, <<>>, p.heap, {})
  BY <1>7, <1>9, <1>10, <1>11, <1>12 DEF AllTrue
<1>14. QED
  BY <1>4, <1>5, <1>6, <1>13 DEF p, loc, E

-----------------------------------------------------------------------------
(* The invariant is inductive.                                              *)

LEMMA NewTypes ==
  ASSUME NEW s \in Step, s.do = "new"
  PROVE  s.dst \in STRING /\ s.args \in Seq(STRING) /\ s.fields \in Seq(STRING)
BY DEF Step

(* The facts before a step, and what it demands of them.                    *)
LEMMA StepFacts ==
  ASSUME IInv, pc \in DOMAIN code
  PROVE  /\ step \in Step /\ Known[fn][pc] \in Facts /\ Allows(Known[fn][pc], step)
         /\ Operands(step) \subseteq Known[fn][pc].live
         /\ \A t \in Targets(pc, step) :
              /\ t \in 1 .. Len(code) + 1
              /\ Weaker(Known[fn][t], After(Known[fn][pc], step))
<1>1. code \in Seq(Step) /\ DOMAIN code = 1 .. Len(code) /\ Len(code) \in Nat
  <2>1. fn \in DOMAIN Program
    BY DEF IInv, TypeOK
  <2>2. code \in Seq(Step)
    BY <2>1, ProgramAssumption DEF code
  <2>3. QED
    BY <2>2
<1>2. step \in Step /\ pc \in 1 .. Len(code) + 1
  BY <1>1 DEF step
<1>3. /\ Known[fn] \in [1 .. Len(code) + 1 -> Facts]
      /\ \A k \in 1 .. Len(code) :
           /\ Allows(Known[fn][k], code[k])
           /\ \A t \in Targets(k, code[k]) :
                /\ t \in 1 .. Len(code) + 1
                /\ Weaker(Known[fn][t], After(Known[fn][k], code[k]))
  BY DEF IInv, Agree, code
<1>4. /\ Known[fn][pc] \in Facts /\ Allows(Known[fn][pc], step)
      /\ \A t \in Targets(pc, step) :
           /\ t \in 1 .. Len(code) + 1
           /\ Weaker(Known[fn][t], After(Known[fn][pc], step))
  BY <1>1, <1>2, <1>3 DEF step
<1>5. QED
  BY <1>2, <1>4 DEF Allows

(* What is known before the next step is true if what this one makes known  *)
(* is.                                                                      *)
LEMMA MovesOn ==
  ASSUME IInv, pc \in DOMAIN code, fn' = fn, pc' \in Targets(pc, step),
         AllTrue(After(Known[fn][pc], step), local', stack', saved', heap', freed')
  PROVE  /\ fn' \in DOMAIN Program /\ pc' \in 1 .. Len(code') + 1
         /\ Agree(Program[fn'], Known[fn']) /\ FactsTrue'
<1>1. pc' \in 1 .. Len(code) + 1 /\ Weaker(Known[fn][pc'], After(Known[fn][pc], step))
  BY StepFacts
<1>2. AllTrue(Known[fn][pc'], local', stack', saved', heap', freed')
  BY <1>1, WeakerTrue
<1>3. QED
  BY <1>1, <1>2 DEF IInv, TypeOK, FactsTrue, code

(* The object that a constructor returns, whatever was freed, as long as it *)
(* is nothing that the facts say is live or that is still referred to.      *)
LEMMA MadeOK ==
  ASSUME IInv, pc \in DOMAIN code, step.do = "new", Made, freed' \subseteq DOMAIN heap,
         \A x \in (Named \cup Range(step.args) \cup HeldNames(Known[fn][pc]))
                    \cap Known[fn][pc].live : local[x] \notin freed',
         Range(stack) \cap freed' = {},
         \A a \in DOMAIN heap \ freed' : Range(heap[a]) \cap freed' = {}
  PROVE  /\ fn' \in DOMAIN Program /\ pc' \in 1 .. Len(code') + 1
         /\ HeapOK(heap') /\ LocalOK(local', heap') /\ StackOK(stack', heap')
         /\ saved' \in Seq(Nat) /\ DOMAIN heap \subseteq DOMAIN heap'
         /\ Agree(Program[fn'], Known[fn']) /\ FactsTrue' /\ NoDangling'
<1> DEFINE F == Known[fn][pc]
           s == step
           o == [i \in DOMAIN s.fields |-> local[s.fields[i]]]
           g == Append(heap, o)
           n == Len(heap) + 1
           m == Assigned(local, s.dst, n)
<1>1. /\ heap' = g /\ local' = m /\ pc' = pc + 1
      /\ fn' = fn /\ stack' = stack /\ saved' = saved
  BY DEF Made, Fields, Assign
<1>2. /\ s \in Step /\ F \in Facts /\ Allows(F, s) /\ Operands(s) \subseteq F.live
  BY StepFacts
<1>3. s.dst \in STRING /\ s.args \in Seq(STRING) /\ s.fields \in Seq(STRING)
  BY <1>2, NewTypes
<1>4. /\ s.dst \in Assignable(F) /\ Range(s.fields) \subseteq F.live
      /\ Range(s.fields) \subseteq Range(s.args) \cup HeldNames(F) \cup Named
  BY <1>2 DEF Allows, Operands
<1>5. /\ HeapOK(heap) /\ LocalOK(local, heap) /\ StackOK(stack, heap) /\ saved \in Seq(Nat)
      /\ AllTrue(F, local, stack, saved, heap, freed)
  BY DEF IInv, TypeOK, FactsTrue
<1>6. Len(heap) \in Nat /\ DOMAIN heap = 1 .. Len(heap)
  BY <1>5 DEF HeapOK
<1>7. n \notin freed'
  BY <1>6
<1>8. AfterNew(F, s).live = {s.dst} \cup
        ((Named \cup Range(s.args) \cup HeldNames(F)) \cap F.live)
  BY <1>2, AfterNewFields
<1>9. \A x \in AfterNew(F, s).live : x # s.dst => local[x] \notin freed'
  BY <1>8
<1> HIDE DEF F, s
<1>10. o \in Seq(Value(heap)) /\ AllTrue(AfterNew(F, s), m, stack, saved, g, freed')
  BY <1>2, <1>3, <1>4, <1>5, <1>7, <1>9, NewTrue
<1>11. \A i \in DOMAIN o : o[i] \notin freed'
  <2>1. \A i \in DOMAIN s.fields : s.fields[i] \in Range(s.fields)
    BY DEF Range
  <2>2. QED
    BY <1>4, <2>1 DEF F, s
<1> HIDE DEF o
<1>12. /\ HeapOK(g) /\ DOMAIN g = DOMAIN heap \cup {n} /\ g[n] = o
       /\ \A a \in DOMAIN heap : g[a] = heap[a]
       /\ Value(heap) \subseteq Value(g)
  BY <1>5, <1>10, AppendHeap
<1> HIDE DEF g
<1>13. LocalOK(m, g)
  <2>1. s.dst \in STRING \ Named
    BY <1>4 DEF Assignable
  <2>2. n \in Value(g)
    BY <1>12 DEF Value
  <2>3. QED
    BY <1>5, <1>12, <2>1, <2>2, AssignedOK
<1>14. StackOK(stack, g)
  BY <1>5, <1>12 DEF StackOK
<1>15. After(F, s) = AfterNew(F, s) /\ Targets(pc, s) = {pc + 1}
  BY DEF After, Targets, s
<1>16. /\ fn' \in DOMAIN Program /\ pc' \in 1 .. Len(code') + 1
       /\ Agree(Program[fn'], Known[fn']) /\ FactsTrue'
  BY <1>1, <1>10, <1>15, MovesOn DEF F, s
<1>17. NoDangling'
  <2>1. ASSUME NEW a \in DOMAIN g \ freed'
        PROVE  Range(g[a]) \cap freed' = {}
    <3>1. CASE a = n
      BY <1>11, <1>12, <3>1 DEF Range
    <3>2. CASE a \in DOMAIN heap
      BY <1>12, <3>2
    <3>3. QED
      BY <1>12, <3>1, <3>2
  <2>2. QED
    BY <1>1, <2>1 DEF NoDangling
<1>18. QED
  BY <1>1, <1>5, <1>12, <1>13, <1>14, <1>16, <1>17

(* What the invariant says of the variables.                                *)
LEMMA Current ==
  ASSUME IInv
  PROVE  /\ HeapOK(heap) /\ LocalOK(local, heap) /\ StackOK(stack, heap)
         /\ saved \in Seq(Nat) /\ freed \subseteq DOMAIN heap /\ marked \subseteq DOMAIN heap
         /\ AllTrue(Known[fn][pc], local, stack, saved, heap, freed)
         /\ LiveTrue(Known[fn][pc], local, freed)
         /\ Known[fn][pc].depth = Len(stack)
         /\ \A x \in DOMAIN local : local[x] \in Value(heap)
         /\ Atoms \cap DOMAIN heap = {}
         /\ collecting \in BOOLEAN /\ wild \in BOOLEAN
BY AtomsNoAddress DEF IInv, TypeOK, FactsTrue, AllTrue, LocalOK

(* gc_malloc succeeds at once: nothing is freed.                            *)
LEMMA NewAtOnceOK == ASSUME IInv, NewAtOnce PROVE IInv'
<1>1. /\ pc \in DOMAIN code /\ step.do = "new" /\ Made /\ ~wild /\ ~collecting
      /\ freed' = freed /\ marked' = marked /\ collecting' = collecting /\ wild' = wild
  BY DEF NewAtOnce, At, Made
<1>2. \A x \in Known[fn][pc].live : local[x] \notin freed'
  BY <1>1, Current DEF LiveTrue
<1>3. NoDangling /\ MarkOK /\ freed' \subseteq DOMAIN heap /\ marked \subseteq DOMAIN heap
  BY <1>1, Current DEF IInv
<1>4. /\ fn' \in DOMAIN Program /\ pc' \in 1 .. Len(code') + 1
      /\ HeapOK(heap') /\ LocalOK(local', heap') /\ StackOK(stack', heap')
      /\ saved' \in Seq(Nat) /\ DOMAIN heap \subseteq DOMAIN heap'
      /\ Agree(Program[fn'], Known[fn']) /\ FactsTrue' /\ NoDangling'
  <2>1. /\ Range(stack) \cap freed' = {}
        /\ \A a \in DOMAIN heap \ freed' : Range(heap[a]) \cap freed' = {}
    BY <1>1, <1>3 DEF NoDangling
  <2>2. QED
    BY <1>1, <1>2, <1>3, <2>1, MadeOK
<1>5. TypeOK'
  <2>1. marked' \subseteq DOMAIN heap' /\ freed' \subseteq DOMAIN heap'
    BY <1>1, <1>3, <1>4
  <2>2. collecting' \in BOOLEAN /\ wild' \in BOOLEAN
    BY <1>1, Current
  <2>3. QED
    BY <1>4, <2>1, <2>2 DEF TypeOK
<1>6. MarkOK' /\ WildOK'
  BY <1>1, <1>3 DEF MarkOK, WildOK
<1>7. QED
  BY <1>4, <1>5, <1>6 DEF IInv

(* The constructor's arguments and what the slots hold were not freed.      *)
LEMMA CollectOK == ASSUME IInv, Collect PROVE IInv'
<1>1. /\ pc \in DOMAIN code /\ step.do = "new" /\ ~wild
      /\ collecting' = TRUE /\ marked' = Scanned(step.args)
      /\ UNCHANGED <<fn, pc, local, stack, saved, heap, freed, wild>>
  BY DEF Collect, At
<1>2. Scanned(step.args) \subseteq DOMAIN heap
  BY DEF Scanned
<1>3. Scanned(step.args) \cap freed = {}
  <2>1. Range(step.args) \subseteq Known[fn][pc].live
    BY <1>1, StepFacts DEF Operands
  <2>2. \A i \in DOMAIN step.args : local[step.args[i]] \notin freed
    BY <2>1, Current DEF LiveTrue, Range
  <2>3. Range(stack) \cap freed = {}
    BY DEF IInv, NoDangling
  <2>4. QED
    BY <2>2, <2>3 DEF Scanned, Fields, Range
<1>4. TypeOK'
  BY <1>1, <1>2 DEF IInv, TypeOK, code
<1>5. Agree(Program[fn], Known[fn])' /\ FactsTrue' /\ NoDangling'
  BY <1>1 DEF IInv, FactsTrue, NoDangling
<1>6. MarkOK' /\ WildOK'
  BY <1>1, <1>3 DEF IInv, MarkOK, WildOK, step, code, Scanned, Fields
<1>7. QED
  BY <1>4, <1>5, <1>6 DEF IInv

(* An object that is marked has no field that refers to a freed one.        *)
LEMMA MarkStepOK == ASSUME IInv, Mark PROVE IInv'
<1>1. /\ collecting /\ ~wild /\ marked' = marked \cup Visited(marked)
      /\ UNCHANGED <<fn, pc, local, stack, saved, heap, freed, collecting, wild>>
  BY DEF Mark
<1>2. Visited(marked) \subseteq DOMAIN heap
  BY DEF Visited
<1>3. Visited(marked) \cap freed = {}
  <2>1. \A a \in marked : Range(heap[a]) \cap freed = {}
    BY Current DEF IInv, MarkOK, NoDangling
  <2>2. QED
    BY <2>1 DEF Visited
<1>4. TypeOK'
  BY <1>1, <1>2 DEF IInv, TypeOK, code
<1>5. Agree(Program[fn], Known[fn])' /\ FactsTrue' /\ NoDangling'
  BY <1>1 DEF IInv, FactsTrue, NoDangling
<1>6. MarkOK' /\ WildOK'
  BY <1>1, <1>3 DEF IInv, MarkOK, WildOK, step, code, Scanned, Fields
<1>7. QED
  BY <1>4, <1>5, <1>6 DEF IInv

(* The field that a visitor follows is one that is known to be unset.       *)
LEMMA MarkWildOK == ASSUME IInv, MarkWild PROVE IInv'
<1>1. /\ collecting /\ wild' = TRUE
      /\ UNCHANGED <<fn, pc, local, stack, saved, heap, freed, collecting, marked>>
  BY DEF MarkWild
<1>2. PICK a \in marked : Junk \in Range(heap[a])
  BY DEF MarkWild
<1>3. PICK i \in DOMAIN heap[a] : heap[a][i] = Junk
  BY <1>2 DEF Range
<1>4. Known[fn][pc].unset # {}
  BY <1>2, <1>3, Current DEF AllTrue, UnsetTrue
<1>5. TypeOK'
  BY <1>1 DEF IInv, TypeOK, code
<1>6. Agree(Program[fn], Known[fn])' /\ FactsTrue' /\ NoDangling'
  BY <1>1 DEF IInv, FactsTrue, NoDangling
<1>7. MarkOK' /\ WildOK'
  BY <1>1, <1>4 DEF IInv, MarkOK, WildOK, step, code, Scanned, Fields
<1>8. QED
  BY <1>5, <1>6, <1>7 DEF IInv

(* What is freed is not marked, and what the slots reach is.                *)
LEMMA SweepOK == ASSUME IInv, Sweep PROVE IInv'
<1> DEFINE F == Known[fn][pc]
<1>1. /\ collecting /\ ~wild /\ Visited(marked) \subseteq marked
      /\ freed' = freed \cup (DOMAIN heap \ marked)
      /\ collecting' = FALSE /\ marked' = {} /\ wild' = wild /\ Made
  BY DEF Sweep, Made
<1>2. /\ marked \cap freed = {} /\ pc \in DOMAIN code /\ step.do = "new"
      /\ Scanned(step.args) \subseteq marked
  BY <1>1 DEF IInv, MarkOK
<1>3. freed' \subseteq DOMAIN heap /\ marked \in SUBSET DOMAIN heap /\ marked \cap freed' = {}
  BY <1>1, <1>2, Current
<1>4. IsClosed(heap, marked)
  BY <1>1 DEF IsClosed, Visited, Range
<1>5. Range(stack) \cap DOMAIN heap \subseteq marked
  BY <1>2 DEF Scanned
<1>6. ASSUME NEW x \in (Named \cup Range(step.args) \cup HeldNames(F)) \cap F.live
      PROVE  local[x] \notin freed'
  <2>1. local[x] \notin freed
    BY Current DEF LiveTrue
  <2>2. ASSUME local[x] \in DOMAIN heap
        PROVE  local[x] \in marked
    <3>1. CASE x \in Named
      <4>1. local[x] \in Atoms
        BY <3>1, Current DEF LocalOK, Named, Static, Atoms
      <4>2. QED
        BY <2>2, <4>1, Current
    <3>2. CASE x \in Range(step.args)
      BY <1>2, <2>2, <3>2 DEF Scanned, Fields, Range
    <3>3. CASE x \in HeldNames(F)
      <4>1. PICK t \in F.held : t[1] = x
        BY <3>3 DEF HeldNames
      <4>2. t[2] \in 1 .. Len(stack) /\ Reaches(heap, stack[t[2]], local[x])
        BY <4>1, Current DEF AllTrue, HeldTrue
      <4>3. stack[t[2]] \in DOMAIN heap => stack[t[2]] \in marked
        BY <1>5, <4>2, Current DEF StackOK, Range
      <4>4. QED
        BY <1>3, <1>4, <2>2, <4>2, <4>3, ReachesMarked
    <3>4. QED
      BY <3>1, <3>2, <3>3
  <2>3. QED
    BY <1>1, <2>1, <2>2
<1>7. Range(stack) \cap freed' = {}
  BY <1>3, <1>5
<1>8. ASSUME NEW a \in DOMAIN heap \ freed'
      PROVE  Range(heap[a]) \cap freed' = {}
  <2>1. a \in marked
    BY <1>1
  <2>2. Range(heap[a]) \cap DOMAIN heap \subseteq marked
    BY <1>1, <2>1 DEF Visited
  <2>3. QED
    BY <1>3, <2>2
<1>9. /\ fn' \in DOMAIN Program /\ pc' \in 1 .. Len(code') + 1
      /\ HeapOK(heap') /\ LocalOK(local', heap') /\ StackOK(stack', heap')
      /\ saved' \in Seq(Nat) /\ DOMAIN heap \subseteq DOMAIN heap'
      /\ Agree(Program[fn'], Known[fn']) /\ FactsTrue' /\ NoDangling'
  BY <1>1, <1>2, <1>3, <1>6, <1>7, <1>8, MadeOK
<1>10. TypeOK'
  <2>1. marked' \subseteq DOMAIN heap' /\ freed' \subseteq DOMAIN heap'
    BY <1>1, <1>3, <1>9
  <2>2. collecting' \in BOOLEAN /\ wild' \in BOOLEAN
    BY <1>1, Current
  <2>3. QED
    BY <1>9, <2>1, <2>2 DEF TypeOK
<1>11. MarkOK' /\ WildOK'
  BY <1>1 DEF MarkOK, WildOK
<1>12. QED
  BY <1>9, <1>10, <1>11 DEF IInv

(* A step that allocates nothing.                                           *)
LEMMA StepOK ==
  ASSUME IInv, pc \in DOMAIN code, ~wild, ~collecting,
         UNCHANGED <<fn, freed, collecting, marked, wild>>, pc' \in Targets(pc, step),
         HeapOK(heap'), LocalOK(local', heap'), StackOK(stack', heap'),
         saved' \in Seq(Nat), DOMAIN heap' = DOMAIN heap,
         AllTrue(After(Known[fn][pc], step), local', stack', saved', heap', freed'),
         NoDangling'
  PROVE  IInv'
<1>1. /\ fn' \in DOMAIN Program /\ pc' \in 1 .. Len(code') + 1
      /\ Agree(Program[fn'], Known[fn']) /\ FactsTrue'
  BY MovesOn
<1>2. /\ marked' \subseteq DOMAIN heap' /\ freed' \subseteq DOMAIN heap'
      /\ collecting' \in BOOLEAN /\ wild' \in BOOLEAN
  BY Current
<1>3. TypeOK'
  BY <1>1, <1>2 DEF TypeOK
<1>4. MarkOK' /\ WildOK'
  BY DEF IInv, MarkOK, WildOK
<1>5. QED
  BY <1>1, <1>3, <1>4 DEF IInv

LEMMA RootStepOK == ASSUME IInv, RootStep PROVE IInv'
<1>1. /\ pc \in DOMAIN code /\ ~wild /\ ~collecting /\ step.do = "root"
      /\ UNCHANGED <<fn, freed, collecting, marked, wild, local, saved, heap>>
      /\ pc' = pc + 1 /\ stack' = Append(stack, local[step.x])
  BY DEF RootStep, Do, At
<1>2. Known[fn][pc] \in Facts /\ step.x \in Known[fn][pc].live
  BY <1>1, StepFacts DEF Operands
<1>3. step.x \in DOMAIN local /\ local[step.x] \in Value(heap) /\ local[step.x] \notin freed
  BY <1>2, Current DEF LiveTrue
<1>4. StackOK(stack', heap) /\ Range(stack') = Range(stack) \cup {local[step.x]}
  <2>1. stack \in Seq(Value(heap))
    BY Current DEF StackOK
  <2>2. /\ DOMAIN stack = 1 .. Len(stack) /\ Len(stack) \in Nat
        /\ DOMAIN stack' = 1 .. Len(stack) + 1 /\ stack'[Len(stack) + 1] = local[step.x]
        /\ \A d \in 1 .. Len(stack) : stack'[d] = stack[d]
    BY <1>1, <1>3, <2>1
  <2>3. Range(stack') = Range(stack) \cup {local[step.x]}
    BY <2>2 DEF Range
  <2>4. QED
    BY <1>1, <1>3, <2>1, <2>3 DEF StackOK
<1>5. NoDangling'
  BY <1>1, <1>3, <1>4 DEF IInv, NoDangling
<1>6. After(Known[fn][pc], step) = AfterRoot(Known[fn][pc], step) /\ pc' \in Targets(pc, step)
  BY <1>1 DEF After, Targets
<1>7. AllTrue(After(Known[fn][pc], step), local', stack', saved', heap', freed')
  BY <1>1, <1>2, <1>6, Current, RootTrue
<1>8. QED
  BY <1>1, <1>4, <1>5, <1>6, <1>7, Current, StepOK

LEMMA PokeStepOK == ASSUME IInv, PokeStep PROVE IInv'
<1> DEFINE d == Len(stack) + 1 - step.i
<1>1. /\ pc \in DOMAIN code /\ ~wild /\ ~collecting /\ step.do = "poke"
      /\ UNCHANGED <<fn, freed, collecting, marked, wild, local, saved, heap>>
      /\ pc' = pc + 1 /\ stack' = [stack EXCEPT ![d] = local[step.x]]
  BY DEF PokeStep, Do, At, Slot
<1>2. /\ Known[fn][pc] \in Facts /\ step.x \in Known[fn][pc].live
      /\ step.i \in 1 .. Known[fn][pc].depth
  BY <1>1, StepFacts DEF Operands, Allows
<1>3. step.x \in DOMAIN local /\ local[step.x] \in Value(heap) /\ local[step.x] \notin freed
  BY <1>2, Current DEF LiveTrue
<1>4. StackOK(stack', heap) /\ Range(stack') \subseteq Range(stack) \cup {local[step.x]}
  <2>1. stack \in Seq(Value(heap))
    BY Current DEF StackOK
  <2>2. d \in 1 .. Len(stack) /\ DOMAIN stack = 1 .. Len(stack)
    BY <1>2, <2>1, Current
  <2>3. /\ stack' \in Seq(Value(heap)) /\ DOMAIN stack' = DOMAIN stack
        /\ \A e \in DOMAIN stack : stack'[e] \in {stack[e], local[step.x]}
    BY <1>1, <1>3, <2>1, <2>2
  <2>4. QED
    BY <2>3 DEF StackOK, Range
<1>5. NoDangling'
  BY <1>1, <1>3, <1>4 DEF IInv, NoDangling
<1>6. After(Known[fn][pc], step) = AfterPoke(Known[fn][pc], step) /\ pc' \in Targets(pc, step)
  BY <1>1 DEF After, Targets
<1>7. AllTrue(After(Known[fn][pc], step), local', stack', saved', heap', freed')
  <2>1. AllTrue(AfterPoke(Known[fn][pc], step), local,
                [stack EXCEPT ![Len(stack) + 1 - step.i] = local[step.x]], saved, heap, freed)
    BY <1>2, Current, PokeTrue
  <2>2. QED
    BY <1>1, <1>6, <2>1
<1>8. QED
  BY <1>1, <1>4, <1>5, <1>6, <1>7, Current, StepOK

LEMMA CopyStepOK == ASSUME IInv, CopyStep PROVE IInv'
<1>1. /\ pc \in DOMAIN code /\ ~wild /\ ~collecting /\ step.do = "copy"
      /\ UNCHANGED <<fn, freed, collecting, marked, wild, stack, saved, heap>>
      /\ pc' = pc + 1 /\ local' = Assigned(local, step.dst, local[step.x])
  BY DEF CopyStep, Do, At, Assign
<1>2. /\ Known[fn][pc] \in Facts /\ step.x \in Known[fn][pc].live
      /\ step.x # "junk" /\ step.dst \in Assignable(Known[fn][pc])
  BY <1>1, StepFacts DEF Operands, Allows
<1>3. step.x \in DOMAIN local /\ local[step.x] \in Value(heap)
  BY <1>2, Current DEF LiveTrue
<1>4. LocalOK(local', heap)
  BY <1>1, <1>2, <1>3, Current, AssignedOK DEF Assignable
<1>5. NoDangling'
  BY <1>1 DEF IInv, NoDangling
<1>6. After(Known[fn][pc], step) = AfterCopy(Known[fn][pc], step) /\ pc' \in Targets(pc, step)
  BY <1>1 DEF After, Targets
<1>7. AllTrue(After(Known[fn][pc], step), local', stack', saved', heap', freed')
  BY <1>1, <1>2, <1>6, Current, CopyTrue
<1>8. QED
  BY <1>1, <1>4, <1>5, <1>6, <1>7, Current, StepOK

(* A live object refers to no freed one.                                    *)
LEMMA GetStepOK == ASSUME IInv, GetStep PROVE IInv'
<1> DEFINE a == local[step.x]
           v == heap[a][step.i]
<1>1. /\ pc \in DOMAIN code /\ ~wild /\ ~collecting /\ step.do = "get"
      /\ UNCHANGED <<fn, freed, collecting, marked, wild, stack, saved, heap>>
      /\ pc' = pc + 1 /\ local' = Assigned(local, step.dst, v)
      /\ a \in DOMAIN heap /\ step.i \in DOMAIN heap[a]
  BY DEF GetStep, Do, At, Assign, HasField
<1>2. /\ Known[fn][pc] \in Facts /\ step.x \in Known[fn][pc].live
      /\ Known[fn][pc].unset = {} /\ step.dst \in Assignable(Known[fn][pc])
  BY <1>1, StepFacts DEF Operands, Allows
<1>3. step.x \in DOMAIN local /\ a \notin freed
  BY <1>2, Current DEF LiveTrue
<1>4. v \in Value(heap) /\ v \notin freed
  <2>1. v \in Value(heap)
    BY <1>1, Current DEF HeapOK
  <2>2. Range(heap[a]) \cap freed = {}
    BY <1>1, <1>3 DEF IInv, NoDangling
  <2>3. QED
    BY <1>1, <2>1, <2>2 DEF Range
<1>5. LocalOK(local', heap)
  BY <1>1, <1>2, <1>4, Current, AssignedOK DEF Assignable
<1>6. NoDangling'
  BY <1>1 DEF IInv, NoDangling
<1>7. After(Known[fn][pc], step) = AfterGet(Known[fn][pc], step) /\ pc' \in Targets(pc, step)
  BY <1>1 DEF After, Targets
<1>8. AllTrue(After(Known[fn][pc], step), local', stack', saved', heap', freed')
  BY <1>1, <1>2, <1>3, <1>4, <1>7, Current, GetTrue
<1>9. QED
  BY <1>1, <1>5, <1>6, <1>7, <1>8, Current, StepOK

(* What is assigned to a field is live.                                     *)
LEMMA PutStepOK == ASSUME IInv, PutStep PROVE IInv'
<1> DEFINE a == local[step.x]
           v == local[step.y]
<1>1. /\ pc \in DOMAIN code /\ ~wild /\ ~collecting /\ step.do = "put"
      /\ UNCHANGED <<fn, freed, collecting, marked, wild, local, stack, saved>>
      /\ pc' = pc + 1 /\ heap' = SetField(heap, a, step.i, v)
      /\ a \in DOMAIN heap /\ step.i \in DOMAIN heap[a]
  BY DEF PutStep, Do, At, HasField
<1>2. /\ Known[fn][pc] \in Facts /\ step.x \in Known[fn][pc].live
      /\ step.y \in Known[fn][pc].live /\ step.y # "junk"
  BY <1>1, StepFacts DEF Operands, Allows
<1>3. /\ step.x \in DOMAIN local /\ step.y \in DOMAIN local
      /\ v \in Value(heap) /\ v \notin freed
  BY <1>2, Current DEF LiveTrue
<1>4. /\ HeapOK(heap') /\ DOMAIN heap' = DOMAIN heap /\ Value(heap') = Value(heap)
      /\ \A b \in DOMAIN heap : DOMAIN heap'[b] = DOMAIN heap[b]
      /\ \A b \in DOMAIN heap : \A j \in DOMAIN heap[b] :
           heap'[b][j] = IF b = a /\ j = step.i THEN v ELSE heap[b][j]
  BY <1>1, <1>3, Current, SetFieldHeap
<1>5. LocalOK(local', heap') /\ StackOK(stack', heap')
  BY <1>1, <1>4, Current DEF LocalOK, StackOK
<1>6. NoDangling'
  <2>1. ASSUME NEW b \in DOMAIN heap \ freed
        PROVE  Range(heap'[b]) \cap freed = {}
    <3>1. Range(heap[b]) \cap freed = {}
      BY DEF IInv, NoDangling
    <3>2. \A j \in DOMAIN heap[b] : heap[b][j] \notin freed
      BY <3>1 DEF Range
    <3>3. \A j \in DOMAIN heap'[b] : heap'[b][j] \notin freed
      BY <1>3, <1>4, <3>2
    <3>4. QED
      BY <3>3 DEF Range
  <2>2. Range(stack) \cap freed = {}
    BY DEF IInv, NoDangling
  <2>3. QED
    BY <1>1, <1>4, <2>1, <2>2 DEF NoDangling
<1>7. After(Known[fn][pc], step) = AfterPut(Known[fn][pc], step) /\ pc' \in Targets(pc, step)
  BY <1>1 DEF After, Targets
<1>8. AllTrue(After(Known[fn][pc], step), local', stack', saved', heap', freed')
  BY <1>1, <1>2, <1>3, <1>7, Current, PutTrue
<1>9. QED
  BY <1>1, <1>4, <1>5, <1>6, <1>7, <1>8, Current, StepOK

LEMMA EnterOK == ASSUME IInv, Enter PROVE IInv'
<1>1. /\ pc \in DOMAIN code /\ ~wild /\ ~collecting /\ step.do = "enter"
      /\ UNCHANGED <<fn, freed, collecting, marked, wild, local, stack, heap>>
      /\ pc' = pc + 1 /\ saved' = Append(saved, Len(stack))
  BY DEF Enter, Do, At
<1>2. Known[fn][pc] \in Facts
  BY <1>1, StepFacts
<1>3. saved' \in Seq(Nat)
  BY <1>1, Current DEF StackOK
<1>4. NoDangling'
  BY <1>1 DEF IInv, NoDangling
<1>5. After(Known[fn][pc], step) = AfterEnter(Known[fn][pc]) /\ pc' \in Targets(pc, step)
  BY <1>1 DEF After, Targets
<1>6. AllTrue(After(Known[fn][pc], step), local', stack', saved', heap', freed')
  BY <1>1, <1>2, <1>5, Current, EnterTrue
<1>7. QED
  BY <1>1, <1>3, <1>4, <1>5, <1>6, Current, StepOK

LEMMA LeaveOK == ASSUME IInv, Leave PROVE IInv'
<1>1. /\ pc \in DOMAIN code /\ ~wild /\ ~collecting /\ step.do = "leave"
      /\ UNCHANGED <<fn, freed, collecting, marked, wild, local, heap>>
      /\ pc' = pc + 1 /\ stack' = SubSeq(stack, 1, Last(saved)) /\ saved' = Front(saved)
  BY DEF Leave, Do, At
<1>2. /\ Known[fn][pc] \in Facts /\ Known[fn][pc].saved # <<>>
      /\ Last(Known[fn][pc].saved) <= Known[fn][pc].depth
  BY <1>1, StepFacts DEF Allows
<1>3. saved \in Seq(Nat) /\ saved # <<>>
  BY <1>2, Current DEF AllTrue
<1>4. saved' \in Seq(Nat)
  BY <1>1, <1>3 DEF Front
<1>5. /\ StackOK(stack', heap) /\ Range(stack') \subseteq Range(stack)
      /\ AllTrue(AfterLeave(Known[fn][pc]), local, stack', saved', heap, freed)
  BY <1>1, <1>2, Current, LeaveTrue
<1>6. NoDangling'
  BY <1>1, <1>5 DEF IInv, NoDangling
<1>7. After(Known[fn][pc], step) = AfterLeave(Known[fn][pc]) /\ pc' \in Targets(pc, step)
  BY <1>1 DEF After, Targets
<1>8. QED
  BY <1>1, <1>4, <1>5, <1>6, <1>7, Current, StepOK

LEMMA BranchOK == ASSUME IInv, Branch PROVE IInv'
<1>1. /\ pc \in DOMAIN code /\ ~wild /\ ~collecting
      /\ UNCHANGED <<fn, freed, collecting, marked, wild, local, stack, saved, heap>>
      /\ step.do \in {"if", "either", "jump"} /\ pc' \in Targets(pc, step)
  BY DEF Branch, At, Targets
<1>2. NoDangling'
  BY <1>1 DEF IInv, NoDangling
<1>3. After(Known[fn][pc], step) = Known[fn][pc]
  BY <1>1 DEF After
<1>4. AllTrue(After(Known[fn][pc], step), local', stack', saved', heap', freed')
  BY <1>1, <1>3, Current
<1>5. QED
  BY <1>1, <1>2, <1>4, Current, StepOK

LEMMA UnchangedOK == ASSUME IInv, UNCHANGED vars PROVE IInv'
<1>1. UNCHANGED <<fn, pc, local, stack, saved, heap, freed, collecting, marked, wild>>
  BY DEF vars
<1>2. TypeOK' /\ FactsTrue' /\ NoDangling'
  BY <1>1 DEF IInv, TypeOK, FactsTrue, NoDangling, code
<1>3. MarkOK' /\ WildOK'
  BY <1>1 DEF IInv, MarkOK, WildOK, step, code, Scanned, Fields
<1>4. QED
  BY <1>1, <1>2, <1>3 DEF IInv

LEMMA InitOK == ASSUME Init, CallsVerified PROVE IInv
<1>1. /\ fn \in DOMAIN Program /\ pc = 1 /\ stack = Program[fn].stack /\ saved = <<>>
      /\ local = [x \in DOMAIN Static \cup DOMAIN Program[fn].args |->
                    IF x \in DOMAIN Static THEN Static[x] ELSE Program[fn].args[x]]
      /\ heap = Program[fn].heap /\ freed = {} /\ collecting = FALSE /\ marked = {}
      /\ wild = FALSE
  BY DEF Init
<1>2. Agree(Program[fn], Known[fn])
  BY <1>1 DEF CallsVerified, Verified
<1>3. /\ DOMAIN Program[fn].args \cap Named = {}
      /\ Weaker(Known[fn][1], Entry(Program[fn]))
  BY <1>2 DEF Agree
<1>4. /\ HeapOK(heap) /\ LocalOK(local, heap) /\ StackOK(stack, heap)
      /\ AllTrue(Entry(Program[fn]), local, stack, saved, heap, freed)
  BY <1>1, <1>3, EntryTrue
<1>5. FactsTrue
  BY <1>1, <1>3, <1>4, WeakerTrue DEF FactsTrue
<1>6. pc \in 1 .. Len(code) + 1
  <2>1. Len(code) \in Nat
    BY <1>1, ProgramAssumption DEF code
  <2>2. QED
    BY <1>1, <2>1
<1>7. TypeOK
  <2>1. saved \in Seq(Nat)
    BY <1>1
  <2>2. collecting \in BOOLEAN /\ wild \in BOOLEAN
    BY <1>1, Zenon
  <2>3. freed \subseteq DOMAIN heap /\ marked \subseteq DOMAIN heap
    BY <1>1
  <2>4. QED
    BY <1>1, <1>4, <1>6, <2>1, <2>2, <2>3 DEF TypeOK
<1>8. NoDangling /\ MarkOK /\ WildOK
  BY <1>1 DEF NoDangling, MarkOK, WildOK
<1>9. QED
  BY <1>2, <1>5, <1>7, <1>8 DEF IInv

LEMMA Inductive == IInv /\ [Next]_vars => IInv'
<1> SUFFICES ASSUME IInv, [Next]_vars PROVE IInv'
  OBVIOUS
<1>1. CASE NewAtOnce \/ Collect \/ Mark \/ MarkWild \/ Sweep
  BY <1>1, NewAtOnceOK, CollectOK, MarkStepOK, MarkWildOK, SweepOK
<1>2. CASE RootStep \/ PokeStep \/ CopyStep \/ GetStep \/ PutStep
  BY <1>2, RootStepOK, PokeStepOK, CopyStepOK, GetStepOK, PutStepOK
<1>3. CASE Enter \/ Leave \/ Branch
  BY <1>3, EnterOK, LeaveOK, BranchOK
<1>4. CASE Done \/ UNCHANGED vars
  BY <1>4, UnchangedOK DEF Done
<1>5. QED
  BY <1>1, <1>2, <1>3, <1>4 DEF Next

-----------------------------------------------------------------------------
(* If the functions that are called are verified, what the analysis knows   *)
(* of the locals, the slots and the heap is true before each step, in the   *)
(* middle of a collection as well.                                          *)
THEOREM FactsHold == Spec /\ []CallsVerified => []IInv
<1>1. Init /\ CallsVerified => IInv
  BY InitOK
<1>2. QED
  BY <1>1, Inductive, PTL DEF Spec

(* No C local that a verified function reads has lost its object to a       *)
(* collection, wherever gc_malloc collects and however long the lists, the  *)
(* tables and the stack are: the SGC_ROOTn of sobj.c and its callers are    *)
(* enough.                                                                  *)
THEOREM LocalsAlive == Spec /\ []CallsVerified => []OperandsAlive
<1>1. ASSUME IInv PROVE OperandsAlive
  <2>1. ASSUME pc \in DOMAIN code, NEW x \in Operands(step)
        PROVE  local[x] \notin freed
    BY <1>1, <2>1, StepFacts, Current DEF LiveTrue
  <2>2. QED
    BY <2>1 DEF OperandsAlive
<1>2. QED
  BY <1>1, FactsHold, PTL

(* Neither a slot nor an object that is still allocated ever refers to one  *)
(* that gc_collect has freed.                                               *)
THEOREM NothingDangles == Spec /\ []CallsVerified => []NoDangling
<1>1. IInv => NoDangling
  BY DEF IInv
<1>2. QED
  BY <1>1, FactsHold, PTL

(* The visitor of a vector follows what malloc left in one at an allocation *)
(* of dict_rehash only: every other object has all its fields when the next *)
(* collection starts.                                                       *)
THEOREM OnlyRehashIsWild == Spec /\ []CallsVerified => []WildOnlyInRehash
<1>1. ASSUME IInv PROVE WildOnlyInRehash
  <2>1. ASSUME wild
        PROVE  step.do = "new" /\ step.dst = "target_vec"
    <3>1. pc \in DOMAIN code /\ step.do = "new" /\ Known[fn][pc].unset # {}
      BY <1>1, <2>1 DEF IInv, WildOK
    <3>2. QED
      BY <1>1, <3>1, StepFacts DEF Allows
  <2>2. QED
    BY <2>1 DEF WildOnlyInRehash
<1>2. QED
  BY <1>1, FactsHold, PTL
=============================================================================
