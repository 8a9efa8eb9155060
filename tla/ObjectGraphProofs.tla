------------------------- MODULE ObjectGraphProofs -------------------------
(* Facts about reachability, for every graph.                               *)
EXTENDS ObjectGraph, TLAPS

(* What R reaches contains R, is closed, and is the least such set.         *)
LEMMA ReachLeast ==
  ASSUME NEW A, NEW E \in Graph(A), NEW R \in SUBSET A
  PROVE  /\ R \subseteq Reach(E, R)
         /\ Closed(E, Reach(E, R))
         /\ Reach(E, R) \subseteq A
         /\ \A S \in SUBSET A : R \subseteq S /\ Closed(E, S) => Reach(E, R) \subseteq S
<1>1. DOMAIN E = A
  BY DEF Graph
<1>2. Closed(E, Reach(E, R))
  <2> SUFFICES ASSUME NEW a \in Reach(E, R), NEW b \in E[a] PROVE b \in Reach(E, R)
    BY DEF Closed
  <2>1. a \in A /\ b \in A
    BY <1>1 DEF Reach, Graph
  <2>2. ASSUME NEW S \in SUBSET A, R \subseteq S, Closed(E, S) PROVE b \in S
    <3>1. a \in S
      BY <1>1, <2>2 DEF Reach
    <3>2. QED
      BY <3>1, <2>2 DEF Closed
  <2>3. QED
    BY <1>1, <2>1, <2>2 DEF Reach
<1>3. QED
  BY <1>1, <1>2 DEF Reach

(* Two graphs that agree on a set which holds the roots and is closed reach *)
(* the same.                                                                *)
LEMMA ReachSame ==
  ASSUME NEW A, NEW E \in Graph(A), NEW F \in Graph(A),
         NEW R \in SUBSET A, NEW S \in SUBSET A,
         R \subseteq S, Closed(E, S), \A a \in S : F[a] = E[a]
  PROVE  Reach(F, R) = Reach(E, R)
<1>1. Closed(F, S)
  BY DEF Closed
<1>2. Reach(E, R) \subseteq S /\ Reach(F, R) \subseteq S
  BY <1>1, ReachLeast
<1>3. Closed(F, Reach(E, R)) /\ Closed(E, Reach(F, R))
  <2>1. Closed(E, Reach(E, R)) /\ Closed(F, Reach(F, R))
    BY ReachLeast
  <2>2. QED
    BY <1>2, <2>1 DEF Closed
<1>4. R \subseteq Reach(E, R) /\ R \subseteq Reach(F, R)
  BY ReachLeast
<1>5. Reach(E, R) \in SUBSET A /\ Reach(F, R) \in SUBSET A
  BY ReachLeast
<1>6. Reach(F, R) \subseteq Reach(E, R)
  BY <1>3, <1>4, <1>5, ReachLeast
<1>7. Reach(E, R) \subseteq Reach(F, R)
  BY <1>3, <1>4, <1>5, ReachLeast
<1>8. QED
  BY <1>6, <1>7
=============================================================================
