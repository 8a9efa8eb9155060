------------------------- MODULE AbstractHeapProofs -------------------------
(* The abstract heap keeps its own promise, for every set of addresses.     *)
EXTENDS AbstractHeap, ObjectGraphProofs

\* Nothing that is live points at what is not.
Inv == TypeOK /\ roots \subseteq live /\ Closed(edges, live)

(* The invariant holds of the empty heap.                                   *)
LEMMA InvInit == Init => Inv
  BY DEF Init, Inv, TypeOK, Closed, Graph

(* No abstract operation lets the program reach what is not allocated.      *)
LEMMA InvStep ==
  ASSUME Inv, [Next]_vars
  PROVE  Inv'
<1>1. live \in SUBSET Addr /\ edges \in [Addr -> SUBSET Addr] /\ roots \in SUBSET Addr
  BY DEF Inv, TypeOK, Graph
<1>2. /\ roots \subseteq Reach(edges, roots)
      /\ Closed(edges, Reach(edges, roots))
      /\ Reach(edges, roots) \subseteq live
  BY <1>1, ReachLeast DEF Inv, TypeOK
<1>3. CASE Alloc
  <2>1. PICK a \in Addr \ live, kept \in SUBSET roots, children \in SUBSET roots :
          /\ live' = live \cup {a}
          /\ edges' = [edges EXCEPT ![a] = children]
          /\ roots' = kept \cup {a}
    BY <1>3 DEF Alloc
  <2>2. TypeOK'
    BY <1>1, <2>1 DEF TypeOK, Graph
  <2>3. Closed(edges', live')
    BY <1>1, <2>1 DEF Inv, Closed
  <2>4. QED
    BY <2>1, <2>2, <2>3 DEF Inv
<1>4. CASE Store
  <2>1. PICK a \in roots : \E children \in SUBSET (edges[a] \cup roots) :
          edges' = [edges EXCEPT ![a] = children]
    BY <1>4 DEF Store
  <2>2. PICK children \in SUBSET (edges[a] \cup roots) : edges' = [edges EXCEPT ![a] = children]
    BY <2>1
  <2>3. children \subseteq live
    BY <1>1, <2>2 DEF Inv, Closed
  <2>4. TypeOK'
    BY <1>1, <1>4, <2>2 DEF Store, TypeOK, Graph
  <2>5. Closed(edges', live)
    BY <1>1, <2>2, <2>3 DEF Inv, Closed
  <2>6. QED
    BY <1>4, <2>4, <2>5 DEF Store, Inv
<1>5. CASE Move
  BY <1>1, <1>2, <1>5 DEF Move, Inv, TypeOK, Graph
<1>6. CASE Collect
  <2>1. live' = Reach(edges, roots) /\ roots' = roots
        /\ edges' = [a \in Addr |-> IF a \in live' THEN edges[a] ELSE {}]
    BY <1>6 DEF Collect
  <2>2. TypeOK'
    BY <1>1, <1>2, <2>1 DEF TypeOK, Graph
  <2>3. Closed(edges', live')
    BY <1>1, <1>2, <2>1 DEF Closed
  <2>4. QED
    BY <1>2, <2>1, <2>2, <2>3 DEF Inv
<1>7. CASE Shutdown
  BY <1>7 DEF Shutdown, Inv, TypeOK, Closed, Graph
<1>8. CASE UNCHANGED vars
  BY <1>8 DEF vars, Inv, TypeOK
<1>9. QED
  BY <1>3, <1>4, <1>5, <1>6, <1>7, <1>8 DEF Next

(* The program never holds, and never reaches, an object that has been      *)
(* taken away: what any implementation of the abstract heap inherits.       *)
THEOREM HeapSafety == Spec => []NoDangling
<1>1. Inv => NoDangling
  BY ReachLeast DEF Inv, TypeOK, NoDangling
<1>2. QED
  BY <1>1, InvInit, InvStep, PTL DEF Spec
=============================================================================
