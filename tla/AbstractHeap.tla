---------------------------- MODULE AbstractHeap ----------------------------
(* What the memory manager promises to the interpreter: a heap in which the *)
(* program moves along pointers, allocates and overwrites, and in which the *)
(* only thing that ever takes an object away is a collection that keeps     *)
(* exactly what the program can still reach.  There are no marks, no sweep, *)
(* no threshold and no shadow stack here.                                   *)
EXTENDS ObjectGraph

CONSTANT Addr          \* heap addresses

VARIABLES live,        \* the allocated objects
          edges,       \* edges[a]: the objects that a points at
          roots        \* the objects the program holds directly

vars == <<live, edges, roots>>

Init == /\ live = {}
        /\ edges = [a \in Addr |-> {}]
        /\ roots = {}

\* A constructor returns a fresh object made of objects the caller holds.
Alloc ==
  \E a \in Addr \ live, kept \in SUBSET roots, children \in SUBSET roots :
    /\ live' = live \cup {a}
    /\ edges' = [edges EXCEPT ![a] = children]
    /\ roots' = kept \cup {a}

\* A field of an object the program holds is overwritten.
Store ==
  /\ \E a \in roots : \E children \in SUBSET (edges[a] \cup roots) :
       edges' = [edges EXCEPT ![a] = children]
  /\ UNCHANGED <<live, roots>>

\* The program forgets objects, or follows pointers to others.
Move ==
  /\ roots' \in SUBSET Reach(edges, roots)
  /\ UNCHANGED <<live, edges>>

\* A collection: exactly the reachable objects survive, unchanged.
Collect ==
  /\ live' = Reach(edges, roots)
  /\ edges' = [a \in Addr |-> IF a \in live' THEN edges[a] ELSE {}]
  /\ UNCHANGED roots

\* The program ends and everything is given back.
Shutdown ==
  /\ live' = {}
  /\ edges' = [a \in Addr |-> {}]
  /\ roots' = {}

Next == Alloc \/ Store \/ Move \/ Collect \/ Shutdown

Spec == Init /\ [][Next]_vars

-----------------------------------------------------------------------------
TypeOK == /\ live \in SUBSET Addr
          /\ edges \in Graph(Addr)
          /\ roots \in SUBSET Addr

(* The promise: whatever the program can reach by following pointers from   *)
(* what it holds is allocated; it never touches freed memory.               *)
NoDangling == Reach(edges, roots) \subseteq live
=============================================================================
