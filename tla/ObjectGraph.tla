---------------------------- MODULE ObjectGraph ----------------------------
(* The object graph the collector works on: edges is a function from the    *)
(* heap addresses to the set of addresses an object points at, the way the  *)
(* gc visitors of sobj.c enumerate them.  Reachability is stated as the     *)
(* least closed set, so that it can be reasoned about without induction.    *)

\* No edge leaves S.
Closed(edges, S) == \A a \in S : edges[a] \subseteq S

\* The addresses that can be reached from R along edges.
Reach(edges, R) ==
  { a \in DOMAIN edges :
      \A S \in SUBSET DOMAIN edges :
         R \subseteq S /\ Closed(edges, S) => a \in S }

\* The well-formed graphs over a set of addresses.
Graph(Addr) == [Addr -> SUBSET Addr]
=============================================================================
