------------------------------- MODULE MCDict -------------------------------
EXTENDS Dict

CONSTANTS k1, k2, k3, k4, k5

\* Two pairs of keys that collide in tables of 2 and 1, one of them in
\* tables of 4 too; a negative hash is a long reinterpreted as size_t.
Hashes == k1 :> 0 @@ k2 :> 4 @@ k3 :> -1 @@ k4 :> 1 @@ k5 :> 6
MCHash == [k \in Key |-> Hashes[k]]

Symmetry == Permutations(Entry)
=============================================================================
