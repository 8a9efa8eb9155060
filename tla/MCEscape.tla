------------------------------ MODULE MCEscape ------------------------------
EXTENDS Escape

Symmetry == Permutations(Cont) \cup Permutations(Val)
=============================================================================
