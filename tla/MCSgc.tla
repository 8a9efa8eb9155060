------------------------------- MODULE MCSgc -------------------------------
EXTENDS Sgc, TLC

\* Sizes in units of 16 bytes, header included, rounded up.
MCObSize == [type \in ObType |->
               CASE type = "pair" -> 2
                 [] type = "closure" -> 3
                 [] type = "vector" -> 2 + VectorLength
                 [] OTHER -> 1]

Symmetry == Permutations(Addr)
=============================================================================
