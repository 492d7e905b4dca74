------------------------------ MODULE MCSioHub ------------------------------
EXTENDS SioHub, TLC
Symmetry == Permutations(Sockets) \cup Permutations(Handlers)
            \cup Permutations(Stoppers)
=============================================================================
