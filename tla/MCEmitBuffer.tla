---------------------------- MODULE MCEmitBuffer ----------------------------
EXTENDS EmitBuffer, TLC

Symmetry == Permutations(Emitters) \cup Permutations(Buffers)
=============================================================================
