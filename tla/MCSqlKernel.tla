---------------------------- MODULE MCSqlKernel ----------------------------
EXTENDS SqlKernel, TLC

Symmetry == Permutations(Controllers)
=============================================================================
