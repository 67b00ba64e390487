---------------------------- MODULE MCRetryQueue ----------------------------
EXTENDS RetryQueue, TLC

SameSignature == [s \in Sources |-> "x"]
Symmetry == Permutations(Processes)
=============================================================================
