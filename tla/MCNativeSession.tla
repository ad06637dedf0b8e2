---------------------------- MODULE MCNativeSession ----------------------------
EXTENDS NativeSession, TLC

Symmetry == Permutations(Sessions) \cup Permutations(Requests)
================================================================================
