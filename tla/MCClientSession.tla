---------------------------- MODULE MCClientSession ----------------------------
EXTENDS ClientSession, TLC

Symmetry == Permutations(Requests)
================================================================================
