-------------------------- MODULE MCMemoryMaintenance --------------------------
EXTENDS MemoryMaintenance

\* A memory of a registered agent and one of an agent id nobody registered.
MCOwner == [i1 |-> "a", i2 |-> "o"]
================================================================================
