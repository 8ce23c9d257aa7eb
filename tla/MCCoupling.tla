----------------------------- MODULE MCCoupling -----------------------------
EXTENDS Coupling, Common, TLC

\* A hash without collisions: the slot of a pointer is the pointer.
MCHash == [p \in Pointer |-> p]

\* The hash of common.h, for nodes that are addresses.
AddressHash == [p \in Pointer |-> hash(p)]

\* Threads and node addresses are interchangeable.
Symmetry == Permutations(Thread) \cup Permutations(Node)
=============================================================================
