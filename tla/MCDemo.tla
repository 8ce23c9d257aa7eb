------------------------------- MODULE MCDemo -------------------------------
EXTENDS Demo

\* A hash without collisions: the slot of a pointer is the pointer.
MCHash == [p \in Pointer |-> p]
=============================================================================
