------------------------------- MODULE Common -------------------------------
(***************************************************************************)
(* common.h: the index at which a template keeps the metadata of a node in *)
(* its table.                                                              *)
(***************************************************************************)
EXTENDS Integers

TABLE_SIZE == 16384
Multiplier == 654435761

\* hash(p), p being an address and 0 the null pointer.  The 64 bits that
\* p * Multiplier is computed in end at a multiple of TABLE_SIZE, so only the
\* factors' remainders matter (and their product fits an int of TLC).
hash(p) ==
    IF p = 0 THEN 0
    ELSE ((p % TABLE_SIZE) * (Multiplier % TABLE_SIZE)) % TABLE_SIZE
=============================================================================
