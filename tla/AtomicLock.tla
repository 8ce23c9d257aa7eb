----------------------------- MODULE AtomicLock -----------------------------
(***************************************************************************)
(* What verif_lock_atomic.v promises of the locks of threads.c: makelock   *)
(* makes the word 1; acquire, at one point between its call and its        *)
(* return, finds the word 0 and makes it 1; release, given that the word   *)
(* is 1, makes it 0.  The clients are those that release what they have    *)
(* acquired.                                                               *)
(***************************************************************************)
EXTENDS Integers

CONSTANTS Thread, maker   \* the thread that calls makelock

VARIABLES word,   \* the int of the atom_int
          phase   \* per thread, "idle", "acquiring" or "holding"

lockVars == <<word, phase>>

makelock ==
    /\ word = 1
    /\ phase = [t \in Thread |-> IF t = maker THEN "holding" ELSE "idle"]

\* acquire is called.
CallAcquire(t) ==
    /\ phase[t] = "idle"
    /\ phase' = [phase EXCEPT ![t] = "acquiring"]
    /\ UNCHANGED word

Acquire(t) ==
    /\ phase[t] = "acquiring"
    /\ word = 0
    /\ word' = 1
    /\ phase' = [phase EXCEPT ![t] = "holding"]

Release(t) ==
    /\ phase[t] = "holding"
    /\ word = 1
    /\ word' = 0
    /\ phase' = [phase EXCEPT ![t] = "idle"]

Next == \E t \in Thread : CallAcquire(t) \/ Acquire(t) \/ Release(t)

Spec == makelock /\ [][Next]_lockVars
=============================================================================
