------------------------------ MODULE SpinLock ------------------------------
(***************************************************************************)
(* One lock of threads.c, on the atomics of SC_atomics.c, used by any      *)
(* number of threads.  Module Template takes an acquire for one step that  *)
(* finds the lock free; here the loop is spelled out, with the iterations  *)
(* whose compare-and-swap fails and writes what it found into expected.    *)
(***************************************************************************)
EXTENDS Integers

CONSTANTS Thread, maker   \* the thread that calls makelock

ASSUME MakerAssumption == maker \in Thread

VARIABLES
    word,      \* the int of the atom_int
    pc,        \* per thread, where it is: in acquire, or "idle" or "holding"
    expected,  \* per thread, acquire's local
    b          \* per thread, acquire's local

lockVars == <<word, pc, expected, b>>

Goto(t, label) == pc' = [pc EXCEPT ![t] = label]

\* make_atomic(1): who makes the lock holds it.
Init ==
    /\ word = 1
    /\ pc = [t \in Thread |-> IF t = maker THEN "holding" ELSE "idle"]
    /\ expected = [t \in Thread |-> 0]
    /\ b = [t \in Thread |-> 0]

\* acquire is called: int b = 0.
Enter(t) ==
    /\ pc[t] = "idle"
    /\ b' = [b EXCEPT ![t] = 0]
    /\ Goto(t, "reset")
    /\ UNCHANGED <<word, expected>>

\* A mutant: expected keeps what the failing compare-and-swap wrote.
Reset_Forgotten(t) ==
    /\ pc[t] = "reset"
    /\ Goto(t, "cas")
    /\ UNCHANGED <<word, expected, b>>

\* expected = 0.
Reset(t) ==
    /\ pc[t] = "reset"
    /\ expected' = [expected EXCEPT ![t] = 0]
    /\ Goto(t, "cas")
    /\ UNCHANGED <<word, b>>

\* Two mutants: the store is a step after the comparison; the result of the
\* compare-and-swap is not kept in b.
Swap_Torn(t) ==
    \/ /\ pc[t] = "cas"
       /\ word = expected[t]
       /\ Goto(t, "store")
       /\ UNCHANGED <<word, expected, b>>
    \/ /\ pc[t] = "store"
       /\ word' = 1
       /\ b' = [b EXCEPT ![t] = 1]
       /\ Goto(t, "test")
       /\ UNCHANGED expected

Swap_NoResult(t) ==
    /\ pc[t] = "cas"
    /\ word = expected[t]
    /\ word' = 1
    /\ Goto(t, "test")
    /\ UNCHANGED <<expected, b>>

\* b = atom_CAS(lock, &expected, 1), when it succeeds and when it fails.
Swap(t) ==
    /\ pc[t] = "cas"
    /\ word = expected[t]
    /\ word' = 1
    /\ b' = [b EXCEPT ![t] = 1]
    /\ Goto(t, "test")
    /\ UNCHANGED expected

SwapFails(t) ==
    /\ pc[t] = "cas"
    /\ word # expected[t]
    /\ expected' = [expected EXCEPT ![t] = word]
    /\ b' = [b EXCEPT ![t] = 0]
    /\ Goto(t, "test")
    /\ UNCHANGED word

\* while (b == 0).
Test(t) ==
    /\ pc[t] = "test"
    /\ Goto(t, IF b[t] = 0 THEN "reset" ELSE "holding")
    /\ UNCHANGED <<word, expected, b>>

acquire(t) == Reset(t) \/ Swap(t) \/ SwapFails(t) \/ Test(t)

\* atom_store(lock, 0), by the thread that holds the lock.
release(t) ==
    /\ pc[t] = "holding"
    /\ word' = 0
    /\ Goto(t, "idle")
    /\ UNCHANGED <<expected, b>>

Next == \E t \in Thread : Enter(t) \/ acquire(t) \/ release(t)

Spec == Init /\ [][Next]_lockVars

\* A thread in acquire is scheduled again and again; when it calls, and when
\* it releases, is its own business.
FairSpec == Spec /\ \A t \in Thread : WF_lockVars(acquire(t))

----------------------------------------------------------------------------
(* Properties                                                              *)

Phase(t) ==
    CASE pc[t] = "idle" -> "idle"
      [] pc[t] = "holding" \/ (pc[t] = "test" /\ b[t] = 1) -> "holding"
      [] OTHER -> "acquiring"

Abstract == INSTANCE AtomicLock WITH phase <- [t \in Thread |-> Phase(t)]

\* The loop of acquire is an atomic acquire, as module Template takes it to
\* be: whatever a failing iteration leaves behind, a thread gets past the
\* loop only by turning a word that was 0 into 1.
AtomicAcquire == Abstract!Spec

\* The lock keeps threads out: two threads never hold it, and it is taken
\* just as long as one of them does.
Exclusive ==
    /\ \A t, u \in Thread : Phase(t) = "holding" /\ Phase(u) = "holding" => t = u
    /\ word = 1 <=> \E t \in Thread : Phase(t) = "holding"

\* A free lock that threads spin on is acquired by one of them; by which is
\* left to chance.
Acquired ==
    (word = 0 /\ \E t \in Thread : Phase(t) = "acquiring")
        ~> (\E t \in Thread : pc[t] = "holding")
=============================================================================
