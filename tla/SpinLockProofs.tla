--------------------------- MODULE SpinLockProofs ---------------------------
(***************************************************************************)
(* The spin lock of threads.c implements the atomic lock, for any set of   *)
(* threads.                                                                *)
(***************************************************************************)
EXTENDS SpinLock, TLAPS

TypeInv ==
    /\ word \in {0, 1}
    /\ pc \in [Thread -> {"idle", "reset", "cas", "test", "holding"}]
    /\ expected \in [Thread -> {0, 1}]
    /\ b \in [Thread -> {0, 1}]

\* Each iteration compares the word with 0, and b is 1 only behind a
\* compare-and-swap that succeeded.
LoopInv ==
    \A t \in Thread :
        /\ pc[t] = "cas" => expected[t] = 0
        /\ pc[t] \in {"reset", "cas"} => b[t] = 0

IInv == TypeInv /\ LoopInv /\ Exclusive

\* The phase of every thread but t is what it was.
LEMMA OthersLemma ==
    ASSUME NEW t \in Thread,
           \A u \in Thread \ {t} : pc'[u] = pc[u] /\ b'[u] = b[u]
    PROVE  \A u \in Thread \ {t} : Phase(u)' = Phase(u)
BY DEF Phase

\* A step of thread t, as the atomic lock sees it.
LEMMA StepLemma ==
    ASSUME IInv, NEW t \in Thread, Enter(t) \/ acquire(t) \/ release(t)
    PROVE  /\ TypeInv' /\ LoopInv'
           /\ \A u \in Thread \ {t} : Phase(u)' = Phase(u)
           /\ \/ word' = word /\ Phase(t)' = Phase(t)
              \/ /\ word' = word
                 /\ Phase(t) = "idle" /\ Phase(t)' = "acquiring"
              \/ /\ word = 0 /\ word' = 1
                 /\ Phase(t) = "acquiring" /\ Phase(t)' = "holding"
              \/ /\ word' = 0
                 /\ Phase(t) = "holding" /\ Phase(t)' = "idle"
<1>. USE DEF IInv, TypeInv, LoopInv, Goto
<1>1. CASE Enter(t)
  <2>1. \A u \in Thread \ {t} : Phase(u)' = Phase(u)
    BY <1>1, OthersLemma DEF Enter
  <2>2. TypeInv' /\ LoopInv'
    BY <1>1 DEF Enter
  <2>3. pc[t] = "idle" /\ pc'[t] = "reset"
    BY <1>1 DEF Enter
  <2>4. Phase(t) = "idle" /\ Phase(t)' = "acquiring"
    BY <2>3 DEF Phase
  <2>. QED
    BY <1>1, <2>1, <2>2, <2>4 DEF Enter
<1>2. CASE Reset(t)
  <2>1. \A u \in Thread \ {t} : Phase(u)' = Phase(u)
    BY <1>2, OthersLemma DEF Reset
  <2>2. TypeInv' /\ LoopInv'
    BY <1>2 DEF Reset
  <2>3. pc[t] = "reset" /\ pc'[t] = "cas"
    BY <1>2 DEF Reset
  <2>4. Phase(t) = "acquiring" /\ Phase(t)' = "acquiring"
    BY <2>3 DEF Phase
  <2>. QED
    BY <1>2, <2>1, <2>2, <2>4 DEF Reset
<1>3. CASE Swap(t)
  <2>1. \A u \in Thread \ {t} : Phase(u)' = Phase(u)
    BY <1>3, OthersLemma DEF Swap
  <2>2. TypeInv' /\ LoopInv'
    BY <1>3 DEF Swap
  <2>3. pc[t] = "cas" /\ pc'[t] = "test" /\ b'[t] = 1
    BY <1>3 DEF Swap
  <2>4. Phase(t) = "acquiring" /\ Phase(t)' = "holding"
    BY <2>3 DEF Phase
  <2>. QED
    BY <1>3, <2>1, <2>2, <2>4 DEF Swap
<1>4. CASE SwapFails(t)
  <2>1. \A u \in Thread \ {t} : Phase(u)' = Phase(u)
    BY <1>4, OthersLemma DEF SwapFails
  <2>2. TypeInv' /\ LoopInv'
    BY <1>4 DEF SwapFails
  <2>3. pc[t] = "cas" /\ pc'[t] = "test" /\ b'[t] = 0
    BY <1>4 DEF SwapFails
  <2>4. Phase(t) = "acquiring" /\ Phase(t)' = "acquiring"
    BY <2>3 DEF Phase
  <2>. QED
    BY <1>4, <2>1, <2>2, <2>4 DEF SwapFails
<1>5. CASE Test(t)
  <2>1. \A u \in Thread \ {t} : Phase(u)' = Phase(u)
    BY <1>5, OthersLemma DEF Test
  <2>2. TypeInv' /\ LoopInv'
    BY <1>5 DEF Test
  <2>3. /\ pc[t] = "test" /\ b'[t] = b[t] /\ b[t] \in {0, 1}
        /\ pc'[t] = IF b[t] = 0 THEN "reset" ELSE "holding"
    BY <1>5 DEF Test
  <2>4. Phase(t)' = Phase(t)
    BY <2>3 DEF Phase
  <2>. QED
    BY <1>5, <2>1, <2>2, <2>4 DEF Test
<1>6. CASE release(t)
  <2>1. \A u \in Thread \ {t} : Phase(u)' = Phase(u)
    BY <1>6, OthersLemma DEF release
  <2>2. TypeInv' /\ LoopInv'
    BY <1>6 DEF release
  <2>3. pc[t] = "holding" /\ pc'[t] = "idle"
    BY <1>6 DEF release
  <2>4. Phase(t) = "holding" /\ Phase(t)' = "idle"
    BY <2>3 DEF Phase
  <2>. QED
    BY <1>6, <2>1, <2>2, <2>4 DEF release
<1>. QED
  BY <1>1, <1>2, <1>3, <1>4, <1>5, <1>6 DEF acquire

LEMMA InitLemma == Init => IInv /\ Abstract!makelock
<1>. SUFFICES ASSUME Init PROVE IInv /\ Abstract!makelock
  OBVIOUS
<1>1. \A t \in Thread : Phase(t) = IF t = maker THEN "holding" ELSE "idle"
  BY DEF Init, Phase
<1>2. IInv
  BY <1>1, MakerAssumption DEF Init, IInv, TypeInv, LoopInv, Exclusive
<1>3. Abstract!makelock
  BY <1>1 DEF Init, Abstract!makelock
<1>. QED
  BY <1>2, <1>3

LEMMA NextLemma == IInv /\ [Next]_lockVars => IInv'
<1>. SUFFICES ASSUME IInv, [Next]_lockVars PROVE IInv'
  OBVIOUS
<1>1. CASE UNCHANGED lockVars
  <2>1. \A t \in Thread : Phase(t)' = Phase(t)
    BY <1>1 DEF lockVars, Phase
  <2>. QED
    BY <1>1, <2>1 DEF lockVars, IInv, TypeInv, LoopInv, Exclusive
<1>2. CASE Next
  <2>1. PICK t \in Thread : Enter(t) \/ acquire(t) \/ release(t)
    BY <1>2 DEF Next
  <2>2. /\ TypeInv' /\ LoopInv'
        /\ \A u \in Thread \ {t} : Phase(u)' = Phase(u)
        /\ \/ word' = word /\ Phase(t)' = Phase(t)
           \/ /\ word' = word
              /\ Phase(t) = "idle" /\ Phase(t)' = "acquiring"
           \/ /\ word = 0 /\ word' = 1
              /\ Phase(t) = "acquiring" /\ Phase(t)' = "holding"
           \/ /\ word' = 0
              /\ Phase(t) = "holding" /\ Phase(t)' = "idle"
    BY <2>1, StepLemma
  <2>3. Exclusive'
    BY <2>2 DEF IInv, Exclusive
  <2>. QED
    BY <2>2, <2>3 DEF IInv
<1>. QED
  BY <1>1, <1>2

\* A step of threads.c is a step of the atomic lock or leaves it alone.
LEMMA RefineLemma ==
    IInv /\ [Next]_lockVars => [Abstract!Next]_(Abstract!lockVars)
<1>. DEFINE ph == [u \in Thread |-> Phase(u)]
<1>. SUFFICES ASSUME IInv, [Next]_lockVars
              PROVE  Abstract!Next \/ UNCHANGED <<word, ph>>
  BY DEF Abstract!lockVars
<1>1. CASE UNCHANGED lockVars
  BY <1>1 DEF lockVars, Phase
<1>2. CASE Next
  <2>1. PICK t \in Thread : Enter(t) \/ acquire(t) \/ release(t)
    BY <1>2 DEF Next
  <2>2. /\ \A u \in Thread \ {t} : Phase(u)' = Phase(u)
        /\ \/ word' = word /\ Phase(t)' = Phase(t)
           \/ /\ word' = word
              /\ Phase(t) = "idle" /\ Phase(t)' = "acquiring"
           \/ /\ word = 0 /\ word' = 1
              /\ Phase(t) = "acquiring" /\ Phase(t)' = "holding"
           \/ /\ word' = 0
              /\ Phase(t) = "holding" /\ Phase(t)' = "idle"
    BY <2>1, StepLemma
  <2>3. ph' = [ph EXCEPT ![t] = Phase(t)'] /\ ph[t] = Phase(t)
    BY <2>2
  <2>4. Phase(t) = "holding" => word = 1
    BY DEF IInv, Exclusive
  <2>. HIDE DEF ph
  <2>5. CASE word' = word /\ Phase(t)' = Phase(t)
    BY <2>2, <2>5 DEF ph
  <2>6. CASE word' = word /\ Phase(t) = "idle" /\ Phase(t)' = "acquiring"
    <3>1. Abstract!CallAcquire(t)
      BY <2>3, <2>6 DEF Abstract!CallAcquire, ph
    <3>. QED
      BY <3>1 DEF Abstract!Next
  <2>7. CASE /\ word = 0 /\ word' = 1
             /\ Phase(t) = "acquiring" /\ Phase(t)' = "holding"
    <3>1. Abstract!Acquire(t)
      BY <2>3, <2>7 DEF Abstract!Acquire, ph
    <3>. QED
      BY <3>1 DEF Abstract!Next
  <2>8. CASE word' = 0 /\ Phase(t) = "holding" /\ Phase(t)' = "idle"
    <3>1. Abstract!Release(t)
      BY <2>3, <2>4, <2>8 DEF Abstract!Release, ph
    <3>. QED
      BY <3>1 DEF Abstract!Next
  <2>. QED
    BY <2>2, <2>5, <2>6, <2>7, <2>8
<1>. QED
  BY <1>1, <1>2

LEMMA IInvLemma == Spec => []IInv
<1>1. Init => IInv
  BY InitLemma
<1>2. IInv /\ [Next]_lockVars => IInv'
  BY NextLemma
<1>. QED
  BY <1>1, <1>2, PTL DEF Spec

\* Two threads never hold a lock of threads.c, and its word says whether one
\* does, for any number of threads that spin on it.
THEOREM LockExcludes == Spec => []Exclusive
<1>1. IInv => Exclusive
  BY DEF IInv
<1>. QED
  BY <1>1, IInvLemma, PTL

\* The loop of acquire in threads.c does what acquire_spec says, and so
\* module Template may take an acquire for one step.
THEOREM AcquireIsAtomic == Spec => AtomicAcquire
<1>1. Init => Abstract!makelock
  BY InitLemma
<1>2. IInv /\ [Next]_lockVars => [Abstract!Next]_(Abstract!lockVars)
  BY RefineLemma
<1>. QED
  BY <1>1, <1>2, IInvLemma, PTL DEF Spec, AtomicAcquire, Abstract!Spec
=============================================================================
