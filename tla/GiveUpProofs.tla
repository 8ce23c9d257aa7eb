---------------------------- MODULE GiveUpProofs ----------------------------
(***************************************************************************)
(* The give-up template for any number of threads, nodes and keys: mutual  *)
(* exclusion; that the nodes a thread can come to, those it starts again   *)
(* from included, have their md_entry; that the ranges are right and let a *)
(* traversal give up for the keys INT_MIN and INT_MAX only; that searches  *)
(* end where they should; and that calls are atomic.                       *)
(***************************************************************************)
EXTENDS GiveUp, LockTableProofs

\* The node to start again from has its md_entry, and the range that is
\* compared with the key is that of the node in use.
LoopInv(t) ==
    /\ Ready(start[t])
    /\ pc[t] \in {"node", "find"} => start[t] # NULL
    /\ pc[t] = "find" => md[t] = pn[t].n

GInv == IInv /\ GiveUpTypeOK /\ \A t \in Thread : LoopInv(t)

----------------------------------------------------------------------------
(* The steps that are coupling.c's as well.                                *)

Shared(t) ==
    \/ Begin(t) \/ GetRootAcquire(t) \/ GetRootRead(t)
    \/ TraverseAcquire(t) \/ TraverseEmpty(t) \/ TraverseStart(t) \/ AcquireNode(t)
    \/ InsertReplace(t) \/ InsertNode(t) \/ InsertMetadata(t) \/ ReleaseNew(t)
    \/ LookupValue(t) \/ ReleaseP(t) \/ End(t)

SharedStep(t) ==
    \/ Enter(t) \/ GetRoot(t) \/ StartTraverse(t) \/ LoopAcquire(t)
    \/ InsertHelper(t) \/ LookupHelper(t) \/ Leave(t)

LEMMA SharedLemma ==
    ASSUME IInv, NEW t \in Thread, Shared(t)
    PROVE  IInv'
BY GiveUpHashAssumption, BeginLemma, GetRootAcquireLemma, AcquireNLemma,
   ReleaseNLemma, TraverseEmptyLemma, InsertReplaceStepLemma, InsertNodeStepLemma,
   InsertMetadataLemma, ReleaseNewLemma, LookupValueLemma, ReleasePLemma, EndLemma
DEF Shared

\* No md_entry is lost.
LEMMA GrowLemma ==
    ASSUME IInv, NEW t \in Thread, Shared(t), NEW p \in Pointer, Ready(p)
    PROVE  Ready(p)'
<1>1. CASE metadata' = metadata
  BY <1>1 DEF Ready, lookup_md
<1>2. CASE InsertMetadata(t)
  <2>1. /\ metadata' = [metadata EXCEPT ![Hash[new[t]]] = new[t]]
        /\ new[t] \in Pointer
    BY <1>2 DEF InsertMetadata, IInv, TypeOK
  <2>. QED
    BY <2>1, GiveUpHashAssumption
    DEF HashInjective, Ready, lookup_md, IInv, TypeOK, Index
<1>. QED
  BY <1>1, <1>2
  DEF Shared, Begin, GetRootAcquire, GetRootRead, TraverseAcquire, TraverseEmpty,
      TraverseStart, AcquireNode, InsertReplace, InsertNode, ReleaseNew, LookupValue,
      ReleaseP, End

\* What such a step leaves as it is, and where it leads to the loop.
LEMMA SharedMoves ==
    ASSUME IInv, NEW t \in Thread, Shared(t)
    PROVE  /\ \A u \in Thread \ {t} :
                 pc'[u] = pc[u] /\ md'[u] = md[u] /\ pn'[u] = pn[u]
           /\ pc'[t] = "node" => TraverseStart(t)
           /\ pc'[t] = "find" =>
                 pc[t] = "node" /\ md'[t] = md[t] /\ pn'[t] = pn[t]
<1>. USE DEF IInv, TypeOK, TemplateTypeOK, Goto, Remember
<1>1. CASE Begin(t) \/ End(t)
  BY <1>1 DEF Begin, Call, End, Return
<1>2. CASE GetRootAcquire(t) \/ GetRootRead(t)
  BY <1>2 DEF GetRootAcquire, GetRootRead
<1>3. CASE TraverseAcquire(t) \/ TraverseStart(t) \/ AcquireNode(t)
  BY <1>3 DEF TraverseAcquire, TraverseStart, AcquireNode
<1>4. CASE TraverseEmpty(t)
  <2>1. req[t].op \in {"insert", "lookup"}
    BY <1>4 DEF TraverseEmpty, ThreadInv, TraversalInv, Request
  <2>. QED
    BY <1>4, <2>1 DEF TraverseEmpty, Helper
<1>5. CASE InsertReplace(t) \/ InsertNode(t) \/ InsertMetadata(t)
  BY <1>5 DEF InsertReplace, InsertNode, InsertMetadata
<1>6. CASE ReleaseNew(t) \/ LookupValue(t) \/ ReleaseP(t)
  BY <1>6 DEF ReleaseNew, LookupValue, ReleaseP
<1>. QED
  BY <1>1, <1>2, <1>3, <1>4, <1>5, <1>6 DEF Shared

\* The range of the new node.
LEMMA NewRangeLemma ==
    ASSUME GInv, NEW t \in Thread, InsertMetadata(t)
    PROVE  NewRange(pn[t].p, req[t].key) \in MdRange
<1>. DEFINE p == pn[t].p
<1>. USE DEF MdRange
<1>1. FullRange \in MdRange
  BY LimitsAssumption DEF FullRange
<1>2. CASE p # NULL
  <2>1. ThreadInv(t) /\ p \in Held(t)
    BY DEF GInv, IInv, TypeOK, TemplateTypeOK, InsertMetadata, Held
  <2>2. p \in DOMAIN heap /\ lookup_md(p) = p /\ p \in Pointer
    BY <1>2, <2>1
    DEF ThreadInv, TraversalInv, HeldInv, Reference, Ready, GInv, IInv, TypeOK,
        TemplateTypeOK
  <2>3. heap[p] \in NodeFields
    BY <2>2 DEF GInv, IInv, TypeOK, TemplateTypeOK, IsHeap
  <2>4. get_key(heap, p) \in INT_MIN .. INT_MAX
    BY <2>3, LimitsAssumption, DSAssumption
    DEF get_key, NodeFields, List!NodeFields, Tree!NodeFields
  <2>5. range[lookup_md(p)] \in MdRange
    BY <2>2 DEF GInv, GiveUpTypeOK
  <2>. QED
    BY <1>2, <2>4, <2>5 DEF NewRange
<1>. QED
  BY <1>1, <1>2 DEF NewRange

LEMMA SharedStepLemma ==
    ASSUME GInv, NEW t \in Thread, SharedStep(t)
    PROVE  GInv'
<1>1. /\ Shared(t)
      /\ \/ range' = range
         \/ /\ InsertMetadata(t)
            /\ range' = [range EXCEPT ![new[t]] = NewRange(pn[t].p, req[t].key)]
      /\ \/ start' = start /\ ~TraverseStart(t)
         \/ TraverseStart(t) /\ start' = [start EXCEPT ![t] = pn'[t].n]
         \/ End(t) /\ start' = [start EXCEPT ![t] = NULL]
  <2>1. TraverseStart(t) => pc[t] = "traverse_start"
    BY DEF TraverseStart
  <2>2. TraverseStart(t) => pc'[t] = "node"
    BY DEF TraverseStart, Goto, GInv, IInv, TypeOK
  <2>3. /\ Begin(t) \/ GetRootAcquire(t) \/ GetRootRead(t) \/ AcquireNode(t)
             \/ InsertReplace(t) \/ InsertNode(t) \/ InsertMetadata(t)
             \/ ReleaseNew(t) \/ LookupValue(t) \/ ReleaseP(t) \/ TraverseAcquire(t)
           => pc[t] # "traverse_start"
    BY DEF Begin, Call, GetRootAcquire, GetRootRead, AcquireNode, InsertReplace,
           InsertNode, InsertMetadata, ReleaseNew, LookupValue, ReleaseP,
           TraverseAcquire
  <2>4. TraverseEmpty(t) => pc'[t] # "node"
    <3>. SUFFICES ASSUME TraverseEmpty(t) PROVE pc'[t] # "node"
      OBVIOUS
    <3>1. req[t].op \in {"insert", "lookup"}
      BY DEF TraverseEmpty, GInv, IInv, ThreadInv, TraversalInv, Request
    <3>. QED
      BY <3>1 DEF TraverseEmpty, Helper, Goto, GInv, IInv, TypeOK
  <2>. QED
    BY <2>1, <2>2, <2>3, <2>4
    DEF SharedStep, Shared, Enter, GetRoot, StartTraverse, LoopAcquire, InsertHelper,
        LookupHelper, Leave
<1>2. IInv'
  BY <1>1, SharedLemma DEF GInv
<1>3. NULL \in Pointer /\ Ready(NULL)'
  BY <1>2 DEF IInv, MetadataInv, Ready, lookup_md, Pointer
<1>4. TraverseStart(t) =>
         pn'[t].n \in Pointer /\ Ready(pn[t].n)' /\ pn'[t].n # NULL
  <2>. SUFFICES ASSUME TraverseStart(t)
                PROVE  pn'[t].n \in Pointer /\ Ready(pn[t].n)' /\ pn'[t].n # NULL
    OBVIOUS
  <2>1. pc'[t] = "node"
    BY DEF TraverseStart, Goto, GInv, IInv, TypeOK
  <2>2. ThreadInv(t)'
    BY <1>2 DEF IInv
  <2>. QED
    BY <2>1, <2>2 DEF ThreadInv, EntryInv, TraversalInv
<1>5. GiveUpTypeOK'
  <2>1. TypeOK'
    BY <1>2 DEF IInv
  <2>2. range' \in [Pointer -> MdRange]
    BY <1>1, NewRangeLemma DEF GInv, GiveUpTypeOK
  <2>3. start' \in [Thread -> Pointer]
    BY <1>1, <1>3, <1>4 DEF GInv, GiveUpTypeOK
  <2>. QED
    BY <2>1, <2>2, <2>3 DEF GiveUpTypeOK
<1>6. \A u \in Thread \ {t} : LoopInv(u)'
  <2>. SUFFICES ASSUME NEW u \in Thread \ {t}
                PROVE  LoopInv(u)'
    OBVIOUS
  <2>1. LoopInv(u) /\ start[u] \in Pointer /\ start'[u] = start[u]
    BY <1>1 DEF GInv, GiveUpTypeOK
  <2>2. PICK q \in Pointer : q = start[u]
    BY <2>1
  <2>3. Ready(q)'
    BY <1>1, <2>1, <2>2, GrowLemma DEF GInv, LoopInv
  <2>4. pc'[u] = pc[u] /\ md'[u] = md[u] /\ pn'[u] = pn[u]
    BY <1>1, SharedMoves DEF GInv
  <2>. QED
    BY <2>1, <2>2, <2>3, <2>4 DEF LoopInv
<1>7. LoopInv(t)'
  <2>1. LoopInv(t) /\ start \in [Thread -> Pointer] /\ start[t] \in Pointer
    BY DEF GInv, GiveUpTypeOK
  <2>2. PICK q \in Pointer : q = start[t]
    BY <2>1
  <2>3. Ready(q)'
    BY <1>1, <2>1, <2>2, GrowLemma DEF GInv, LoopInv
  <2>4. Ready(start[t])'
    BY <1>1, <1>3, <1>4, <2>1, <2>2, <2>3
  <2>5. pc'[t] \in {"node", "find"} => start'[t] # NULL
    <3>1. CASE pc'[t] = "node"
      <4>1. TraverseStart(t) /\ pc[t] = "traverse_start"
        BY <3>1, <1>1, SharedMoves DEF GInv, TraverseStart
      <4>. QED
        BY <4>1, <1>1, <1>4, <2>1 DEF End, Return
    <3>2. CASE pc'[t] = "find"
      <4>1. pc[t] = "node"
        BY <3>2, <1>1, SharedMoves DEF GInv
      <4>. QED
        BY <4>1, <1>1, <1>4, <2>1 DEF LoopInv, End, Return
    <3>. QED
      BY <3>1, <3>2
  <2>6. pc'[t] = "find" => md'[t] = pn'[t].n
    BY <1>1, SharedMoves DEF GInv, IInv, ThreadInv, EntryInv
  <2>. QED
    BY <2>4, <2>5, <2>6 DEF LoopInv
<1>. QED
  BY <1>2, <1>5, <1>6, <1>7 DEF GInv

----------------------------------------------------------------------------
(* The loop of traverse.                                                   *)

\* A step of the loop leaves the range and the start of each thread as they
\* are.
LEMMA LoopLemma ==
    ASSUME GInv, NEW t \in Thread, IInv', Others(t),
           UNCHANGED <<metadata, range, start>>,
           pc'[t] = "node" => start[t] # NULL, pc'[t] # "find"
    PROVE  GInv'
<1>1. \A p : Ready(p) <=> lookup_md(p)' = p
  BY DEF Ready, lookup_md
<1>2. \A u \in Thread : LoopInv(u)'
  BY <1>1 DEF GInv, LoopInv, Others, Ready
<1>3. GiveUpTypeOK'
  BY DEF GInv, GiveUpTypeOK, IInv
<1>. QED
  BY <1>2, <1>3 DEF GInv

LEMMA ArriveLemma ==
    ASSUME GInv, NEW t \in Thread, Arrive(t)
    PROVE  GInv'
<1>. DEFINE p == pn[t].n
            f == findNext(heap, p, p, req[t].key)
<1>1. /\ pc[t] = "find"
      /\ f.status # "CONTINUE"
      /\ pn' = [pn EXCEPT ![t] = [p |-> p, n |-> f.n]]
      /\ status' = [status EXCEPT ![t] = f.status]
      /\ pc' = [pc EXCEPT ![t] = req[t].op]
      /\ UNCHANGED <<heap, root, lock, req, ret, metadata, md, new, range, start>>
  BY DEF Arrive, Goto, Helper
<1>2. ThreadInv(t) /\ IInv
  BY DEF GInv, IInv
<1>3. /\ p \in DOMAIN heap /\ p \in Pointer /\ p # NULL
      /\ req[t].op \in {"insert", "lookup"} /\ req[t].key \in Key
      /\ f.status \in Status /\ f.n \in Reference /\ f.n \in Pointer
  BY <1>1, <1>2, FindLemma
<1>. HIDE DEF f, p
<1>4. TypeOK'
  BY <1>1, <1>2, <1>3 DEF IInv, TypeOK, TemplateTypeOK, Labels
<1>5. Others(t)
  BY <1>1, <1>2 DEF Others, IInv, TypeOK, TemplateTypeOK
<1>6. Held(t) = {p} /\ Held(t)' = {p}
  BY <1>1, <1>2, <1>3 DEF Held, IInv, TypeOK, TemplateTypeOK, p
<1>7. ThreadInv(t)'
  <2>1. TraversalInv(t)' /\ NewInv(t)'
    BY <1>1, <1>2, <1>3
    DEF IInv, TypeOK, TemplateTypeOK, ThreadInv, TraversalInv, NewInv, Reference
  <2>2. EntryInv(t)' /\ HeldInv(t)'
    BY <1>1, <1>2, <1>3, <1>6
    DEF IInv, TypeOK, ThreadInv, EntryInv, HeldInv, Ready, lookup_md
  <2>. QED
    BY <2>1, <2>2 DEF ThreadInv
<1>8. Exclusion'
  BY <1>1, <1>2, <1>5, <1>6, OthersHoldLemma, KeepLemma DEF IInv, Exclusion
<1>9. IInv'
  BY <1>1, <1>2, <1>3, <1>4, <1>5, <1>7, <1>8, MoveLemma DEF IInv, TypeOK
<1>. QED
  BY <1>1, <1>2, <1>3, <1>5, <1>9, LoopLemma DEF IInv, TypeOK

\* Both ways to go on: to the next node, and to the one to start again from.
LEMMA GoOnLemma ==
    ASSUME GInv, NEW t \in Thread, Advance(t) \/ StartAgain(t)
    PROVE  GInv'
<1>1. ThreadInv(t) /\ LoopInv(t) /\ IInv
  BY DEF GInv, IInv
<1>2. start[t] \in Pointer /\ start[t] \in Reference /\ NULL \in Pointer
  BY <1>1, UninitAssumption
  DEF GInv, GiveUpTypeOK, LoopInv, IInv, MetadataInv, Ready, lookup_md, Reference,
      Pointer
<1>3. PICK p \in Pointer, n \in Pointer, st \in Status :
         /\ pc[t] = "find" /\ pc' = [pc EXCEPT ![t] = "node"]
         /\ p = pn[t].n /\ p = md[t] /\ p \in Reference
         /\ n # NULL /\ n \in Reference /\ Ready(n)
         /\ pn' = [pn EXCEPT ![t] = [p |-> p, n |-> n]]
         /\ status' = [status EXCEPT ![t] = st]
         /\ release(p)
         /\ md' = [md EXCEPT ![t] = lookup_md(n)]
         /\ UNCHANGED <<heap, root, req, ret, metadata, new, range, start>>
  <2>1. pc[t] = "find"
    BY DEF Advance, StartAgain
  <2>2. md[t] = pn[t].n /\ pn[t].n \in Pointer /\ pn[t].n \in Reference
    BY <1>1, <2>1 DEF LoopInv, ThreadInv, EntryInv, TraversalInv
  <2>3. CASE Advance(t)
    <3>. DEFINE f == findNext(heap, pn[t].n, pn[t].n, req[t].key)
    <3>1. /\ f.status \in Status /\ f.n \in Reference /\ f.n \in Pointer
          /\ f.status = "CONTINUE" => f.n # NULL /\ Ready(f.n)
      BY <1>1, <2>1, FindLemma
    <3>2. /\ pc' = [pc EXCEPT ![t] = "node"]
          /\ f.status = "CONTINUE"
          /\ pn' = [pn EXCEPT ![t] = [p |-> pn[t].n, n |-> f.n]]
          /\ status' = [status EXCEPT ![t] = f.status]
          /\ ReleaseMd(t)
          /\ md' = [md EXCEPT ![t] = lookup_md(f.n)]
          /\ UNCHANGED <<heap, root, req, ret, metadata, new, range, start>>
      BY <2>3 DEF Advance, Goto, Remember
    <3>. HIDE DEF f
    <3>. QED
      BY <2>1, <2>2, <3>1, <3>2 DEF ReleaseMd
  <2>4. CASE StartAgain(t)
    <3>1. status \in [Thread -> Status]
      BY <1>1 DEF IInv, TypeOK, TemplateTypeOK
    <3>2. /\ status' = [status EXCEPT ![t] = status[t]] /\ status[t] \in Status
      BY <2>4, <3>1 DEF StartAgain
    <3>. QED
      BY <1>1, <1>2, <2>1, <2>2, <2>4, <3>2
      DEF StartAgain, LoopInv, Goto, Remember, ReleaseMd
  <2>. QED
    BY <2>3, <2>4
<1>4. lookup_md(n) = n
  BY <1>3 DEF Ready
<1>5. TypeOK'
  BY <1>1, <1>3, <1>4 DEF IInv, TypeOK, TemplateTypeOK, Labels, release
<1>6. Others(t)
  BY <1>1, <1>3 DEF Others, IInv, TypeOK, TemplateTypeOK
<1>7. p \in Held(t) /\ Held(t)' = Held(t) \ {p}
  BY <1>1, <1>3 DEF Held, IInv, TypeOK
<1>8. ThreadInv(t)'
  <2>1. TraversalInv(t)' /\ NewInv(t)'
    BY <1>1, <1>3
    DEF IInv, TypeOK, TemplateTypeOK, ThreadInv, TraversalInv, NewInv, Reference
  <2>2. EntryInv(t)' /\ HeldInv(t)'
    BY <1>1, <1>3, <1>4, <1>7
    DEF IInv, TypeOK, TemplateTypeOK, ThreadInv, EntryInv, HeldInv, Ready, lookup_md
  <2>. QED
    BY <2>1, <2>2 DEF ThreadInv
<1>9. Exclusion'
  <2>1. lock' = [lock EXCEPT ![p] = 0]
    BY <1>3 DEF release
  <2>. QED
    BY <2>1, <1>1, <1>6, <1>7, OthersHoldLemma, ReleaseLemma
    DEF IInv, Exclusion, TypeOK, TemplateTypeOK
<1>10. IInv'
  BY <1>1, <1>3, <1>5, <1>6, <1>8, <1>9, MoveLemma DEF IInv, TypeOK
<1>. QED
  BY <1>1, <1>3, <1>6, <1>10, LoopLemma DEF LoopInv, IInv, TypeOK

----------------------------------------------------------------------------
LEMMA InitLemma == Init => GInv
<1>. SUFFICES ASSUME Init PROVE GInv
  OBVIOUS
<1>1. IInv
  BY TableInitLemma, GiveUpHashAssumption DEF Init
<1>2. NULL \in Pointer /\ Ready(NULL)
  BY <1>1 DEF IInv, MetadataInv, Ready, lookup_md, Pointer
<1>3. GiveUpTypeOK
  BY <1>1, <1>2, LimitsAssumption
  DEF GiveUpTypeOK, IInv, Init, MdRange, FullRange, NoRange
<1>4. \A t \in Thread : LoopInv(t)
  BY <1>2 DEF LoopInv, Init, TableInit, TemplateInit
<1>. QED
  BY <1>1, <1>3, <1>4 DEF GInv

LEMMA NextLemma == GInv /\ [Next]_vars => GInv'
<1>. SUFFICES ASSUME GInv, [Next]_vars PROVE GInv'
  OBVIOUS
<1>1. CASE UNCHANGED vars
  <2>1. IInv'
    BY <1>1, StutterLemma DEF vars, GInv
  <2>. QED
    BY <1>1, <2>1
    DEF vars, tableVars, templateVars, GInv, GiveUpTypeOK, IInv, LoopInv, Ready,
        lookup_md
<1>2. CASE Next
  <2>1. PICK t \in Thread : Enter(t) \/ Work(t)
    BY <1>2 DEF Next
  <2>. QED
    BY <2>1, SharedStepLemma, ArriveLemma, GoOnLemma DEF Work, SharedStep
<1>. QED
  BY <1>1, <1>2

LEMMA GInvLemma == Spec => []GInv
<1>1. Init => GInv
  BY InitLemma
<1>2. GInv /\ [Next]_vars => GInv'
  BY NextLemma
<1>. QED
  BY <1>1, <1>2, PTL DEF Spec

\* Every variable of giveup.c's state keeps its type, the ranges stay within
\* the ints; no pointer leads to a node that was not malloced, that to the node
\* to start again from included; and a slot of the table holds nothing but the
\* md_entry of its node, or what malloc left there.
THEOREM TypeCorrect ==
    Spec => [](/\ GiveUpTypeOK /\ NoDangling /\ MetadataInv
               /\ \A t \in Thread : start[t] \in Reference)
<1>1. GInv => GiveUpTypeOK /\ NoDangling /\ MetadataInv
  BY NoDanglingLemma DEF GInv, IInv
<1>2. GInv => \A t \in Thread : start[t] \in Reference
  <2>. SUFFICES ASSUME GInv, NEW t \in Thread PROVE start[t] \in Reference
    OBVIOUS
  <2>1. Ready(start[t]) /\ start[t] \in Pointer
    BY DEF GInv, LoopInv, GiveUpTypeOK
  <2>. QED
    BY <2>1, UninitAssumption
    DEF GInv, IInv, MetadataInv, Ready, lookup_md, Reference, Pointer
<1>. QED
  BY <1>1, <1>2, GInvLemma, PTL

\* giveup.c's table has the lock that a thread holds for as long as it holds
\* it, however many nodes others add in the meantime.
THEOREM LocksStay == Spec => []LocksFound
<1>1. GInv => LocksFound
  BY LocksFoundLemma DEF GInv
<1>. QED
  BY <1>1, GInvLemma, PTL

\* giveup.c keeps threads apart: a node or css->root is in use by one thread
\* at most, although a traversal holds no lock between two nodes.
THEOREM Exclusive == Spec => []MutualExclusion
<1>1. GInv => MutualExclusion
  BY DEF GInv, IInv
<1>. QED
  BY <1>1, GInvLemma, PTL

\* The lock words of giveup.c are the nodes in use: a traversal that starts
\* again has released the node it gave up, and a call leaves no lock behind.
THEOREM LocksMatch == Spec => []LockInv
<1>1. GInv => LockInv
  BY DEF GInv, IInv
<1>. QED
  BY <1>1, GInvLemma, PTL

\* In giveup.c no thread ever locks through, or compares its key with the
\* range of, an md_entry that has not been filled in.
THEOREM PublishedInTime == Spec => []Published
<1>1. GInv => Published
  BY PublishedLemma DEF GInv
<1>. QED
  BY <1>1, GInvLemma, PTL

----------------------------------------------------------------------------
(* Why a traversal gives up at the limits only.                            *)

\* The ranges r and rc of a node with the given key and of its child fit for
\* the key x if r, cut at that key, is within rc on the side where x is.
Fits(key, r, rc, x) ==
    /\ x > key => x > rc.min /\ (x < r.max => x < rc.max)
    /\ x < key => x < rc.max /\ (x > r.min => x > rc.min)

\* Every key that a node sends to another fits the two nodes' ranges.
RangesFit ==
    \A m, c \in DOMAIN heap : Ready(m) /\ Ready(c) =>
        \A x \in Key :
            Sends(heap, m, c, x) => Fits(heap[m].key, range[m], range[c], x)

\* So it will be once the new node has the range it is about to get, whatever
\* the other threads do in the meantime.
PendingFit(t) ==
    LET p == pn[t].p
        n == new[t]
        r == NewRange(p, req[t].key)
    IN  pc[t] = "metadata" =>
            /\ p # NULL => \A x \in Key :
                  Sends(heap, p, n, x) => Fits(heap[p].key, range[p], r, x)
            /\ \A c \in DOMAIN heap, x \in Key :
                  Sends(heap, n, c, x) => Fits(heap[n].key, r, range[c], x)

\* The range of the node a traversal goes to, or is at, includes its key,
\* unless that is a limit.
InRangeInv(t) ==
    /\ pc[t] \in {"traverse", "traverse_start"} => range[pn[t].n] = FullRange
    /\ pc[t] \in {"node", "find"} /\ req[t].key \in Interior =>
          inRange(range[pn[t].n], req[t].key)

WInv ==
    /\ GInv
    /\ range[NULL] = FullRange /\ range[root] = FullRange
    /\ RangesFit
    /\ \A t \in Thread : PendingFit(t) /\ InRangeInv(t)

LEMMA SendsToLemma ==
    ASSUME IInv, NEW m \in DOMAIN heap, NEW c, NEW x \in Key, Sends(heap, m, c, x)
    PROVE  c \in DOMAIN heap /\ c \in Children(heap, m)
<1>. DEFINE f == findNext(heap, m, m, x)
<1>1. f.status = "CONTINUE" => f.n \in DOMAIN heap /\ f.n \in Children(heap, m)
  BY FindNextLemma DEF IInv, HeapInv, TypeOK, TemplateTypeOK
<1>. HIDE DEF f
<1>2. f.status = "CONTINUE" /\ f.n = c
  BY DEF Sends, f
<1>. QED
  BY <1>1, <1>2

\* A key in the range of a node is in that of the node it is sent to.
LEMMA InRangeLemma ==
    ASSUME GInv, RangesFit, NEW m \in DOMAIN heap, NEW c \in DOMAIN heap,
           Ready(m), Ready(c), NEW x \in Key, Sends(heap, m, c, x),
           inRange(range[m], x)
    PROVE  inRange(range[c], x)
<1>1. Fits(heap[m].key, range[m], range[c], x)
  BY DEF RangesFit
<1>2. x # heap[m].key /\ x \in Int /\ heap[m].key \in Int
  BY SendsLemma DEF GInv, IInv, TypeOK, TemplateTypeOK
<1>. QED
  BY <1>1, <1>2 DEF Fits, inRange

\* While a thread has a node malloced without md_entry, the nodes that node
\* points to have theirs, and nobody else is about to link a node behind the
\* same p.
LEMMA PendingLemma ==
    ASSUME IInv, NEW t \in Thread, pc[t] = "metadata"
    PROVE  /\ pn[t].p \in Reference /\ pn[t].p \in Pointer /\ Ready(pn[t].p)
           /\ new[t] \in DOMAIN heap /\ new[t] \in Pointer /\ ~Ready(new[t])
           /\ req[t].key \in Key
           /\ \A c \in Children(heap, new[t]) : Ready(c)
           /\ \A u \in Thread \ {t} :
                 pc[u] \in {"insert", "metadata"} => pn[u].p # pn[t].p
<1>1. ThreadInv(t)
  BY DEF IInv
<1>2. pn[t].p \in Pointer /\ pn[t].p \in Held(t)
  BY DEF Held, IInv, TypeOK, TemplateTypeOK
<1>3. pn[t].p \in Reference /\ Ready(pn[t].p) /\ req[t].key \in Key
  BY <1>1, <1>2 DEF ThreadInv, TraversalInv, HeldInv, Request
<1>4. new[t] \in DOMAIN heap /\ new[t] \in Pointer /\ ~Ready(new[t])
  BY <1>1, UninitAssumption DEF ThreadInv, NewInv, IInv, TypeOK, Ready
<1>5. ASSUME NEW c \in Children(heap, new[t]), NEW u \in Thread,
             pc[u] = "metadata", pn[u].p = new[t]
      PROVE  FALSE
  <2>1. new[t] \in Held(u)
    BY <1>4, <1>5 DEF Held
  <2>. QED
    BY <1>4, <2>1 DEF IInv, ThreadInv, HeldInv
<1>6. \A c \in Children(heap, new[t]) : Ready(c)
  BY <1>4, <1>5 DEF IInv, LinkInv
<1>7. ASSUME NEW u \in Thread \ {t}, pc[u] \in {"insert", "metadata"}, pn[u].p = pn[t].p
      PROVE  FALSE
  <2>1. pn[t].p \in Held(u)
    BY <1>2, <1>7 DEF Held
  <2>. QED
    BY <1>2, <2>1 DEF IInv, MutualExclusion
<1>. QED
  BY <1>2, <1>3, <1>4, <1>6, <1>7

\* A step that leaves the ranges as they are, and every node's key and where
\* it sends a search, has to be examined for the traversal of its thread only.
LEMMA CalmLemma ==
    ASSUME WInv, GInv', NEW t \in Thread, Others(t),
           DOMAIN heap' = DOMAIN heap,
           \A m \in DOMAIN heap : heap'[m].key = heap[m].key,
           \A m, c \in DOMAIN heap, x \in Key :
              Sends(heap, m, c, x)' <=> Sends(heap, m, c, x),
           UNCHANGED <<root, metadata, range>>,
           pc'[t] # "metadata", InRangeInv(t)'
    PROVE  WInv'
<1>1. \A p : Ready(p)' <=> Ready(p)
  BY DEF Ready, lookup_md
<1>2. RangesFit'
  BY <1>1 DEF WInv, RangesFit
<1>3. ASSUME NEW u \in Thread \ {t}
      PROVE  PendingFit(u)'
  <2>. SUFFICES ASSUME pc[u] = "metadata"
                PROVE  PendingFit(u)'
    BY <1>3 DEF PendingFit, Others
  <2>. DEFINE p == pn[u].p
              n == new[u]
              r == NewRange(p, req[u].key)
  <2>1. p \in DOMAIN heap \cup {NULL} /\ n \in DOMAIN heap
    BY PendingLemma DEF WInv, GInv, Reference
  <2>2. pn'[u] = pn[u] /\ new'[u] = new[u] /\ req'[u] = req[u] /\ pc'[u] = pc[u]
    BY DEF Others
  <2>3. NewRange(p, req[u].key)' = r
    <3>1. p' = p /\ req'[u].key = req[u].key /\ lookup_md(p)' = lookup_md(p)
      BY <2>2 DEF lookup_md
    <3>2. p # NULL => get_key(heap, p)' = get_key(heap, p)
      BY <2>1, <2>2 DEF get_key
    <3>. HIDE DEF p
    <3>. QED
      BY <3>1, <3>2 DEF NewRange
  <2>4. PendingFit(u)
    BY DEF WInv
  <2>5. p # NULL => \A x \in Key :
           Sends(heap, p, n, x) => Fits(heap[p].key, range[p], r, x)
    BY <2>4 DEF PendingFit
  <2>6. \A c \in DOMAIN heap, x \in Key :
           Sends(heap, n, c, x) => Fits(heap[n].key, r, range[c], x)
    BY <2>4 DEF PendingFit
  <2>. HIDE DEF r
  <2>7. p # NULL => \A x \in Key :
           Sends(heap, p, n, x)' => Fits(heap'[p].key, range'[p], r, x)
    BY <2>1, <2>2, <2>5
  <2>8. \A c \in DOMAIN heap', x \in Key :
           Sends(heap, n, c, x)' => Fits(heap'[n].key, r, range'[c], x)
    BY <2>1, <2>2, <2>6
  <2>. QED
    BY <2>2, <2>3, <2>7, <2>8 DEF PendingFit
<1>4. PendingFit(t)'
  BY DEF PendingFit
<1>5. \A u \in Thread \ {t} : InRangeInv(u)'
  BY DEF WInv, InRangeInv, Others
<1>. QED
  BY <1>2, <1>3, <1>4, <1>5 DEF WInv

\* The node that insertOp mallocs, before it has its md_entry.
LEMMA InsertNodeFits ==
    ASSUME WInv, GInv', NEW t \in Thread, InsertNode(t), range' = range
    PROVE  WInv'
<1>. DEFINE p == pn[t].p
            x == req[t].key
<1>1. PICK n \in Node \ DOMAIN heap :
         /\ heap' = insertOp(heap, p, x, req[t].value, n)
         /\ new' = [new EXCEPT ![t] = n]
  BY DEF InsertNode
<1>2. /\ pc[t] = "insert" /\ insertAllocates(heap, p, x)
      /\ pc' = [pc EXCEPT ![t] = "metadata"]
      /\ UNCHANGED <<root, lock, req, pn, status, ret, metadata, md>>
  BY DEF InsertNode, Goto
<1>3. IInv /\ IsHeap(heap) /\ Closed(heap) /\ RangesFit
  BY DEF WInv, GInv, IInv, HeapInv, TypeOK, TemplateTypeOK
<1>4. Others(t) /\ pc'[t] = "metadata" /\ new'[t] = n
  BY <1>1, <1>2, <1>3 DEF Others, IInv, TypeOK
<1>5. /\ p \in DOMAIN heap \cup {NULL} /\ x \in Key /\ req[t].value \in Value
      /\ p \in Pointer /\ Ready(p)
  <2>1. ThreadInv(t) /\ p \in Held(t)
    BY <1>2, <1>3 DEF IInv, TypeOK, TemplateTypeOK, Held
  <2>. QED
    BY <1>2, <1>3, <2>1
    DEF ThreadInv, TraversalInv, HeldInv, Reference, Request, IInv, TypeOK,
        TemplateTypeOK
<1>6. SplitsAt(heap, heap', p, n, x)
  BY <1>1, <1>2, <1>3, <1>5, DSAssumption, ListSplitLemma, TreeSplitLemma
<1>7. DOMAIN heap' = DOMAIN heap \cup {n} /\ NULL \notin DOMAIN heap
  <2>. DEFINE h2 == insertOp(heap, p, x, req[t].value, n)
  <2>1. /\ DOMAIN h2 = DOMAIN heap \cup {n} /\ IsHeap(h2) /\ Closed(h2)
        /\ AddsPointer(heap, h2, p, n)
    BY <1>2, <1>3, <1>5, InsertNodeLemma
  <2>. HIDE DEF h2
  <2>2. heap' = h2
    BY <1>1 DEF h2
  <2>. QED
    BY <1>3, <2>1, <2>2, NullAssumption DEF IsHeap
<1>8. ~Ready(n) /\ \A q : Ready(q)' <=> Ready(q)
  BY <1>2, <1>3, UninitAssumption DEF IInv, MetadataInv, Ready, lookup_md, Pointer
<1>. HIDE DEF p, x
<1>9. \A m \in DOMAIN heap \ {p} :
         heap'[m] = heap[m] /\ \A c, y : Sends(heap, m, c, y)' <=> Sends(heap, m, c, y)
  BY <1>6, SameNodeLemma DEF SplitsAt
<1>10. RangesFit'
  <2>. SUFFICES ASSUME NEW m \in DOMAIN heap', NEW c \in DOMAIN heap',
                       Ready(m)', Ready(c)', NEW y \in Key, Sends(heap, m, c, y)'
                PROVE  Fits(heap'[m].key, range[m], range[c], y)
    BY DEF RangesFit
  <2>1. m \in DOMAIN heap /\ c \in DOMAIN heap /\ Ready(m) /\ Ready(c)
    BY <1>7, <1>8
  <2>2. heap'[m].key = heap[m].key /\ Sends(heap, m, c, y)
    <3>1. CASE m = p
      BY <2>1, <3>1, <1>6 DEF SplitsAt
    <3>2. CASE m # p
      BY <2>1, <3>2, <1>9
    <3>. QED
      BY <3>1, <3>2
  <2>. QED
    BY <2>1, <2>2, <1>3 DEF RangesFit
<1>11. ASSUME NEW u \in Thread \ {t}
       PROVE  PendingFit(u)'
  <2>. SUFFICES ASSUME pc[u] = "metadata"
                PROVE  PendingFit(u)'
    BY <1>4 DEF PendingFit, Others
  <2>. DEFINE pu == pn[u].p
              nu == new[u]
              r  == NewRange(pu, req[u].key)
  <2>1. /\ pu \in DOMAIN heap \cup {NULL} /\ nu \in DOMAIN heap /\ ~Ready(nu)
        /\ pu # p
    BY <1>2, <1>3, PendingLemma DEF Reference, p
  <2>2. pn'[u] = pn[u] /\ new'[u] = new[u] /\ req'[u] = req[u] /\ pc'[u] = pc[u]
    BY <1>4 DEF Others
  <2>3. nu # p /\ (pu # NULL => pu \in DOMAIN heap \ {p})
    BY <1>5, <2>1
  <2>4. NewRange(pu, req[u].key)' = r
    <3>1. pu' = pu /\ req'[u].key = req[u].key /\ lookup_md(pu)' = lookup_md(pu)
      BY <1>2, <2>2 DEF lookup_md
    <3>2. pu # NULL => get_key(heap, pu)' = get_key(heap, pu)
      BY <2>2, <2>3, <1>9 DEF get_key
    <3>. HIDE DEF pu
    <3>. QED
      BY <3>1, <3>2 DEF NewRange
  <2>5. PendingFit(u)
    BY DEF WInv
  <2>6. pu # NULL => \A y \in Key :
           Sends(heap, pu, nu, y) => Fits(heap[pu].key, range[pu], r, y)
    BY <2>5 DEF PendingFit
  <2>7. \A c \in DOMAIN heap, y \in Key :
           Sends(heap, nu, c, y) => Fits(heap[nu].key, r, range[c], y)
    BY <2>5 DEF PendingFit
  <2>. HIDE DEF r
  <2>8. pu # NULL => \A y \in Key :
           Sends(heap, pu, nu, y)' => Fits(heap'[pu].key, range'[pu], r, y)
    BY <1>9, <2>2, <2>3, <2>6
  <2>9. \A c \in DOMAIN heap', y \in Key :
           Sends(heap, nu, c, y)' => Fits(heap'[nu].key, r, range'[c], y)
    <3>. SUFFICES ASSUME NEW c, NEW y \in Key, Sends(heap', nu, c, y)
                  PROVE  Fits(heap'[nu].key, r, range'[c], y)
      BY <2>2
    <3>1. heap'[nu] = heap[nu] /\ Sends(heap, nu, c, y)
      BY <1>9, <2>1, <2>2, <2>3
    <3>2. c \in DOMAIN heap
      BY <1>3, <2>1, <3>1, SendsToLemma
    <3>. QED
      BY <2>7, <3>1, <3>2
  <2>. QED
    BY <2>2, <2>4, <2>8, <2>9 DEF PendingFit
<1>12. PendingFit(t)'
  <2>. DEFINE r == NewRange(p, x)'
              key == heap'[p].key
  <2>1. /\ p' = p /\ x' = x /\ x \in Int
        /\ p # NULL => p \in DOMAIN heap /\ p # n /\ key \in Int
        /\ heap'[n].key \in Int
    <3>1. IsHeap(heap')
      BY DEF GInv, IInv, TypeOK, TemplateTypeOK
    <3>. QED
      BY <1>2, <1>5, <1>7, <3>1, DSAssumption, KeyAssumption
      DEF IsHeap, NodeFields, List!NodeFields, Tree!NodeFields, p, x
  <2>2. p # NULL =>
           r = IF x < key THEN [range[p] EXCEPT !.max = key]
                          ELSE [range[p] EXCEPT !.min = key]
    BY <1>2, <1>5, <2>1 DEF NewRange, get_key, Ready, lookup_md, p, x
  <2>3. p # NULL => range[p] \in MdRange
    BY <1>5 DEF WInv, GInv, GiveUpTypeOK
  <2>4. ASSUME p # NULL, NEW y \in Key, Sends(heap', p, n, y)
        PROVE  Fits(key, range[p], r, y)
    <3>1. p \in DOMAIN heap
      BY <1>5, <2>4
    <3>2. IF x < key THEN y < key ELSE y > key
      BY <3>1, <2>4, <1>6 DEF SplitsAt
    <3>. QED
      BY <2>1, <2>2, <2>3, <2>4, <3>1, <3>2, KeyAssumption DEF Fits, MdRange
  <2>5. ASSUME NEW c \in DOMAIN heap', NEW y \in Key, Sends(heap', n, c, y)
        PROVE  Fits(heap'[n].key, r, range[c], y)
    <3>1. /\ p \in DOMAIN heap /\ Sends(heap, p, c, y) /\ ~(x < key)
          /\ y > heap[p].key /\ y > heap'[n].key
      BY <2>5, <1>6 DEF SplitsAt
    <3>2. c \in DOMAIN heap /\ c \in Children(heap, p)
      BY <3>1, <1>3, SendsToLemma
    <3>3. Ready(c)
      <4>1. ASSUME NEW u \in Thread, pc[u] = "metadata", pn[u].p = p
            PROVE  FALSE
        BY <4>1, <1>2, <1>3, PendingLemma DEF p
      <4>. QED
        BY <4>1, <3>1, <3>2, <1>3 DEF IInv, LinkInv
    <3>4. Fits(heap[p].key, range[p], range[c], y)
      BY <1>3, <1>5, <3>1, <3>2, <3>3 DEF RangesFit
    <3>5. p # NULL /\ r.max = range[p].max
      BY <1>7, <2>2, <2>3, <3>1 DEF MdRange
    <3>6. y \in Int
      BY KeyAssumption
    <3>. QED
      BY <2>1, <3>1, <3>4, <3>5, <3>6 DEF Fits
  <2>6. NewRange(pn[t].p, req[t].key)' = r
    BY DEF p, x
  <2>7. pn'[t].p = p
    BY <1>2 DEF p
  <2>8. p # NULL => \A y \in Key :
           Sends(heap, p, n, y)' => Fits(heap'[p].key, range'[p], r, y)
    BY <2>1, <2>4
  <2>9. \A c \in DOMAIN heap', y \in Key :
           Sends(heap, n, c, y)' => Fits(heap'[n].key, r, range'[c], y)
    BY <2>5
  <2>. HIDE DEF r
  <2>. QED
    BY <1>4, <2>1, <2>6, <2>7, <2>8, <2>9 DEF PendingFit
<1>13. \A u \in Thread : InRangeInv(u)'
  <2>1. \A u \in Thread \ {t} : InRangeInv(u)'
    BY <1>4 DEF WInv, InRangeInv, Others
  <2>. QED
    BY <1>4, <2>1 DEF InRangeInv
<1>. QED
  BY <1>2, <1>10, <1>11, <1>12, <1>13 DEF WInv

\* The md_entry of the new node gets its range.
LEMMA InsertMetadataFits ==
    ASSUME WInv, GInv', NEW t \in Thread, InsertMetadata(t),
           range' = [range EXCEPT ![new[t]] = NewRange(pn[t].p, req[t].key)]
    PROVE  WInv'
<1>. DEFINE p == pn[t].p
            n == new[t]
            r == NewRange(p, req[t].key)
<1>1. /\ pc[t] = "metadata"
      /\ metadata' = [metadata EXCEPT ![Hash[n]] = n]
      /\ root' = IF p = NULL THEN n ELSE root
      /\ pc' = [pc EXCEPT ![t] = "release_new"]
      /\ UNCHANGED <<heap, req, pn, status, ret, new>>
      /\ range' = [range EXCEPT ![n] = r]
  BY DEF InsertMetadata, Goto
<1>2. IInv /\ RangesFit /\ PendingFit(t)
  BY DEF WInv, GInv
<1>3. /\ p \in DOMAIN heap \cup {NULL} /\ p \in Pointer /\ Ready(p)
      /\ n \in DOMAIN heap /\ n \in Pointer /\ ~Ready(n)
      /\ \A c \in Children(heap, n) : Ready(c)
  BY <1>1, <1>2, PendingLemma DEF Reference
<1>4. /\ p # NULL => \A x \in Key :
            Sends(heap, p, n, x) => Fits(heap[p].key, range[p], r, x)
      /\ \A c \in DOMAIN heap, x \in Key :
            Sends(heap, n, c, x) => Fits(heap[n].key, r, range[c], x)
  BY <1>1, <1>2 DEF PendingFit
<1>5. p = NULL => r = FullRange
  BY DEF NewRange
<1>6. ASSUME NEW u \in Thread, pc[u] = "metadata", new[u] = n
      PROVE  u = t
  BY <1>1, <1>2, <1>6 DEF IInv, NewDistinct
<1>7. Others(t) /\ pc'[t] = "release_new"
  BY <1>1, <1>2, InsertMetadata(t)
  DEF InsertMetadata, Goto, Remember, Others, IInv, TypeOK
<1>. HIDE DEF p, n, r
<1>8. range'[n] = r /\ \A q \in Pointer : Ready(q) => q # n /\ range'[q] = range[q]
  BY <1>1, <1>3 DEF WInv, GInv, GiveUpTypeOK
<1>9. \A q \in Pointer : lookup_md(q)' = IF q = n THEN n ELSE lookup_md(q)
  BY <1>1, <1>2, <1>3, GiveUpHashAssumption
  DEF HashInjective, lookup_md, IInv, TypeOK, Index
<1>10. DOMAIN heap \subseteq Pointer /\ NULL \notin DOMAIN heap /\ NULL \in Pointer
  BY <1>2, NullAssumption DEF IInv, TypeOK, TemplateTypeOK, IsHeap, Pointer
<1>11. range'[NULL] = FullRange /\ range'[root'] = FullRange
  <2>1. Ready(NULL) /\ Ready(root) /\ root \in Pointer
    BY <1>2 DEF IInv, MetadataInv, HeapInv, Ready, lookup_md, TypeOK, TemplateTypeOK
  <2>. QED
    BY <2>1, <1>1, <1>5, <1>8, <1>10 DEF WInv
<1>12. RangesFit'
  <2>. SUFFICES ASSUME NEW m \in DOMAIN heap, NEW c \in DOMAIN heap,
                       Ready(m)', Ready(c)', NEW x \in Key, Sends(heap, m, c, x)
                PROVE  Fits(heap[m].key, range'[m], range'[c], x)
    BY <1>1 DEF RangesFit
  <2>1. (Ready(m) \/ m = n) /\ (Ready(c) \/ c = n)
    BY <1>9, <1>10 DEF Ready
  <2>2. c \in Children(heap, m)
    BY <1>2, SendsToLemma
  <2>3. CASE Ready(m) /\ Ready(c)
    BY <2>3, <1>2, <1>8, <1>10 DEF RangesFit
  <2>4. CASE m = n
    BY <2>2, <2>4, <1>3, <1>4, <1>8, <1>10
  <2>5. CASE Ready(m) /\ c = n
    <3>1. m = p
      BY <2>2, <2>5, <1>2, <1>3, <1>6 DEF IInv, LinkInv, p
    <3>. QED
      BY <2>5, <3>1, <1>4, <1>8, <1>10
  <2>. QED
    BY <2>1, <2>3, <2>4, <2>5
<1>13. ASSUME NEW u \in Thread \ {t}
       PROVE  PendingFit(u)'
  <2>. SUFFICES ASSUME pc[u] = "metadata"
                PROVE  PendingFit(u)'
    BY <1>7 DEF PendingFit, Others
  <2>. DEFINE pu == pn[u].p
              nu == new[u]
              ru == NewRange(pu, req[u].key)
  <2>1. /\ pu \in Pointer /\ Ready(pu) /\ nu \in DOMAIN heap
        /\ \A c \in Children(heap, nu) : Ready(c)
    BY <1>2, PendingLemma
  <2>2. pn'[u] = pn[u] /\ new'[u] = new[u] /\ req'[u] = req[u] /\ pc'[u] = pc[u]
    BY <1>7 DEF Others
  <2>3. range'[pu] = range[pu] /\ lookup_md(pu) = pu /\ lookup_md(pu)' = pu
    BY <1>8, <1>9, <2>1, <2>2 DEF Ready
  <2>4. NewRange(pu, req[u].key)' = ru
    <3>1. /\ pu' = pu /\ req'[u].key = req[u].key
          /\ get_key(heap, pu)' = get_key(heap, pu)
      BY <1>1, <2>2 DEF get_key
    <3>. HIDE DEF pu
    <3>. QED
      BY <3>1, <2>3 DEF NewRange
  <2>5. PendingFit(u)
    BY DEF WInv
  <2>6. pu # NULL => \A x \in Key :
           Sends(heap, pu, nu, x) => Fits(heap[pu].key, range[pu], ru, x)
    BY <2>5 DEF PendingFit
  <2>7. \A c \in DOMAIN heap, x \in Key :
           Sends(heap, nu, c, x) => Fits(heap[nu].key, ru, range[c], x)
    BY <2>5 DEF PendingFit
  <2>8. \A c \in DOMAIN heap, x \in Key :
           Sends(heap, nu, c, x) => Fits(heap[nu].key, ru, range'[c], x)
    BY <2>1, <2>7, <1>2, <1>8, <1>10, SendsToLemma
  <2>. HIDE DEF ru
  <2>. QED
    BY <1>1, <2>2, <2>3, <2>4, <2>6, <2>8 DEF PendingFit
<1>14. ASSUME NEW u \in Thread \ {t}
       PROVE  InRangeInv(u)'
  <2>1. InRangeInv(u) /\ ThreadInv(u) /\ LoopInv(u)
    BY <1>2 DEF WInv, GInv, IInv
  <2>2. pc[u] \in {"traverse", "traverse_start", "node", "find"} =>
           pn[u].n \in Pointer /\ Ready(pn[u].n)
    BY <2>1 DEF ThreadInv, EntryInv, LoopInv
  <2>. QED
    BY <2>1, <2>2, <1>7, <1>8 DEF InRangeInv, Others
<1>15. PendingFit(t)' /\ InRangeInv(t)'
  BY <1>7 DEF PendingFit, InRangeInv
<1>. QED
  BY <1>11, <1>12, <1>13, <1>14, <1>15 DEF WInv

LEMMA GivesUpLemma ==
    ASSUME WInv, NEW t \in Thread, StartAgain(t)
    PROVE  req[t].key \notin Interior
BY DEF WInv, GInv, LoopInv, InRangeInv, StartAgain

LEMMA FullRangeLemma == \A x \in Interior : inRange(FullRange, x)
BY DEF Interior, inRange, FullRange

\* Wherever a step takes a traversal, the range there includes its key.
LEMMA BeforeLoopInRange ==
    ASSUME WInv, GInv', NEW t \in Thread,
           \/ Begin(t) \/ GetRootAcquire(t) \/ GetRootRead(t)
           \/ TraverseAcquire(t) \/ TraverseEmpty(t) \/ TraverseStart(t),
           range' = range
    PROVE  WInv'
<1>1. IInv /\ InRangeInv(t) /\ range[root] = FullRange
  BY DEF WInv, GInv
<1>. USE DEF IInv, TypeOK, TemplateTypeOK, Goto, Remember
<1>2. UNCHANGED <<heap, root, metadata, range>> /\ Others(t)
  BY <1>1
  DEF Begin, Call, GetRootAcquire, GetRootRead, TraverseAcquire, TraverseEmpty,
      TraverseStart, Others
<1>3. pc'[t] # "metadata" /\ InRangeInv(t)'
  <2>1. CASE Begin(t) \/ GetRootAcquire(t)
    BY <2>1, <1>1 DEF Begin, Call, GetRootAcquire, InRangeInv
  <2>2. CASE GetRootRead(t)
    BY <2>2, <1>1 DEF GetRootRead, InRangeInv
  <2>3. CASE TraverseAcquire(t)
    BY <2>3, <1>1 DEF TraverseAcquire, InRangeInv
  <2>4. CASE TraverseEmpty(t)
    <3>1. req[t].op \in {"insert", "lookup"}
      BY <1>1, <2>4 DEF TraverseEmpty, ThreadInv, TraversalInv, Request
    <3>. QED
      BY <2>4, <3>1, <1>1 DEF TraverseEmpty, Helper, InRangeInv
  <2>5. CASE TraverseStart(t)
    <3>1. pc'[t] = "node" /\ range'[pn'[t].n] = FullRange /\ req'[t] = req[t]
      BY <2>5, <1>1 DEF TraverseStart, InRangeInv
    <3>. QED
      BY <3>1, FullRangeLemma DEF InRangeInv, Interior
  <2>. QED
    BY <2>1, <2>2, <2>3, <2>4, <2>5
<1>. QED
  BY <1>2, <1>3, CalmLemma

LEMMA LoopInRange ==
    ASSUME WInv, GInv', NEW t \in Thread,
           AcquireNode(t) \/ Arrive(t) \/ Advance(t) \/ StartAgain(t),
           range' = range
    PROVE  WInv'
<1>1. GInv /\ IInv /\ InRangeInv(t) /\ LoopInv(t) /\ RangesFit
  BY DEF WInv, GInv
<1>. USE DEF Goto, Remember
<1>2. UNCHANGED <<heap, root, metadata, range>> /\ Others(t)
  BY <1>1
  DEF AcquireNode, Arrive, Advance, StartAgain, Others, IInv, TypeOK, TemplateTypeOK
<1>3. pc'[t] # "metadata" /\ InRangeInv(t)'
  <2>1. CASE AcquireNode(t)
    BY <2>1, <1>1 DEF AcquireNode, InRangeInv, IInv, TypeOK
  <2>2. CASE Arrive(t)
    <3>1. req[t].op \in {"insert", "lookup"}
      BY <1>1, <2>2, FindLemma DEF Arrive
    <3>. QED
      BY <2>2, <3>1, <1>1 DEF Arrive, Helper, InRangeInv, IInv, TypeOK
  <2>3. CASE Advance(t)
    <3>. DEFINE p == pn[t].n
                f == findNext(heap, p, p, req[t].key)
    <3>1. /\ pc[t] = "find" /\ inRange(range[md[t]], req[t].key)
          /\ f.status = "CONTINUE" /\ pc'[t] = "node" /\ pn'[t].n = f.n
          /\ req'[t] = req[t]
      BY <2>3, <1>1 DEF Advance, IInv, TypeOK, TemplateTypeOK
    <3>2. /\ p \in DOMAIN heap /\ req[t].key \in Key
          /\ f.status = "CONTINUE" => Ready(f.n)
      BY <1>1, <3>1, FindLemma
    <3>3. md[t] = p /\ Ready(p)
      BY <1>1, <3>1 DEF LoopInv, IInv, ThreadInv, EntryInv
    <3>4. Sends(heap, p, f.n, req[t].key)
      BY <3>1 DEF Sends
    <3>. HIDE DEF p, f
    <3>5. f.n \in DOMAIN heap
      BY <1>1, <3>2, <3>4, SendsToLemma
    <3>6. inRange(range[f.n], req[t].key)
      BY <1>1, <3>1, <3>2, <3>3, <3>4, <3>5, InRangeLemma
    <3>. QED
      BY <1>2, <3>1, <3>6 DEF InRangeInv
  <2>4. CASE StartAgain(t)
    <3>1. req[t].key \notin Interior
      BY <2>4, GivesUpLemma
    <3>2. pc'[t] = "node" /\ req'[t] = req[t]
      BY <2>4, <1>1 DEF StartAgain, IInv, TypeOK
    <3>. QED
      BY <3>1, <3>2 DEF InRangeInv, Interior
  <2>. QED
    BY <2>1, <2>2, <2>3, <2>4
<1>. QED
  BY <1>2, <1>3, CalmLemma

LEMMA AfterLoopInRange ==
    ASSUME WInv, GInv', NEW t \in Thread,
           LookupValue(t) \/ ReleaseNew(t) \/ ReleaseP(t) \/ End(t),
           range' = range
    PROVE  WInv'
<1>1. IInv
  BY DEF WInv, GInv
<1>. USE DEF LookupValue, ReleaseNew, ReleaseP, End, Return, Goto, Remember, IInv,
             TypeOK, TemplateTypeOK
<1>2. UNCHANGED <<heap, root, metadata, range>> /\ Others(t)
  BY <1>1 DEF Others
<1>3. pc'[t] # "metadata" /\ InRangeInv(t)'
  BY <1>1 DEF InRangeInv
<1>. QED
  BY <1>2, <1>3, CalmLemma

LEMMA InsertReplaceFits ==
    ASSUME WInv, GInv', NEW t \in Thread, InsertReplace(t), range' = range
    PROVE  WInv'
<1>. DEFINE p == pn[t].p
            x == req[t].key
            h2 == insertOp(heap, p, x, req[t].value, NULL)
<1>1. IInv /\ IsHeap(heap) /\ Closed(heap)
  BY DEF WInv, GInv, IInv, HeapInv, TypeOK, TemplateTypeOK
<1>2. /\ pc[t] = "insert" /\ ~insertAllocates(heap, p, x) /\ heap' = h2
      /\ UNCHANGED <<root, metadata>> /\ pc'[t] = "release_p" /\ Others(t)
  BY <1>1
  DEF InsertReplace, Goto, Remember, Others, IInv, TypeOK, TemplateTypeOK
<1>3. p \in DOMAIN heap \cup {NULL} /\ x \in Key /\ req[t].value \in Value
  BY <1>1, <1>2 DEF IInv, ThreadInv, TraversalInv, Reference, Request
<1>4. /\ DOMAIN h2 = DOMAIN heap /\ IsHeap(h2)
      /\ \A m \in DOMAIN heap : Children(h2, m) = Children(heap, m)
  BY <1>1, <1>2, <1>3, InsertReplaceLemma
<1>5. ASSUME NEW m \in DOMAIN heap, NEW c, NEW y \in Key
      PROVE  h2[m].key = heap[m].key /\ (Sends(h2, m, c, y) <=> Sends(heap, m, c, y))
  BY <1>1, <1>2, <1>3, ReplaceSendsLemma
<1>. HIDE DEF h2
<1>6. /\ \A m \in DOMAIN heap : heap'[m].key = heap[m].key
      /\ \A m, c \in DOMAIN heap, y \in Key :
            Sends(heap, m, c, y)' <=> Sends(heap, m, c, y)
  BY <1>2, <1>3, <1>5
<1>7. InRangeInv(t)'
  BY <1>2 DEF InRangeInv
<1>. QED
  BY <1>2, <1>4, <1>6, <1>7, CalmLemma

LEMMA WNextLemma == WInv /\ [Next]_vars => WInv'
<1>. SUFFICES ASSUME WInv, [Next]_vars PROVE WInv'
  OBVIOUS
<1>1. GInv'
  BY NextLemma DEF WInv
<1>2. CASE UNCHANGED vars
  BY <1>1, <1>2
  DEF vars, tableVars, templateVars, WInv, RangesFit, Ready, lookup_md, PendingFit,
      NewRange, InRangeInv
<1>3. CASE Next
  <2>1. PICK t \in Thread : Enter(t) \/ Work(t)
    BY <1>3 DEF Next
  <2>2. CASE Enter(t) \/ GetRoot(t) \/ StartTraverse(t)
    BY <2>2, <1>1, BeforeLoopInRange DEF Enter, GetRoot, StartTraverse
  <2>3. CASE LoopAcquire(t) \/ Arrive(t) \/ Advance(t) \/ StartAgain(t)
    BY <2>3, <1>1, LoopInRange DEF LoopAcquire, Arrive, Advance, StartAgain
  <2>4. CASE LookupHelper(t) \/ Leave(t)
    BY <2>4, <1>1, AfterLoopInRange DEF LookupHelper, Leave
  <2>5. CASE InsertHelper(t)
    BY <2>5, <1>1, InsertReplaceFits, InsertNodeFits, InsertMetadataFits,
       AfterLoopInRange
    DEF InsertHelper
  <2>. QED
    BY <2>1, <2>2, <2>3, <2>4, <2>5 DEF Work
<1>. QED
  BY <1>2, <1>3

\* A traversal of giveup.c gives up for INT_MIN and INT_MAX only: however the
\* inserters split the nodes it is on its way to, the range of each node it
\* comes to includes its key.
THEOREM GivesUpAtLimitsOnly == Spec => GiveUpInv
<1>1. Init => WInv
  <2>. SUFFICES ASSUME Init PROVE WInv
    OBVIOUS
  <2>1. GInv
    BY InitLemma
  <2>2. DOMAIN heap = {} /\ root = NULL /\ \A t \in Thread : pc[t] = "idle"
    BY DEF Init, TableInit, TemplateInit
  <2>3. range[NULL] = FullRange
    BY DEF Init, Pointer
  <2>. QED
    BY <2>1, <2>2, <2>3 DEF WInv, RangesFit, PendingFit, InRangeInv
<1>2. WInv /\ [Next]_vars => WInv'
  BY WNextLemma
<1>3. WInv => [\A t \in Thread : StartAgain(t) => req[t].key \notin Interior]_vars
  BY GivesUpLemma
<1>. QED
  BY <1>1, <1>2, <1>3, PTL DEF Spec, GiveUpInv

----------------------------------------------------------------------------
(* Searches.                                                               *)

\* A traversal that gives up starts again from the root, where every search
\* comes by.
RouteInv ==
    /\ GInv /\ SearchInv
    /\ \A t \in Thread : pc[t] \in {"node", "find"} => start[t] = root

LEMMA ArriveKeeps ==
    ASSUME SearchInv, IInv', NEW t \in Thread, Arrive(t) \/ Advance(t)
    PROVE  SearchInv' /\ MapUnchanged
<1>. DEFINE p == pn[t].n
            x == req[t].key
            f == findNext(heap, p, p, x)
<1>1. /\ pc[t] = "find" /\ pn'[t] = [p |-> p, n |-> f.n] /\ status'[t] = f.status
      /\ \/ f.status = "CONTINUE" /\ pc'[t] = "node"
         \/ f.status # "CONTINUE" /\ pc'[t] = req[t].op
      /\ UNCHANGED <<heap, root, req, ret>>
      /\ Others(t)
  BY DEF Arrive, Advance, Goto, Remember, Helper, Others, SearchInv, IInv, TypeOK,
         TemplateTypeOK
<1>2. /\ p \in Visited(heap, root, x) /\ p # NULL /\ req[t].op \in {"insert", "lookup"}
      /\ f.status = "CONTINUE" => f.n \in Visited(heap, root, x)
  BY <1>1, SearchGoesOn
<1>. HIDE DEF p, f
<1>3. OnWay(t)'
  <2>1. CASE f.status = "CONTINUE"
    BY <2>1, <1>1, <1>2 DEF OnWay
  <2>2. CASE f.status # "CONTINUE"
    <3>1. Arrived(t)'
      BY <2>2, <1>1, <1>2 DEF Arrived, f
    <3>. QED
      BY <2>2, <3>1, <1>1, <1>2 DEF OnWay
  <2>. QED
    BY <2>1, <2>2
<1>4. MapUnchanged
  BY <1>1, <1>2, OnWayQuiet
<1>. QED
  BY <1>1, <1>3, <1>4, SearchMoves

LEMMA AgainKeeps ==
    ASSUME RouteInv, IInv', NEW t \in Thread, StartAgain(t)
    PROVE  SearchInv' /\ MapUnchanged
<1>1. /\ pc[t] = "find" /\ pc'[t] = "node" /\ pn'[t].n = start[t]
      /\ UNCHANGED <<heap, root, req, ret>> /\ Others(t) /\ SearchInv
  BY DEF StartAgain, Goto, Remember, Others, RouteInv, SearchInv, IInv, TypeOK,
         TemplateTypeOK
<1>2. start[t] = root /\ root # NULL
  BY <1>1 DEF RouteInv, GInv, LoopInv
<1>3. root \in Visited(heap, root, req[t].key)
  BY <1>1, <1>2, HeapFacts, VisitLemma
<1>4. OnWay(t)'
  BY <1>1, <1>2, <1>3 DEF OnWay
<1>5. MapUnchanged
  BY <1>1, OnWayQuiet
<1>. QED
  BY <1>1, <1>4, <1>5, SearchMoves

LEMMA SharedKeeps ==
    ASSUME SearchInv, IInv', NEW t \in Thread, Shared(t)
    PROVE  SearchInv' /\ (Map!Next \/ MapUnchanged)
<1>1. SearchInv'
  BY GiveUpHashAssumption, BeforeFind, ReplaceKeeps, NodeKeeps, LeafKeeps,
     MetadataKeeps, AfterKeeps
  DEF Shared
<1>2. Map!Next \/ MapUnchanged
  BY CallLemma, QuietLemma, EffectLemma, ReadsLemma, ReturnLemma DEF Shared
<1>. QED
  BY <1>1, <1>2

LEMMA SharedIs ==
    ASSUME NEW t \in Thread, SharedStep(t)
    PROVE  Shared(t)
BY DEF SharedStep, Shared, Enter, GetRoot, StartTraverse, LoopAcquire, InsertHelper,
       LookupHelper, Leave

\* css->root is set once, and before that no traversal has started from it.
LEMMA StartStays ==
    ASSUME RouteInv, NEW t \in Thread,
           SharedStep(t) \/ Arrive(t) \/ Advance(t) \/ StartAgain(t)
    PROVE  \A u \in Thread : pc'[u] \in {"node", "find"} => start'[u] = root'
<1>1. /\ GInv /\ SearchInv /\ IInv /\ start \in [Thread -> Pointer]
      /\ OnWay(t) /\ TraversalInv(t)
      /\ \A u \in Thread : pc[u] \in {"node", "find"} => start[u] = root /\ root # NULL
  BY DEF RouteInv, GInv, GiveUpTypeOK, LoopInv, SearchInv, IInv, ThreadInv
<1>2. ASSUME root' = root,
             \A u \in Thread \ {t} : pc'[u] = pc[u] /\ start'[u] = start[u],
             pc'[t] \in {"node", "find"} => start'[t] = root
      PROVE  \A u \in Thread : pc'[u] \in {"node", "find"} => start'[u] = root'
  BY <1>1, <1>2
<1>. USE DEF IInv, TypeOK, TemplateTypeOK, Goto
<1>3. CASE Enter(t) \/ GetRoot(t)
  BY <1>1, <1>2, <1>3
  DEF Enter, Begin, Call, GetRoot, GetRootAcquire, GetRootRead
<1>4. CASE StartTraverse(t)
  <2>1. CASE TraverseAcquire(t) /\ start' = start
    BY <1>1, <1>2, <2>1 DEF TraverseAcquire
  <2>2. CASE TraverseEmpty(t) /\ start' = start
    BY <1>1, <1>2, <2>2 DEF TraverseEmpty, Helper, TraversalInv, Request
  <2>3. CASE TraverseStart(t) /\ start' = [start EXCEPT ![t] = pn'[t].n]
    <3>1. pn'[t].n = root
      BY <1>1, <2>3 DEF TraverseStart, OnWay
    <3>. QED
      BY <1>1, <1>2, <2>3, <3>1 DEF TraverseStart
  <2>. QED
    BY <1>4, <2>1, <2>2, <2>3 DEF StartTraverse
<1>5. CASE LoopAcquire(t)
  BY <1>1, <1>2, <1>5 DEF LoopAcquire, AcquireNode
<1>6. CASE InsertHelper(t)
  <2>1. /\ pc'[t] \notin {"node", "find"} /\ start' = start
        /\ \A u \in Thread \ {t} : pc'[u] = pc[u]
        /\ \/ root' = root
           \/ pc[t] = "metadata" /\ pn[t].p = NULL
    BY <1>1, <1>6
    DEF InsertHelper, InsertReplace, InsertNode, InsertMetadata, ReleaseNew, ReleaseP
  <2>2. root' = root \/ root = NULL
    BY <1>1, <2>1 DEF OnWay
  <2>. QED
    BY <1>1, <2>1, <2>2
<1>7. CASE LookupHelper(t) \/ Leave(t)
  BY <1>1, <1>2, <1>7 DEF LookupHelper, LookupValue, Leave, End, Return
<1>8. CASE Advance(t) \/ StartAgain(t)
  BY <1>1, <1>2, <1>8 DEF Advance, StartAgain
<1>9. CASE Arrive(t)
  <2>1. req[t].op \in {"insert", "lookup"} /\ pc[t] = "find"
    BY <1>1, <1>9 DEF Arrive, TraversalInv, Request
  <2>. QED
    BY <1>1, <1>2, <1>9, <2>1 DEF Arrive, Helper
<1>. QED
  BY <1>3, <1>4, <1>5, <1>6, <1>7, <1>8, <1>9 DEF SharedStep

LEMMA RouteStep ==
    ASSUME RouteInv, NEW t \in Thread, Enter(t) \/ Work(t)
    PROVE  RouteInv' /\ (Map!Next \/ MapUnchanged)
<1>1. GInv' /\ IInv' /\ SearchInv
  BY NextLemma DEF RouteInv, GInv, Next
<1>2. SharedStep(t) \/ Arrive(t) \/ Advance(t) \/ StartAgain(t)
  BY DEF Work, SharedStep
<1>3. SearchInv' /\ (Map!Next \/ MapUnchanged)
  <2>1. CASE SharedStep(t)
    BY <1>1, <2>1, SharedIs, SharedKeeps
  <2>2. CASE Arrive(t) \/ Advance(t)
    BY <1>1, <2>2, ArriveKeeps
  <2>3. CASE StartAgain(t)
    BY <1>1, <2>3, AgainKeeps
  <2>. QED
    BY <1>2, <2>1, <2>2, <2>3
<1>4. \A u \in Thread : pc'[u] \in {"node", "find"} => start'[u] = root'
  BY <1>2, StartStays
<1>. QED
  BY <1>1, <1>3, <1>4 DEF RouteInv

LEMMA RouteStutter ==
    ASSUME RouteInv, UNCHANGED vars
    PROVE  RouteInv' /\ MapUnchanged
<1>1. GInv' /\ UNCHANGED tableVars
  BY NextLemma DEF RouteInv, vars
<1>2. SearchInv' /\ MapUnchanged
  BY <1>1, SearchStutterLemma, MapStutterLemma DEF RouteInv
<1>. QED
  BY <1>1, <1>2 DEF RouteInv, vars, tableVars, templateVars

LEMMA RouteInvLemma == Spec => []RouteInv
<1>1. Init => RouteInv
  <2>. SUFFICES ASSUME Init PROVE RouteInv
    OBVIOUS
  <2>1. GInv /\ SearchInv
    BY InitLemma, SearchInitLemma, GiveUpHashAssumption DEF Init
  <2>2. \A t \in Thread : pc[t] = "idle"
    BY DEF Init, TableInit, TemplateInit
  <2>. QED
    BY <2>1, <2>2 DEF RouteInv
<1>2. RouteInv /\ [Next]_vars => RouteInv'
  BY RouteStep, RouteStutter DEF Next
<1>. QED
  BY <1>1, <1>2, PTL DEF Spec

\* A traversal of giveup.c, which holds no lock between two nodes, stays on the
\* way to its key whatever is inserted meanwhile, also when it gives up and
\* starts again, and ends where the key belongs.
THEOREM KeysetKept == Spec => []KeysetInv
<1>1. RouteInv => KeysetInv
  BY KeysetLemma DEF RouteInv
<1>. QED
  BY <1>1, RouteInvLemma, PTL

\* Nothing that was inserted with giveup.c gets lost: a search for the key of a
\* node of the structure ends at the node, which no other node's key equals.
THEOREM NothingLost == Spec => []SearchStructure
<1>1. RouteInv => SearchStructure
  BY KeysetLemma DEF RouteInv
<1>. QED
  BY <1>1, RouteInvLemma, PTL

\* Linked with giveup.c, insert and lookup of template.c are atomic operations on
\* a map (insert_spec, lookup_spec), as they are with the other two templates.
THEOREM CallsAreAtomic == Spec => Linearizable
<1>1. Init => Map!Init
  BY MapInitLemma DEF Init
<1>2. RouteInv /\ [Next]_vars => [Map!Next]_(Map!vars)
  <2>. SUFFICES ASSUME RouteInv, [Next]_vars
                PROVE  Map!Next \/ MapUnchanged
    BY DEF Map!vars, MapUnchanged, MapPhase
  <2>. QED
    BY RouteStep, RouteStutter DEF Next
<1>. QED
  BY <1>1, <1>2, RouteInvLemma, PTL DEF Spec, Linearizable, Map!Spec

----------------------------------------------------------------------------
(* Why the ranges are right.                                               *)

\* The key k is in m, or is a limit and not beyond m.
Within(m, k) == /\ m.min <= k /\ k <= m.max
                /\ k \in Interior => inRange(m, k)

\* The key k is on the side of the given key where x is.
Beyond(x, key, k) == IF x < key THEN k < key ELSE k > key

\* The md_entry of n says of the searches no more than what holds.
RangeRight(n) ==
    /\ Within(range[n], heap[n].key)
    /\ \A k \in Key : inRange(range[n], k) => n \in Visited(heap, root, k)

\* The key an insert is about to write is in the range of p; a node behind p
\* that has no md_entry yet gets the searches for the keys on its side of p's,
\* and its own key is one of these.
PlaceInv(t) ==
    LET p == pn[t].p
        x == req[t].key
    IN  /\ pc[t] = "insert" /\ p # NULL => inRange(range[p], x)
        /\ pc[t] = "metadata" /\ p # NULL =>
              /\ \A k \in Key :
                    Beyond(x, heap[p].key, k) => Sends(heap, p, new[t], k)
              /\ Beyond(x, heap[p].key, heap[new[t]].key)
              /\ Within(range[p], heap[new[t]].key)

RightInv ==
    /\ RouteInv
    /\ \A n \in DOMAIN heap : Ready(n) => RangeRight(n)
    /\ \A t \in Thread : PlaceInv(t)

LEMMA HereLemma ==
    ASSUME RightInv, NEW t \in Thread, pc[t] \in {"insert", "metadata"}
    PROVE  LET p == pn[t].p
           IN  /\ p \in DOMAIN heap \cup {NULL} /\ p \in Pointer /\ Ready(p)
               /\ range[p] \in MdRange
               /\ req[t].key \in Key /\ req[t].key \in Int /\ req[t].value \in Value
               /\ p # NULL => RangeRight(p)
<1>. DEFINE p == pn[t].p
<1>1. GInv /\ IInv
  BY DEF RightInv, RouteInv, GInv
<1>2. ThreadInv(t) /\ p \in Held(t) /\ p \in Pointer
  BY <1>1 DEF IInv, TypeOK, TemplateTypeOK, Held
<1>3. /\ p \in DOMAIN heap \cup {NULL} /\ Ready(p)
      /\ req[t].key \in Key /\ req[t].value \in Value
  BY <1>2 DEF ThreadInv, TraversalInv, HeldInv, Reference, Request
<1>4. range[p] \in MdRange
  BY <1>1, <1>2 DEF GInv, GiveUpTypeOK
<1>5. p # NULL => RangeRight(p)
  BY <1>3 DEF RightInv
<1>. QED
  BY <1>2, <1>3, <1>4, <1>5, KeyAssumption

\* A step that leaves keys, searches and ranges as they are has to be examined
\* for its thread only.
LEMMA RightMoves ==
    ASSUME RightInv, RouteInv', NEW t \in Thread, Others(t),
           DOMAIN heap' = DOMAIN heap,
           \A m \in DOMAIN heap : heap'[m].key = heap[m].key,
           \A m, c \in DOMAIN heap, k \in Key :
              Sends(heap, m, c, k)' <=> Sends(heap, m, c, k),
           \A k \in Key : Visited(heap, root, k)' = Visited(heap, root, k),
           UNCHANGED <<metadata, range>>,
           pc'[t] # "metadata", PlaceInv(t)'
    PROVE  RightInv'
<1>1. \A p : Ready(p)' <=> Ready(p)
  BY DEF Ready, lookup_md
<1>2. \A n \in DOMAIN heap' : Ready(n)' => RangeRight(n)'
  BY <1>1 DEF RightInv, RangeRight
<1>3. ASSUME NEW u \in Thread \ {t}
      PROVE  PlaceInv(u)'
  <2>. DEFINE p == pn[u].p
              n == new[u]
  <2>1. /\ pn'[u] = pn[u] /\ new'[u] = new[u] /\ req'[u] = req[u] /\ pc'[u] = pc[u]
        /\ PlaceInv(u)
    BY DEF Others, RightInv
  <2>2. CASE pc[u] = "metadata" /\ p # NULL
    <3>1. p \in DOMAIN heap /\ n \in DOMAIN heap
      BY <2>2, HereLemma, PendingLemma DEF RightInv, RouteInv, GInv
    <3>. QED
      BY <2>1, <2>2, <3>1 DEF PlaceInv
  <2>3. CASE ~(pc[u] = "metadata" /\ p # NULL)
    BY <2>1, <2>3 DEF PlaceInv
  <2>. QED
    BY <2>2, <2>3
<1>. QED
  BY <1>2, <1>3 DEF RightInv

\* Where a traversal ends its key is in range.
LEMMA LoopRight ==
    ASSUME RightInv, RouteInv', NEW t \in Thread,
           Arrive(t) \/ Advance(t) \/ StartAgain(t)
    PROVE  RightInv'
<1>1. /\ IInv /\ LoopInv(t) /\ TraversalInv(t)
  BY DEF RightInv, RouteInv, GInv, IInv, ThreadInv
<1>. USE DEF Goto, Remember
<1>2. UNCHANGED <<heap, root, metadata, range>> /\ Others(t) /\ req' = req
  BY <1>1 DEF Arrive, Advance, StartAgain, Others, IInv, TypeOK, TemplateTypeOK
<1>3. pc'[t] # "metadata" /\ PlaceInv(t)'
  <2>1. CASE Arrive(t)
    <3>1. req[t].op \in {"insert", "lookup"} /\ pc[t] = "find"
      BY <1>1, <2>1 DEF Arrive, TraversalInv, Request
    <3>2. /\ pc'[t] \in {"insert", "lookup"} /\ pn'[t].p = pn[t].n
          /\ inRange(range[pn[t].n], req[t].key)
      BY <1>1, <2>1, <3>1 DEF Arrive, Helper, LoopInv, IInv, TypeOK, TemplateTypeOK
    <3>. QED
      BY <1>2, <3>2 DEF PlaceInv
  <2>2. CASE Advance(t) \/ StartAgain(t)
    <3>1. pc'[t] = "node"
      BY <1>1, <2>2 DEF Advance, StartAgain, IInv, TypeOK
    <3>. QED
      BY <3>1 DEF PlaceInv
  <2>. QED
    BY <2>1, <2>2
<1>. QED
  BY <1>2, <1>3, RightMoves

\* The other steps that write no key and no range.
LEMMA QuietRight ==
    ASSUME RightInv, RouteInv', NEW t \in Thread, range' = range,
           \/ Begin(t) \/ GetRootAcquire(t) \/ GetRootRead(t)
           \/ TraverseAcquire(t) \/ TraverseEmpty(t) \/ TraverseStart(t)
           \/ AcquireNode(t) \/ LookupValue(t) \/ ReleaseNew(t) \/ ReleaseP(t)
           \/ End(t)
    PROVE  RightInv'
<1>1. IInv /\ TraversalInv(t)
  BY DEF RightInv, RouteInv, GInv, IInv, ThreadInv
<1>. USE DEF IInv, TypeOK, TemplateTypeOK, Goto, Remember
<1>2. UNCHANGED <<heap, root, metadata, range>> /\ Others(t)
  BY <1>1
  DEF Begin, Call, GetRootAcquire, GetRootRead, TraverseAcquire, TraverseEmpty,
      TraverseStart, AcquireNode, LookupValue, ReleaseNew, ReleaseP, End, Return, Others
<1>3. pc'[t] # "metadata" /\ (pc'[t] = "insert" => pn'[t].p = NULL)
  <2>1. CASE TraverseEmpty(t)
    <3>1. req[t].op \in {"insert", "lookup"} /\ pn[t].p = NULL
      BY <1>1, <2>1 DEF TraverseEmpty, TraversalInv, Request
    <3>. QED
      BY <1>1, <2>1, <3>1 DEF TraverseEmpty, Helper
  <2>2. CASE ~TraverseEmpty(t)
    BY <1>1, <2>2
    DEF Begin, Call, GetRootAcquire, GetRootRead, TraverseAcquire, TraverseStart,
        AcquireNode, LookupValue, ReleaseNew, ReleaseP, End, Return
  <2>. QED
    BY <2>1, <2>2
<1>4. PlaceInv(t)'
  BY <1>3 DEF PlaceInv
<1>. QED
  BY <1>2, <1>3, <1>4, RightMoves

LEMMA ReplaceRight ==
    ASSUME RightInv, RouteInv', NEW t \in Thread, InsertReplace(t), range' = range
    PROVE  RightInv'
<1>. DEFINE p == pn[t].p
            x == req[t].key
            h2 == insertOp(heap, p, x, req[t].value, NULL)
<1>1. IInv /\ IsHeap(heap) /\ Closed(heap) /\ SearchInv
  BY DEF RightInv, RouteInv, SearchInv, IInv, HeapInv, TypeOK, TemplateTypeOK
<1>2. /\ pc[t] = "insert" /\ ~insertAllocates(heap, p, x) /\ heap' = h2
      /\ UNCHANGED <<root, metadata>> /\ pc'[t] = "release_p" /\ Others(t)
  BY <1>1
  DEF InsertReplace, Goto, Remember, Others, IInv, TypeOK, TemplateTypeOK
<1>3. p \in DOMAIN heap \cup {NULL} /\ x \in Key /\ req[t].value \in Value
  BY <1>2, HereLemma
<1>4. /\ DOMAIN h2 = DOMAIN heap /\ IsHeap(h2)
      /\ \A m \in DOMAIN heap : Children(h2, m) = Children(heap, m)
  BY <1>1, <1>2, <1>3, InsertReplaceLemma
<1>5. ASSUME NEW m \in DOMAIN heap, NEW c, NEW y \in Key
      PROVE  h2[m].key = heap[m].key /\ (Sends(h2, m, c, y) <=> Sends(heap, m, c, y))
  BY <1>1, <1>2, <1>3, ReplaceSendsLemma
<1>. HIDE DEF h2
<1>6. \A k \in Key : Visited(h2, root, k) = Visited(heap, root, k)
  BY <1>1, <1>4, <1>5, HeapFacts, SameVisited
<1>7. /\ \A m \in DOMAIN heap : heap'[m].key = heap[m].key
      /\ \A m, c \in DOMAIN heap, y \in Key :
            Sends(heap, m, c, y)' <=> Sends(heap, m, c, y)
      /\ \A k \in Key : Visited(heap, root, k)' = Visited(heap, root, k)
  BY <1>2, <1>3, <1>5, <1>6
<1>8. PlaceInv(t)'
  BY <1>2 DEF PlaceInv
<1>. QED
  BY <1>2, <1>4, <1>7, <1>8, RightMoves

\* The node that insertOp mallocs takes over searches of p's, and no others; its
\* key is the one to insert or p's, which the inserted one replaces.
LEMMA NodeRight ==
    ASSUME RightInv, RouteInv', NEW t \in Thread, InsertNode(t), range' = range
    PROVE  RightInv'
<1>. DEFINE p == pn[t].p
            x == req[t].key
            v == req[t].value
<1>1. PICK n \in Node \ DOMAIN heap :
         heap' = insertOp(heap, p, x, v, n) /\ new' = [new EXCEPT ![t] = n]
  BY DEF InsertNode
<1>2. /\ pc[t] = "insert" /\ insertAllocates(heap, p, x)
      /\ pc' = [pc EXCEPT ![t] = "metadata"]
      /\ UNCHANGED <<root, req, pn, status, metadata, md>>
  BY DEF InsertNode, Goto
<1>3. IInv /\ IsHeap(heap) /\ Closed(heap) /\ SearchInv
  BY DEF RightInv, RouteInv, SearchInv, IInv, HeapInv, TypeOK, TemplateTypeOK
<1>4. Others(t) /\ pc'[t] = "metadata" /\ new'[t] = n
  BY <1>1, <1>2, <1>3 DEF Others, IInv, TypeOK
<1>5. /\ p \in DOMAIN heap \cup {NULL} /\ p \in Pointer /\ Ready(p)
      /\ range[p] \in MdRange /\ x \in Key /\ x \in Int /\ v \in Value
      /\ p # NULL => RangeRight(p)
  BY <1>2, HereLemma
<1>6. SplitsAt(heap, heap', p, n, x)
  BY <1>1, <1>2, <1>3, <1>5, DSAssumption, ListSplitLemma, TreeSplitLemma
<1>7. DOMAIN heap' = DOMAIN heap \cup {n} /\ NULL \notin DOMAIN heap
  <2>. DEFINE h2 == insertOp(heap, p, x, v, n)
  <2>1. /\ DOMAIN h2 = DOMAIN heap \cup {n} /\ IsHeap(h2) /\ Closed(h2)
        /\ AddsPointer(heap, h2, p, n)
    BY <1>2, <1>3, <1>5, InsertNodeLemma
  <2>. HIDE DEF h2
  <2>2. heap' = h2
    BY <1>1 DEF h2
  <2>. QED
    BY <1>3, <2>1, <2>2, NullAssumption DEF IsHeap
<1>8. ~Ready(n) /\ \A q : Ready(q)' <=> Ready(q)
  BY <1>2, <1>3, UninitAssumption DEF IInv, MetadataInv, Ready, lookup_md, Pointer
<1>9. /\ Arrived(t) /\ (p = NULL <=> root = NULL)
      /\ p # NULL => \A c : ~Sends(heap, p, c, x)
  BY <1>2, <1>3, ArrivedLemma
<1>10. p # NULL =>
         /\ Inserts(heap, heap', p, n, x, v)
         /\ \A k \in Key : Visited(heap, root, k) \subseteq Visited(heap', root, k)
  <2>. SUFFICES ASSUME p # NULL
                PROVE  /\ Inserts(heap, heap', p, n, x, v)
                       /\ \A k \in Key :
                             Visited(heap, root, k) \subseteq Visited(heap', root, k)
    OBVIOUS
  <2>. DEFINE h2 == insertOp(heap, p, x, v, n)
  <2>1. heap[p].key # x /\ p \in Visited(heap, root, x) /\ root \in DOMAIN heap
    BY <1>2, <1>3, <1>9, HeapFacts, DSAssumption
    DEF insertAllocates, List!insertAllocates, Tree!insertAllocates, Arrived
  <2>2. /\ Inserts(heap, h2, p, n, x, v)
        /\ \A y \in Key : Visited(heap, root, y) \subseteq Visited(h2, root, y)
        /\ Findable(h2, root)
        /\ Contents(h2, root) = [Contents(heap, root) EXCEPT ![x] = v]
    BY <1>3, <1>5, <1>9, <2>1, InsertLemma DEF SearchInv
  <2>. HIDE DEF h2
  <2>3. heap' = h2
    BY <1>1 DEF h2
  <2>. QED
    BY <2>2, <2>3
<1>11. \A k \in Key : Visited(heap, root, k) \subseteq Visited(heap', root, k)
  BY <1>9, <1>10 DEF Visited
<1>. HIDE DEF p, x, v
<1>12. \A m \in DOMAIN heap \ {p} : heap'[m] = heap[m]
  BY <1>6 DEF SplitsAt
<1>13. ASSUME NEW m \in DOMAIN heap', Ready(m)'
       PROVE  RangeRight(m)'
  <2>1. m \in DOMAIN heap /\ Ready(m)
    BY <1>7, <1>8, <1>13
  <2>2. RangeRight(m)
    BY <2>1 DEF RightInv
  <2>3. Within(range[m], heap'[m].key)
    <3>1. CASE m # p
      BY <2>1, <2>2, <3>1, <1>12 DEF RangeRight
    <3>2. CASE m = p
      <4>1. p # NULL
        BY <2>1, <3>2, <1>7
      <4>2. heap'[p].key = heap[p].key \/ heap'[p].key = x
        BY <4>1, <1>10 DEF Inserts
      <4>3. inRange(range[p], x)
        BY <4>1, <1>2 DEF RightInv, PlaceInv, p, x
      <4>4. Within(range[p], x)
        BY <4>3, <1>5 DEF Within, inRange, MdRange
      <4>. QED
        BY <2>2, <3>2, <4>2, <4>4 DEF RangeRight
    <3>. QED
      BY <3>1, <3>2
  <2>. QED
    BY <2>2, <2>3, <1>2, <1>11 DEF RangeRight
<1>14. ASSUME NEW u \in Thread \ {t}
       PROVE  PlaceInv(u)'
  <2>. DEFINE pu == pn[u].p
              nu == new[u]
  <2>1. /\ pn'[u] = pn[u] /\ new'[u] = new[u] /\ req'[u] = req[u] /\ pc'[u] = pc[u]
        /\ PlaceInv(u)
    BY <1>4 DEF Others, RightInv
  <2>2. CASE pc[u] = "metadata" /\ pu # NULL
    <3>1. /\ pu \in DOMAIN heap /\ nu \in DOMAIN heap /\ ~Ready(nu) /\ pu # p
      BY <2>2, <1>2, <1>3, PendingLemma DEF Reference, p
    <3>2. heap'[pu] = heap[pu] /\ heap'[nu] = heap[nu]
      BY <1>5, <1>12, <3>1
    <3>3. \A k \in Key : Sends(heap', pu, nu, k) <=> Sends(heap, pu, nu, k)
      BY <3>2, SameNodeLemma
    <3>. QED
      BY <2>1, <2>2, <3>2, <3>3 DEF PlaceInv
  <2>3. CASE ~(pc[u] = "metadata" /\ pu # NULL)
    BY <2>1, <2>3 DEF PlaceInv
  <2>. QED
    BY <2>2, <2>3
<1>15. PlaceInv(t)'
  <2>. SUFFICES ASSUME p # NULL
                PROVE  /\ \A k \in Key :
                             Beyond(x, heap'[p].key, k) => Sends(heap', p, n, k)
                       /\ Beyond(x, heap'[p].key, heap'[n].key)
                       /\ Within(range[p], heap'[n].key)
    BY <1>2, <1>4 DEF PlaceInv, p, x
  <2>1. /\ \A k \in Key : Beyond(x, heap'[p].key, k) => Sends(heap', p, n, k)
        /\ Sends(heap', p, n, heap'[n].key)
        /\ heap'[n].key \in {x, heap[p].key}
    BY <1>10 DEF Inserts, Beyond
  <2>2. p \in DOMAIN heap /\ heap[p].key \in Key
    BY <1>3, <1>5, DSAssumption
    DEF IsHeap, NodeFields, List!NodeFields, Tree!NodeFields
  <2>3. Beyond(x, heap'[p].key, heap'[n].key)
    BY <1>5, <1>6, <2>1, <2>2 DEF SplitsAt, Beyond
  <2>4. inRange(range[p], x)
    BY <1>2 DEF RightInv, PlaceInv, p, x
  <2>5. Within(range[p], x)
    BY <2>4, <1>5 DEF Within, inRange, MdRange
  <2>6. Within(range[p], heap[p].key)
    BY <1>5 DEF RangeRight
  <2>. QED
    BY <2>1, <2>3, <2>5, <2>6
<1>. QED
  BY <1>13, <1>14, <1>15 DEF RightInv

\* The range of the new md_entry is right: a search for a key in it comes by p
\* and goes on from there to the node.
LEMMA MetadataRight ==
    ASSUME RightInv, RouteInv', NEW t \in Thread, InsertMetadata(t),
           range' = [range EXCEPT ![new[t]] = NewRange(pn[t].p, req[t].key)]
    PROVE  RightInv'
<1>. DEFINE p == pn[t].p
            n == new[t]
            x == req[t].key
            r == NewRange(p, x)
<1>1. /\ pc[t] = "metadata"
      /\ metadata' = [metadata EXCEPT ![Hash[n]] = n]
      /\ root' = IF p = NULL THEN n ELSE root
      /\ pc' = [pc EXCEPT ![t] = "release_new"]
      /\ UNCHANGED <<heap, req, pn, status, ret, new>>
      /\ range' = [range EXCEPT ![n] = r]
  BY DEF InsertMetadata, Goto
<1>2. IInv /\ SearchInv /\ PlaceInv(t) /\ OnWay(t) /\ GInv
  BY DEF RightInv, RouteInv, SearchInv
<1>3. /\ n \in DOMAIN heap /\ n \in Pointer /\ ~Ready(n) /\ n # NULL
      /\ heap[n].key \in Key
  <2>1. n \in DOMAIN heap /\ n \in Pointer /\ ~Ready(n)
    BY <1>1, <1>2, PendingLemma
  <2>. QED
    BY <1>2, <2>1, DSAssumption, NullAssumption
    DEF IInv, TypeOK, TemplateTypeOK, IsHeap, NodeFields, List!NodeFields,
        Tree!NodeFields
<1>4. /\ p \in DOMAIN heap \cup {NULL} /\ p \in Pointer /\ Ready(p)
      /\ range[p] \in MdRange /\ x \in Key /\ x \in Int
      /\ p # NULL => RangeRight(p)
  BY <1>1, HereLemma
<1>5. p # NULL =>
         /\ \A k \in Key : Beyond(x, heap[p].key, k) => Sends(heap, p, n, k)
         /\ Beyond(x, heap[p].key, heap[n].key)
         /\ Within(range[p], heap[n].key)
  BY <1>1, <1>2 DEF PlaceInv
<1>6. p = NULL => r = FullRange
  BY DEF NewRange
<1>7. p # NULL =>
         r = IF x < heap[p].key THEN [range[p] EXCEPT !.max = heap[p].key]
                                ELSE [range[p] EXCEPT !.min = heap[p].key]
  BY <1>4 DEF NewRange, get_key, Ready
<1>8. Others(t) /\ pc'[t] = "release_new"
  BY <1>1, <1>2, InsertMetadata(t)
  DEF InsertMetadata, Goto, Remember, Others, IInv, TypeOK
<1>9. p = NULL => root = NULL
  BY <1>1, <1>2 DEF OnWay
<1>10. \A k \in Key : k \in Int /\ INT_MIN <= k /\ k <= INT_MAX
  BY LimitsAssumption, KeyAssumption
<1>. HIDE DEF p, n, x, r
<1>11. range'[n] = r /\ \A q \in Pointer : Ready(q) => q # n /\ range'[q] = range[q]
  BY <1>1, <1>2, <1>3 DEF GInv, GiveUpTypeOK
<1>12. \A q \in Pointer : lookup_md(q)' = IF q = n THEN n ELSE lookup_md(q)
  BY <1>1, <1>2, <1>3, GiveUpHashAssumption
  DEF HashInjective, lookup_md, IInv, TypeOK, Index
<1>13. DOMAIN heap \subseteq Pointer /\ NULL \notin DOMAIN heap
  BY <1>2, NullAssumption DEF IInv, TypeOK, TemplateTypeOK, IsHeap, Pointer
<1>14. ASSUME p # NULL
       PROVE  /\ Within(r, heap[n].key)
              /\ \A k \in Key : inRange(r, k) => n \in Visited(heap, root, k)
  <2>1. /\ p \in DOMAIN heap /\ RangeRight(p) /\ heap[p].key \in Key
    BY <1>2, <1>4, <1>14, DSAssumption
    DEF IInv, TypeOK, TemplateTypeOK, IsHeap, NodeFields, List!NodeFields,
        Tree!NodeFields
  <2>2. /\ heap[p].key \in Int /\ heap[n].key \in Int
        /\ range[p].min \in Int /\ range[p].max \in Int
    <3>1. heap[p].key \in Int /\ heap[n].key \in Int
      BY <1>3, <1>10, <2>1
    <3>2. range[p] \in [min : INT_MIN..INT_MAX, max : INT_MIN..INT_MAX]
      BY <1>4 DEF MdRange
    <3>3. range[p].min \in INT_MIN..INT_MAX /\ range[p].max \in INT_MIN..INT_MAX
      BY <3>2
    <3>. QED
      BY <3>1, <3>3, LimitsAssumption
  <2>3. /\ r.min = IF x < heap[p].key THEN range[p].min ELSE heap[p].key
        /\ r.max = IF x < heap[p].key THEN heap[p].key ELSE range[p].max
    BY <1>4, <1>7, <1>14 DEF MdRange
  <2>4. Within(r, heap[n].key)
    BY <1>4, <1>5, <1>14, <2>2, <2>3 DEF Within, Beyond, inRange
  <2>5. ASSUME NEW k \in Key, inRange(r, k)
        PROVE  n \in Visited(heap, root, k)
    <3>1. range[p].min <= heap[p].key /\ heap[p].key <= range[p].max
      BY <2>1 DEF RangeRight, Within
    <3>2. inRange(range[p], k) /\ Beyond(x, heap[p].key, k)
      BY <1>4, <1>10, <2>2, <2>3, <2>5, <3>1 DEF inRange, Beyond
    <3>3. p \in Visited(heap, root, k)
      BY <2>1, <3>2 DEF RangeRight
    <3>4. root # NULL
      BY <3>3, <1>14 DEF Visited
    <3>5. Sends(heap, p, n, k)
      BY <1>5, <1>14, <3>2
    <3>. QED
      BY <1>2, <1>3, <3>3, <3>4, <3>5, HeapFacts, VisitLemma
  <2>. QED
    BY <2>4, <2>5
<1>15. ASSUME p = NULL
       PROVE  /\ Within(r, heap[n].key)
              /\ \A k \in Key : n \in Visited(heap, n, k)
  <2>1. Within(r, heap[n].key)
    BY <1>3, <1>6, <1>10, <1>15 DEF Within, FullRange, inRange, Interior
  <2>2. \A k \in Key : n \in Visited(heap, n, k)
    BY <1>3, VisitLemma
  <2>. QED
    BY <2>1, <2>2
<1>16. ASSUME NEW m \in DOMAIN heap, Ready(m)'
       PROVE  RangeRight(m)'
  <2>. SUFFICES /\ Within(range'[m], heap[m].key)
                /\ \A k \in Key : inRange(range'[m], k) => m \in Visited(heap, root', k)
    BY <1>1 DEF RangeRight
  <2>1. Ready(m) \/ m = n
    BY <1>12, <1>13, <1>16 DEF Ready
  <2>2. CASE m = n
    BY <2>2, <1>1, <1>11, <1>14, <1>15
  <2>3. CASE Ready(m)
    <3>1. RangeRight(m) /\ range'[m] = range[m] /\ m # NULL
      BY <2>3, <1>11, <1>13 DEF RightInv
    <3>2. CASE p # NULL
      BY <3>1, <3>2, <1>1 DEF RangeRight
    <3>3. CASE p = NULL
      <4>1. \A k \in Key : Visited(heap, root, k) = {NULL}
        BY <3>3, <1>9 DEF Visited
      <4>. QED
        BY <3>1, <4>1 DEF RangeRight
    <3>. QED
      BY <3>2, <3>3
  <2>. QED
    BY <2>1, <2>2, <2>3
<1>17. ASSUME NEW u \in Thread \ {t}
       PROVE  PlaceInv(u)'
  <2>. DEFINE pu == pn[u].p
  <2>1. /\ pn'[u] = pn[u] /\ new'[u] = new[u] /\ req'[u] = req[u] /\ pc'[u] = pc[u]
        /\ PlaceInv(u)
    BY <1>8 DEF Others, RightInv
  <2>2. pc[u] \in {"insert", "metadata"} => range'[pu] = range[pu]
    BY <1>11, HereLemma
  <2>. QED
    BY <2>1, <2>2, <1>1 DEF PlaceInv
<1>18. PlaceInv(t)'
  BY <1>8 DEF PlaceInv
<1>. QED
  BY <1>1, <1>16, <1>17, <1>18 DEF RightInv

LEMMA RightNextLemma == RightInv /\ [Next]_vars => RightInv'
<1>. SUFFICES ASSUME RightInv, [Next]_vars PROVE RightInv'
  OBVIOUS
<1>1. CASE UNCHANGED vars
  <2>1. RouteInv'
    BY <1>1, RouteStutter DEF RightInv
  <2>. QED
    BY <1>1, <2>1
    DEF vars, tableVars, templateVars, RightInv, RangeRight, PlaceInv, Ready, lookup_md
<1>2. CASE Next
  <2>1. PICK t \in Thread : Enter(t) \/ Work(t)
    BY <1>2 DEF Next
  <2>2. RouteInv'
    BY <2>1, RouteStep DEF RightInv
  <2>3. CASE \/ Enter(t) \/ GetRoot(t) \/ StartTraverse(t) \/ LoopAcquire(t)
             \/ LookupHelper(t) \/ Leave(t)
    BY <2>2, <2>3, QuietRight
    DEF Enter, GetRoot, StartTraverse, LoopAcquire, LookupHelper, Leave
  <2>4. CASE Arrive(t) \/ Advance(t) \/ StartAgain(t)
    BY <2>2, <2>4, LoopRight
  <2>5. CASE InsertHelper(t)
    BY <2>2, <2>5, ReplaceRight, NodeRight, MetadataRight, QuietRight DEF InsertHelper
  <2>. QED
    BY <2>1, <2>3, <2>4, <2>5 DEF Work
<1>. QED
  BY <1>1, <1>2

\* The ranges of giveup.c's md_entries (md_entry_rep of giveup_lib.v): a search
\* for a key in the range of a node comes by the node, and the node's own key is
\* in it unless it is a limit.
THEOREM RangesRight == Spec => []RangeInv
<1>1. Init => RightInv
  <2>. SUFFICES ASSUME Init PROVE RightInv
    OBVIOUS
  <2>1. GInv /\ SearchInv
    BY InitLemma, SearchInitLemma, GiveUpHashAssumption DEF Init
  <2>2. DOMAIN heap = {} /\ \A t \in Thread : pc[t] = "idle"
    BY DEF Init, TableInit, TemplateInit
  <2>. QED
    BY <2>1, <2>2 DEF RightInv, RouteInv, PlaceInv
<1>2. RightInv /\ [Next]_vars => RightInv'
  BY RightNextLemma
<1>3. RightInv => RangeInv
  <2>. SUFFICES ASSUME RightInv, NEW n \in Linked(heap, root), lookup_md(n) # Uninit
                PROVE  LET m == range[lookup_md(n)]
                       IN  /\ \A k \in Key : inRange(m, k) => n \in Visited(heap, root, k)
                           /\ heap[n].key \in Interior => inRange(m, heap[n].key)
    BY DEF RangeInv
  <2>1. n \in DOMAIN heap /\ n \in Node /\ IInv
    BY DEF Linked, RightInv, RouteInv, GInv, IInv, TypeOK, TemplateTypeOK, IsHeap
  <2>2. lookup_md(n) = n
    BY <2>1 DEF IInv, MetadataInv, lookup_md
  <2>3. RangeRight(n)
    BY <2>1, <2>2 DEF RightInv, Ready
  <2>. QED
    BY <2>2, <2>3 DEF RangeRight, Within
<1>. QED
  BY <1>1, <1>2, <1>3, PTL DEF Spec
=============================================================================
