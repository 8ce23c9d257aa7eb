--------------------------- MODULE CouplingProofs ---------------------------
(***************************************************************************)
(* The lock-coupling template for any number of threads, nodes and keys,   *)
(* provided that the hash has no collisions: mutual exclusion; that the    *)
(* nodes a thread can come to have their md_entry; that searches end where *)
(* they should; and that calls are atomic.                                 *)
(***************************************************************************)
EXTENDS Coupling, LockTableProofs

LEMMA FindNextStepLemma ==
    ASSUME IInv, NEW t \in Thread, FindNext(t)
    PROVE  IInv'
<1>. DEFINE p == pn[t].n
            f == findNext(heap, p, p, req[t].key)
<1>1. /\ pc[t] = "find"
      /\ pn' = [pn EXCEPT ![t] = [p |-> p, n |-> f.n]]
      /\ status' = [status EXCEPT ![t] = f.status]
      /\ \/ /\ f.status = "CONTINUE"
            /\ md' = [md EXCEPT ![t] = lookup_md(f.n)]
            /\ pc' = [pc EXCEPT ![t] = "next"]
         \/ /\ f.status # "CONTINUE"
            /\ md' = md
            /\ pc' = [pc EXCEPT ![t] = req[t].op]
      /\ UNCHANGED <<heap, root, lock, req, ret, metadata, new>>
  BY DEF FindNext, Goto, Remember, Helper
<1>2. ThreadInv(t)
  BY DEF IInv
<1>3. /\ p \in DOMAIN heap /\ p \in Pointer /\ p # NULL
      /\ req[t].op \in {"insert", "lookup"} /\ req[t].key \in Key
      /\ f.status \in Status /\ f.n \in Reference /\ f.n \in Pointer
      /\ f.status = "CONTINUE" => f.n # NULL /\ Ready(f.n)
  BY <1>1, FindLemma
<1>4. f.status = "CONTINUE" => md' = [md EXCEPT ![t] = f.n]
  BY <1>1, <1>3 DEF Ready
<1>. HIDE DEF f, p
<1>5. TypeOK'
  BY <1>1, <1>3, <1>4 DEF IInv, TypeOK, TemplateTypeOK, Labels
<1>6. Others(t)
  BY <1>1 DEF Others, IInv, TypeOK, TemplateTypeOK
<1>7. Held(t) = {p} /\ Held(t)' = {p}
  BY <1>1, <1>3 DEF Held, IInv, TypeOK, TemplateTypeOK, p
<1>8. ThreadInv(t)'
  <2>1. TraversalInv(t)' /\ NewInv(t)'
    BY <1>1, <1>2, <1>3
    DEF IInv, TypeOK, TemplateTypeOK, ThreadInv, TraversalInv, NewInv, Reference
  <2>2. EntryInv(t)'
    BY <1>1, <1>2, <1>3, <1>4
    DEF IInv, TypeOK, TemplateTypeOK, ThreadInv, EntryInv, Ready, lookup_md
  <2>3. HeldInv(t)'
    BY <1>1, <1>2, <1>3, <1>7 DEF IInv, TypeOK, ThreadInv, HeldInv, Ready, lookup_md
  <2>. QED
    BY <2>1, <2>2, <2>3 DEF ThreadInv
<1>9. Exclusion'
  BY <1>1, <1>6, <1>7, OthersHoldLemma, KeepLemma DEF IInv, Exclusion
<1>. QED
  BY <1>1, <1>3, <1>5, <1>6, <1>8, <1>9, MoveLemma DEF IInv, TypeOK

LEMMA AcquireNextLemma ==
    ASSUME IInv, NEW t \in Thread, AcquireNext(t)
    PROVE  IInv'
<1>. USE DEF AcquireNext, Goto, Remember
<1>1. ThreadInv(t)
  BY DEF IInv
<1>2. /\ pn[t].n \in Pointer /\ pn[t].p \in Pointer
      /\ acquire(pn[t].n) /\ Ready(pn[t].n)
  BY <1>1 DEF ThreadInv, EntryInv, AcquireMd, IInv, TypeOK, TemplateTypeOK
<1>3. Held(t) = {pn[t].p} /\ Held(t)' = {pn[t].p, pn[t].n}
  BY <1>2 DEF Held, IInv, TypeOK
<1>4. Ready(pn[t].p) /\ lookup_md(pn[t].p) = pn[t].p
  BY <1>1, <1>3 DEF ThreadInv, HeldInv, Ready
<1>5. pn[t].p # pn[t].n
  BY <1>2, <1>3 DEF acquire, IInv, LockInv
<1>6. TypeOK'
  BY <1>2, <1>4 DEF IInv, TypeOK, TemplateTypeOK, Labels, acquire
<1>7. Others(t)
  BY DEF Others, IInv, TypeOK
<1>8. ThreadInv(t)'
  <2>1. TraversalInv(t)' /\ NewInv(t)'
    BY <1>1 DEF IInv, TypeOK, ThreadInv, TraversalInv, NewInv, Reference
  <2>2. EntryInv(t)'
    BY <1>2, <1>4 DEF IInv, TypeOK, EntryInv, Ready, lookup_md
  <2>3. HeldInv(t)'
    BY <1>1, <1>2, <1>3, <1>5 DEF IInv, TypeOK, ThreadInv, HeldInv, Ready, lookup_md
  <2>. QED
    BY <2>1, <2>2, <2>3 DEF ThreadInv
<1>9. Exclusion'
  <2>1. Held(t)' = Held(t) \cup {pn[t].n}
    BY <1>3
  <2>2. lock[pn[t].n] = 0 /\ lock' = [lock EXCEPT ![pn[t].n] = 1]
    BY <1>2 DEF acquire
  <2>. QED
    BY <2>1, <2>2, <1>2, <1>7, OthersHoldLemma, AcquireLemma
    DEF IInv, Exclusion, TypeOK, TemplateTypeOK
<1>. QED
  BY <1>6, <1>7, <1>8, <1>9, MoveLemma DEF IInv, TypeOK

LEMMA ReleasePrevLemma ==
    ASSUME IInv, NEW t \in Thread, ReleasePrev(t)
    PROVE  IInv'
<1>. USE DEF ReleasePrev, Goto
<1>1. ThreadInv(t)
  BY DEF IInv
<1>2. pn[t].p \in Pointer /\ release(pn[t].p)
  BY <1>1 DEF ThreadInv, EntryInv, ReleaseMd
<1>3. TypeOK'
  BY <1>2 DEF IInv, TypeOK, TemplateTypeOK, Labels, release
<1>4. Others(t)
  BY DEF Others, IInv, TypeOK
<1>5. pn[t].p \in Held(t) /\ Held(t)' = Held(t) \ {pn[t].p}
  BY <1>1, <1>2 DEF Held, IInv, TypeOK, ThreadInv, HeldInv
<1>6. ThreadInv(t)'
  <2>1. TraversalInv(t)' /\ NewInv(t)'
    BY <1>1 DEF IInv, TypeOK, ThreadInv, TraversalInv, NewInv, Reference
  <2>2. EntryInv(t)'
    BY <1>1 DEF IInv, TypeOK, ThreadInv, EntryInv, Ready, lookup_md
  <2>3. HeldInv(t)'
    BY <1>1, <1>5 DEF IInv, TypeOK, ThreadInv, HeldInv, Ready, lookup_md
  <2>. QED
    BY <2>1, <2>2, <2>3 DEF ThreadInv
<1>7. Exclusion'
  <2>1. lock' = [lock EXCEPT ![pn[t].p] = 0]
    BY <1>2 DEF release
  <2>. QED
    BY <2>1, <1>2, <1>4, <1>5, OthersHoldLemma, ReleaseLemma
    DEF IInv, Exclusion, TypeOK, TemplateTypeOK
<1>. QED
  BY <1>3, <1>4, <1>6, <1>7, MoveLemma DEF IInv, TypeOK

LEMMA NextLemma == HashInjective /\ IInv /\ [Next]_vars => IInv'
<1>. SUFFICES ASSUME HashInjective, IInv, [Next]_vars PROVE IInv'
  OBVIOUS
<1>1. CASE UNCHANGED vars
  BY <1>1, StutterLemma DEF vars
<1>2. CASE Next
  <2>1. PICK t \in Thread : Begin(t) \/ Work(t)
    BY <1>2 DEF Next
  <2>. QED
    BY <2>1, BeginLemma, GetRootAcquireLemma, AcquireNLemma, ReleaseNLemma,
       TraverseEmptyLemma, FindNextStepLemma, AcquireNextLemma, ReleasePrevLemma,
       InsertReplaceStepLemma, InsertNodeStepLemma, InsertMetadataLemma,
       ReleaseNewLemma, LookupValueLemma, ReleasePLemma, EndLemma
    DEF Work
<1>. QED
  BY <1>1, <1>2

LEMMA IInvLemma == HashInjective /\ Spec => []IInv
<1>. SUFFICES ASSUME HashInjective PROVE Spec => []IInv
  OBVIOUS
<1>1. Init => IInv
  BY TableInitLemma DEF Init
<1>2. IInv /\ [Next]_vars => IInv'
  BY NextLemma
<1>. QED
  BY <1>1, <1>2, PTL DEF Spec

\* Every variable of coupling.c's state keeps its type; no pointer leads to a
\* node that was not malloced; and a slot of the table holds nothing but the
\* md_entry of its node, or what malloc left there.
THEOREM TypeCorrect ==
    HashInjective /\ Spec => [](TypeOK /\ NoDangling /\ MetadataInv)
<1>1. IInv => TypeOK /\ NoDangling /\ MetadataInv
  BY NoDanglingLemma DEF IInv
<1>. QED
  BY <1>1, IInvLemma, PTL

\* coupling.c's table has the lock that a thread holds for as long as it holds
\* it, however many nodes others add in the meantime.
THEOREM LocksStay == HashInjective /\ Spec => []LocksFound
<1>. QED
  BY LocksFoundLemma, IInvLemma, PTL

\* coupling.c keeps threads apart: a node or css->root is in use by one thread
\* at most, through traverse, insertOp_helper and lookupOp_helper.
THEOREM Exclusive == HashInjective /\ Spec => []MutualExclusion
<1>1. IInv => MutualExclusion
  BY DEF IInv
<1>. QED
  BY <1>1, IInvLemma, PTL

\* The lock words of coupling.c are the nodes in use: a release is always one
\* by the thread that acquired, and a call leaves no lock behind.
THEOREM LocksMatch == HashInjective /\ Spec => []LockInv
<1>1. IInv => LockInv
  BY DEF IInv
<1>. QED
  BY <1>1, IInvLemma, PTL

\* In coupling.c no thread ever locks through a slot of the uncleared table
\* that has not been filled in: the md_entry of a node that others can reach
\* is there before they can come to it.
THEOREM PublishedInTime == HashInjective /\ Spec => []Published
<1>1. IInv => Published
  BY PublishedLemma
<1>. QED
  BY <1>1, IInvLemma, PTL

----------------------------------------------------------------------------
(* Searches.                                                               *)

LEMMA FindKeeps ==
    ASSUME SearchInv, IInv', NEW t \in Thread, FindNext(t)
    PROVE  SearchInv' /\ MapUnchanged
<1>. DEFINE p == pn[t].n
            x == req[t].key
            f == findNext(heap, p, p, x)
<1>1. /\ pc[t] = "find" /\ pn'[t] = [p |-> p, n |-> f.n] /\ status'[t] = f.status
      /\ pc'[t] = IF f.status = "CONTINUE" THEN "next" ELSE req[t].op
      /\ UNCHANGED <<heap, root, req, ret>>
      /\ Others(t)
  BY DEF FindNext, Goto, Remember, Helper, Others, SearchInv, IInv, TypeOK,
         TemplateTypeOK
<1>2. /\ p \in Visited(heap, root, x) /\ p # NULL /\ req[t].op \in {"insert", "lookup"}
      /\ f.status = "CONTINUE" => f.n \in Visited(heap, root, x)
  BY <1>1, SearchGoesOn
<1>. HIDE DEF p, f
<1>3. OnWay(t)'
  <2>1. CASE f.status = "CONTINUE"
    BY <2>1, <1>1, <1>2 DEF OnWay
  <2>2. CASE f.status # "CONTINUE"
    <3>1. Arrived(t)'
      BY <2>2, <1>1, <1>2 DEF Arrived, f
    <3>. QED
      BY <2>2, <3>1, <1>1, <1>2 DEF OnWay
  <2>. QED
    BY <2>1, <2>2
<1>4. MapUnchanged
  BY <1>1, <1>2, OnWayQuiet
<1>. QED
  BY <1>1, <1>3, <1>4, SearchMoves

\* The two steps from node to node; findNext has chosen the next one before.
LEMMA StepKeeps ==
    ASSUME SearchInv, IInv', NEW t \in Thread, AcquireNext(t) \/ ReleasePrev(t)
    PROVE  SearchInv' /\ MapUnchanged
<1>1. /\ pc[t] \in {"next", "prev"} /\ pc'[t] \in {"prev", "find"}
      /\ UNCHANGED <<heap, root, req, pn, ret>> /\ Others(t)
  BY DEF AcquireNext, ReleasePrev, Goto, Remember, Others, SearchInv, IInv, TypeOK
<1>2. OnWay(t)'
  BY <1>1 DEF SearchInv, OnWay
<1>3. MapUnchanged
  BY <1>1, OnWayQuiet
<1>. QED
  BY <1>1, <1>2, <1>3, SearchMoves

LEMMA SearchNextLemma == HashInjective /\ SearchInv /\ [Next]_vars => SearchInv'
<1>. SUFFICES ASSUME HashInjective, SearchInv, [Next]_vars PROVE SearchInv'
  OBVIOUS
<1>1. IInv'
  BY NextLemma DEF SearchInv
<1>2. CASE UNCHANGED vars
  BY <1>2, SearchStutterLemma DEF vars
<1>3. CASE Next
  <2>1. PICK t \in Thread : Begin(t) \/ Work(t)
    BY <1>3 DEF Next
  <2>. QED
    BY <1>1, <2>1, BeforeFind, FindKeeps, StepKeeps, ReplaceKeeps, NodeKeeps,
       LeafKeeps, MetadataKeeps, AfterKeeps
    DEF Work
<1>. QED
  BY <1>2, <1>3

LEMMA SearchInvLemma == HashInjective /\ Spec => []SearchInv
<1>. SUFFICES ASSUME HashInjective PROVE Spec => []SearchInv
  OBVIOUS
<1>1. Init => SearchInv
  BY SearchInitLemma DEF Init
<1>2. SearchInv /\ [Next]_vars => SearchInv'
  BY SearchNextLemma
<1>. QED
  BY <1>1, <1>2, PTL DEF Spec

\* A traversal of coupling.c is on the way to its key whatever was inserted
\* behind it and in front of it, and insertOp_helper and lookupOp_helper are
\* called for the node where the key belongs.
THEOREM KeysetKept == HashInjective /\ Spec => []KeysetInv
<1>1. SearchInv => KeysetInv
  BY KeysetLemma
<1>. QED
  BY <1>1, SearchInvLemma, PTL

\* Nothing that was inserted with coupling.c gets lost: a search for the key of
\* a node of the structure ends at the node, which no other node's key equals.
THEOREM NothingLost == HashInjective /\ Spec => []SearchStructure
<1>1. SearchInv => SearchStructure
  BY KeysetLemma
<1>. QED
  BY <1>1, SearchInvLemma, PTL

LEMMA RefineLemma ==
    HashInjective /\ SearchInv /\ [Next]_vars => [Map!Next]_(Map!vars)
<1>. SUFFICES ASSUME HashInjective, SearchInv, [Next]_vars
              PROVE  Map!Next \/ MapUnchanged
  BY DEF Map!vars, MapUnchanged, MapPhase
<1>1. IInv'
  BY NextLemma DEF SearchInv
<1>2. CASE UNCHANGED vars
  BY <1>2, MapStutterLemma DEF vars
<1>3. CASE Next
  <2>1. PICK t \in Thread : Begin(t) \/ Work(t)
    BY <1>3 DEF Next
  <2>. QED
    BY <1>1, <2>1, CallLemma, QuietLemma, FindKeeps, StepKeeps, EffectLemma,
       ReadsLemma, ReturnLemma
    DEF Work
<1>. QED
  BY <1>2, <1>3

\* Linked with coupling.c, insert and lookup of template.c are atomic operations
\* on a map (insert_spec, lookup_spec): insert's step is the one that links the
\* node, makes it the root or writes the value, lookup's the one that reads.
THEOREM CallsAreAtomic == HashInjective /\ Spec => Linearizable
<1>. SUFFICES ASSUME HashInjective PROVE Spec => Linearizable
  OBVIOUS
<1>1. Init => Map!Init
  BY MapInitLemma DEF Init
<1>2. SearchInv /\ [Next]_vars => [Map!Next]_(Map!vars)
  BY RefineLemma
<1>3. Spec => []SearchInv
  BY SearchInvLemma
<1>. QED
  BY <1>1, <1>2, <1>3, PTL DEF Spec, Linearizable, Map!Spec
=============================================================================
