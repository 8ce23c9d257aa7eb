---------------------------- MODULE CoarseProofs ----------------------------
(***************************************************************************)
(* The coarse-grained template for any number of threads, nodes and keys:  *)
(* its types; that the one lock is held by one thread at a time and always *)
(* given back; and, if no node has the hash of NULL, that searches end     *)
(* where they should and calls are atomic.                                 *)
(***************************************************************************)
EXTENDS Coarse, DataStructureProofs

Reference == DOMAIN heap \cup {NULL}

\* The structure has no pointer that leads outside the malloced nodes.
HeapInv == Closed(heap) /\ root \in Reference

\* What traverse leaves in pn and status on the way and for the helpers.
TraversalInv(t) ==
    /\ pc[t] # "idle" => req[t] \in Request
    /\ pc[t] = "insert" => req[t].op = "insert"
    /\ pn[t].p \in Reference /\ pn[t].n \in Reference
    /\ pc[t] \in {"idle", "get_root", "get_root_read", "traverse", "traverse_start"} =>
          status[t] # "FOUND"
    /\ pc[t] = "find" => pn[t].n # NULL
    /\ pc[t] = "lookup" /\ status[t] = "FOUND" => pn[t].p # NULL

\* What the threads go by leads to nodes that were malloced: the fields of the
\* nodes, css->root and pn.
NoDangling ==
    HeapInv /\ \A t \in Thread : {pn[t].p, pn[t].n} \subseteq Reference

IInv == TypeOK /\ HeapInv /\ (\A t \in Thread : TraversalInv(t)) /\ LockInv

----------------------------------------------------------------------------
(* The lock.                                                               *)

LEMMA EnterLemma ==
    ASSUME LockInv, lock \in [Pointer -> {0, 1}], NEW t \in Thread,
           acquire(NULL), Inside' = Inside \cup {t}
    PROVE  LockInv'
<1>1. lock[NULL] = 0 /\ lock'[NULL] = 1
  BY DEF acquire, Pointer
<1>2. Inside = {}
  BY <1>1 DEF LockInv
<1>. QED
  BY <1>1, <1>2 DEF LockInv

LEMMA LeaveLemma ==
    ASSUME LockInv, lock \in [Pointer -> {0, 1}], NEW t \in Inside,
           release(NULL), Inside' = Inside \ {t}
    PROVE  LockInv'
<1>1. lock'[NULL] = 0
  BY DEF release, Pointer
<1>2. Inside' = {}
  BY DEF LockInv
<1>. QED
  BY <1>1, <1>2 DEF LockInv

LEMMA StayLemma ==
    ASSUME LockInv, lock' = lock, Inside' = Inside
    PROVE  LockInv'
BY DEF LockInv

----------------------------------------------------------------------------
(* The steps preserve the invariant.                                       *)

\* A step that adds no node has to be examined for thread t only.
LEMMA MoveLemma ==
    ASSUME NEW t \in Thread, IInv,
           DOMAIN heap' = DOMAIN heap, root' = root,
           \A m \in DOMAIN heap : Children(heap', m) = Children(heap, m),
           \A u \in Thread \ {t} :
              /\ pc'[u] = pc[u] /\ req'[u] = req[u]
              /\ pn'[u] = pn[u] /\ status'[u] = status[u],
           TypeOK', TraversalInv(t)', LockInv'
    PROVE  IInv'
<1>1. HeapInv'
  BY DEF IInv, HeapInv, Closed, Reference
<1>2. \A u \in Thread \ {t} : TraversalInv(u)'
  BY DEF IInv, TraversalInv, Reference
<1>. QED
  BY <1>1, <1>2 DEF IInv

LEMMA BeginLemma ==
    ASSUME IInv, NEW t \in Thread, Begin(t)
    PROVE  IInv'
<1>. USE DEF Begin, Call, Goto, IInv, TypeOK, TemplateTypeOK
<1>1. PICK r \in Request : req' = [req EXCEPT ![t] = r]
  OBVIOUS
<1>2. TypeOK'
  BY <1>1 DEF NoPn, Labels, Pointer
<1>3. TraversalInv(t)'
  BY <1>1 DEF TraversalInv, NoPn, Reference
<1>4. LockInv'
  BY StayLemma DEF Inside
<1>. QED
  BY <1>1, <1>2, <1>3, <1>4, MoveLemma

\* get_root's and traverse's acquires.
LEMMA LockLemma ==
    ASSUME IInv, NEW t \in Thread, GetRootAcquire(t) \/ TraverseAcquire(t)
    PROVE  IInv'
<1>. USE DEF IInv, TypeOK, TemplateTypeOK
<1>1. /\ \/ pc[t] = "get_root" /\ pc' = [pc EXCEPT ![t] = "get_root_read"]
         \/ pc[t] = "traverse" /\ pc' = [pc EXCEPT ![t] = "traverse_start"]
      /\ acquire(NULL)
      /\ UNCHANGED <<heap, root, req, pn, status, ret>>
  BY DEF GetRootAcquire, TraverseAcquire, Goto
<1>2. TypeOK'
  BY <1>1 DEF Labels, acquire, Pointer
<1>3. TraversalInv(t)'
  BY <1>1 DEF TraversalInv, Reference
<1>4. LockInv'
  <2>1. Inside' = Inside \cup {t}
    BY <1>1 DEF Inside
  <2>. QED
    BY <1>1, <2>1, EnterLemma
<1>. QED
  BY <1>1, <1>2, <1>3, <1>4, MoveLemma

LEMMA GetRootReadLemma ==
    ASSUME IInv, NEW t \in Thread, GetRootRead(t)
    PROVE  IInv'
<1>. USE DEF GetRootRead, Goto, IInv, TypeOK, TemplateTypeOK
<1>1. TypeOK'
  BY DEF Labels, release, Pointer
<1>2. TraversalInv(t)'
  BY DEF TraversalInv, Reference, HeapInv
<1>3. LockInv'
  <2>1. t \in Inside /\ Inside' = Inside \ {t}
    BY DEF Inside
  <2>. QED
    BY <2>1, LeaveLemma
<1>. QED
  BY <1>1, <1>2, <1>3, MoveLemma

LEMMA TraverseLemma ==
    ASSUME IInv, NEW t \in Thread, TraverseEmpty(t) \/ TraverseStart(t)
    PROVE  IInv'
<1>. USE DEF TraverseEmpty, TraverseStart, Goto, Helper, IInv, TypeOK, TemplateTypeOK
<1>1. /\ pc[t] = "traverse_start" /\ TraversalInv(t)
      /\ req[t] \in Request /\ req[t].op \in {"insert", "lookup"}
  BY DEF TraversalInv, Request
<1>2. TypeOK'
  BY <1>1 DEF Labels
<1>3. TraversalInv(t)'
  <2>1. CASE TraverseEmpty(t)
    BY <1>1, <2>1 DEF TraversalInv, Reference
  <2>2. CASE TraverseStart(t)
    <3>1. root # NULL \/ pn[t].n # NULL
      BY <2>2
    <3>. QED
      BY <1>1, <2>2, <3>1 DEF TraversalInv, Reference, HeapInv
  <2>. QED
    BY <2>1, <2>2
<1>4. LockInv'
  <2>1. Inside' = Inside
    BY <1>1 DEF Inside
  <2>. QED
    BY <2>1, StayLemma
<1>. QED
  BY <1>1, <1>2, <1>3, <1>4, MoveLemma

LEMMA FindNextStepLemma ==
    ASSUME IInv, NEW t \in Thread, FindNext(t)
    PROVE  IInv'
<1>. DEFINE p == pn[t].n
            f == findNext(heap, p, p, req[t].key)
<1>1. /\ pc[t] = "find"
      /\ pn' = [pn EXCEPT ![t] = [p |-> p, n |-> f.n]]
      /\ status' = [status EXCEPT ![t] = f.status]
      /\ pc' = [pc EXCEPT ![t] = IF f.status = "CONTINUE" THEN "find" ELSE req[t].op]
      /\ UNCHANGED <<heap, root, lock, req, ret>>
  BY DEF FindNext, Goto, Helper
<1>2. TraversalInv(t) /\ req[t].op \in {"insert", "lookup"} /\ req[t].key \in Key
  BY <1>1 DEF IInv, TraversalInv, Request
<1>3. p \in DOMAIN heap /\ p \in Pointer /\ p # NULL
  BY <1>1, <1>2 DEF TraversalInv, Reference, IInv, TypeOK, TemplateTypeOK
<1>4. /\ f.status \in Status
      /\ f.status = "CONTINUE" => f.n \in DOMAIN heap
      /\ f.n \in DOMAIN heap \cup {NULL, p}
  BY <1>2, <1>3, FindNextLemma DEF IInv, HeapInv, TypeOK, TemplateTypeOK
<1>. HIDE DEF f, p
<1>5. f.n \in Reference /\ f.n \in Pointer /\ (f.status = "CONTINUE" => f.n # NULL)
  BY <1>3, <1>4, NullAssumption
  DEF Reference, IInv, TypeOK, TemplateTypeOK, IsHeap, Pointer
<1>6. TypeOK'
  BY <1>1, <1>2, <1>3, <1>4, <1>5 DEF IInv, TypeOK, TemplateTypeOK, Labels
<1>7. TraversalInv(t)'
  BY <1>1, <1>2, <1>3, <1>4, <1>5
  DEF IInv, TypeOK, TemplateTypeOK, TraversalInv, Reference
<1>8. LockInv'
  <2>1. Inside' = Inside
    BY <1>1, <1>2 DEF Inside, IInv, TypeOK
  <2>. QED
    BY <1>1, <2>1, StayLemma DEF IInv
<1>. QED
  BY <1>1, <1>6, <1>7, <1>8, MoveLemma DEF IInv, TypeOK, TemplateTypeOK

LEMMA InsertReplaceStepLemma ==
    ASSUME IInv, NEW t \in Thread, InsertReplace(t)
    PROVE  IInv'
<1>. USE DEF InsertReplace, Goto
<1>1. /\ req[t] \in Request /\ req[t].op = "insert"
      /\ pn[t].p \in DOMAIN heap \cup {NULL}
  BY DEF IInv, TraversalInv, Reference
<1>2. req[t].key \in Key /\ req[t].value \in Value
  BY <1>1 DEF Request
<1>3. /\ DOMAIN heap' = DOMAIN heap /\ IsHeap(heap')
      /\ \A m \in DOMAIN heap : Children(heap', m) = Children(heap, m)
  <2>. DEFINE h2 == insertOp(heap, pn[t].p, req[t].key, req[t].value, NULL)
  <2>1. IsHeap(heap) /\ Closed(heap) /\ ~insertAllocates(heap, pn[t].p, req[t].key)
    BY DEF IInv, HeapInv, TypeOK, TemplateTypeOK
  <2>2. /\ DOMAIN h2 = DOMAIN heap /\ IsHeap(h2)
        /\ \A m \in DOMAIN heap : Children(h2, m) = Children(heap, m)
    BY <1>1, <1>2, <2>1, InsertReplaceLemma
  <2>3. heap' = h2
    OBVIOUS
  <2>. HIDE DEF h2
  <2>. QED
    BY <2>2, <2>3
<1>4. TypeOK'
  BY <1>3 DEF IInv, TypeOK, TemplateTypeOK, Labels, release, Pointer
<1>5. TraversalInv(t)'
  BY <1>3 DEF IInv, TypeOK, TraversalInv, Reference
<1>6. LockInv'
  <2>1. t \in Inside /\ Inside' = Inside \ {t}
    BY DEF Inside, IInv, TypeOK
  <2>. QED
    BY <2>1, LeaveLemma DEF IInv, TypeOK, TemplateTypeOK
<1>. QED
  BY <1>3, <1>4, <1>5, <1>6, MoveLemma DEF IInv, TypeOK

LEMMA InsertNodeStepLemma ==
    ASSUME IInv, NEW t \in Thread, InsertNode(t)
    PROVE  IInv'
<1>1. PICK n \in Node \ DOMAIN heap :
         /\ heap' = insertOp(heap, pn[t].p, req[t].key, req[t].value, n)
         /\ root' = IF pn[t].p = NULL THEN n ELSE root
  BY DEF InsertNode
<1>2. /\ pc[t] = "insert" /\ pc' = [pc EXCEPT ![t] = "return"]
      /\ insertAllocates(heap, pn[t].p, req[t].key)
      /\ release(NULL) /\ UNCHANGED <<req, pn, status, ret>>
  BY DEF InsertNode, Goto
<1>3. /\ req[t] \in Request /\ req[t].op = "insert"
      /\ pn[t].p \in DOMAIN heap \cup {NULL}
  BY <1>2 DEF IInv, TraversalInv, Reference
<1>4. req[t].key \in Key /\ req[t].value \in Value
  BY <1>3 DEF Request
<1>5. DOMAIN heap' = DOMAIN heap \cup {n} /\ IsHeap(heap') /\ Closed(heap')
  <2>. DEFINE h2 == insertOp(heap, pn[t].p, req[t].key, req[t].value, n)
  <2>1. IsHeap(heap) /\ Closed(heap)
    BY DEF IInv, HeapInv, TypeOK, TemplateTypeOK
  <2>2. /\ DOMAIN h2 = DOMAIN heap \cup {n} /\ IsHeap(h2) /\ Closed(h2)
        /\ AddsPointer(heap, h2, pn[t].p, n)
    BY <2>1, <1>2, <1>3, <1>4, InsertNodeLemma
  <2>3. heap' = h2
    BY <1>1
  <2>. HIDE DEF h2
  <2>. QED
    BY <2>2, <2>3
<1>6. TypeOK'
  BY <1>1, <1>2, <1>5 DEF IInv, TypeOK, TemplateTypeOK, Labels, release, Pointer
<1>7. HeapInv'
  BY <1>1, <1>5 DEF IInv, HeapInv, Reference
<1>8. \A u \in Thread : TraversalInv(u)'
  BY <1>2, <1>5 DEF IInv, TypeOK, TraversalInv, Reference
<1>9. LockInv'
  <2>1. t \in Inside /\ Inside' = Inside \ {t}
    BY <1>2 DEF Inside, IInv, TypeOK
  <2>. QED
    BY <1>2, <2>1, LeaveLemma DEF IInv, TypeOK, TemplateTypeOK
<1>. QED
  BY <1>6, <1>7, <1>8, <1>9 DEF IInv

LEMMA LookupValueLemma ==
    ASSUME IInv, NEW t \in Thread, LookupValue(t)
    PROVE  IInv'
<1>. USE DEF LookupValue, Goto
<1>1. status[t] = "FOUND" => get_value(heap, pn[t].p) \in Value
  <2>. SUFFICES ASSUME status[t] = "FOUND"
                PROVE  heap[pn[t].p].value \in Value
    BY DEF get_value
  <2>1. pn[t].p \in DOMAIN heap
    BY DEF IInv, TraversalInv, Reference
  <2>2. heap[pn[t].p] \in NodeFields
    BY <2>1 DEF IInv, TypeOK, TemplateTypeOK, IsHeap
  <2>. QED
    BY <2>2, DSAssumption DEF NodeFields, List!NodeFields, Tree!NodeFields
<1>2. TypeOK'
  BY <1>1 DEF IInv, TypeOK, TemplateTypeOK, Labels, release, Pointer
<1>3. TraversalInv(t)'
  BY DEF IInv, TypeOK, TraversalInv, Reference
<1>4. LockInv'
  <2>1. t \in Inside /\ Inside' = Inside \ {t}
    BY DEF Inside, IInv, TypeOK
  <2>. QED
    BY <2>1, LeaveLemma DEF IInv, TypeOK, TemplateTypeOK
<1>. QED
  BY <1>2, <1>3, <1>4, MoveLemma DEF IInv, TypeOK

LEMMA EndLemma ==
    ASSUME IInv, NEW t \in Thread, End(t)
    PROVE  IInv'
<1>. USE DEF End, Return, Goto, NoPn, IInv, TypeOK, TemplateTypeOK
<1>1. TypeOK'
  BY DEF Labels, Status, Pointer
<1>2. TraversalInv(t)'
  BY DEF TraversalInv, Reference
<1>3. LockInv'
  BY StayLemma DEF Inside
<1>. QED
  BY <1>1, <1>2, <1>3, MoveLemma

LEMMA NextLemma == IInv /\ [Next]_vars => IInv'
<1>. SUFFICES ASSUME IInv, [Next]_vars PROVE IInv'
  OBVIOUS
<1>1. CASE UNCHANGED vars
  BY <1>1 DEF vars, templateVars, IInv, TypeOK, TemplateTypeOK, HeapInv, Reference,
              TraversalInv, LockInv, Inside
<1>2. CASE Next
  <2>1. PICK t \in Thread : Begin(t) \/ Work(t)
    BY <1>2 DEF Next
  <2>. QED
    BY <2>1, BeginLemma, LockLemma, GetRootReadLemma, TraverseLemma,
       FindNextStepLemma, InsertReplaceStepLemma, InsertNodeStepLemma,
       LookupValueLemma, EndLemma
    DEF Work
<1>. QED
  BY <1>1, <1>2

LEMMA IInvLemma == Spec => []IInv
<1>1. Init => IInv
  BY DEF Init, TemplateInit, NoPn, IInv, TypeOK, TemplateTypeOK, IsHeap, Labels,
         Pointer, Status, HeapInv, Closed, Reference, TraversalInv, LockInv, Inside
<1>2. IInv /\ [Next]_vars => IInv'
  BY NextLemma
<1>. QED
  BY <1>1, <1>2, PTL DEF Spec

\* Every variable of coarse.c's state keeps its type, and no pointer leads to a
\* node that was not malloced, a root that was read before the lock was taken
\* included.
THEOREM TypeCorrect == Spec => [](TypeOK /\ NoDangling)
<1>1. IInv => TypeOK /\ NoDangling
  BY DEF IInv, TraversalInv, NoDangling
<1>. QED
  BY <1>1, IInvLemma, PTL

\* coarse.c's lock: one thread at a time between an acquire and its release,
\* which may be in another function, and the lock is taken only while there is
\* one.
THEOREM LockHolds == Spec => []LockInv
<1>1. IInv => LockInv
  BY DEF IInv
<1>. QED
  BY <1>1, IInvLemma, PTL

----------------------------------------------------------------------------
(* Searches.                                                               *)

\* No node has the hash of NULL, so that the comparison in traverse tells
\* whether there is a root.
NullSlotFree == \A n \in Node : Hash[n] # Hash[NULL]

\* Thread t has found where x belongs: a search comes there and ends there.
Arrived(t) ==
    LET p == pn[t].p
        x == req[t].key
    IN  /\ p \in Visited(heap, root, x)
        /\ p = NULL => status[t] = "CONTINUE"
        /\ p # NULL => /\ status[t] # "CONTINUE"
                       /\ status[t] = findNext(heap, p, p, x).status

\* The call of t is on its way there.
OnWay(t) ==
    /\ pc[t] \in {"idle", "get_root", "get_root_read", "traverse", "traverse_start"} =>
          pn[t].p = NULL /\ status[t] = "CONTINUE"
    /\ pc[t] \in {"traverse", "traverse_start"} => pn[t].n \in {NULL, root}
    /\ pc[t] = "find" => pn[t].n \in Visited(heap, root, req[t].key)
    /\ pc[t] \in {"insert", "lookup"} => Arrived(t) /\ req[t].op = pc[t]

SearchInv ==
    /\ IInv
    /\ Findable(heap, root)
    /\ root = NULL => DOMAIN heap = {}
    /\ \A t \in Thread : OnWay(t)

\* What the invariant says of the heap.
LEMMA HeapFacts ==
    ASSUME SearchInv
    PROVE  /\ IsHeap(heap) /\ Closed(heap) /\ root \in DOMAIN heap \cup {NULL}
           /\ NULL \notin DOMAIN heap
           /\ root = NULL => Linked(heap, root) = {}
BY NullAssumption
DEF SearchInv, IInv, HeapInv, Reference, TypeOK, TemplateTypeOK, IsHeap, Linked

\* A thread at insertOp_helper or lookupOp_helper is at the end of its search.
LEMMA ArrivedLemma ==
    ASSUME SearchInv, NEW t \in Thread, pc[t] \in {"insert", "lookup"}
    PROVE  LET p == pn[t].p
               x == req[t].key
           IN  /\ x \in Key /\ req[t] \in Request /\ Arrived(t)
               /\ Landing(heap, root, x) = {p}
               /\ p = NULL <=> root = NULL
               /\ p # NULL => p \in DOMAIN heap /\ \A c : ~Sends(heap, p, c, x)
               /\ status[t] = "FOUND" <=> p # NULL /\ heap[p].key = x
<1>. DEFINE p == pn[t].p
            x == req[t].key
<1>1. x \in Key /\ req[t] \in Request /\ Arrived(t)
  BY DEF SearchInv, IInv, TraversalInv, Request, OnWay
<1>2. p \in Visited(heap, root, x)
  BY <1>1 DEF Arrived
<1>3. p # NULL => p \in DOMAIN heap /\ root # NULL
  <2>1. CASE root = NULL
    BY <1>2, <2>1 DEF Visited
  <2>2. CASE root # NULL
    BY <1>2, <2>2, HeapFacts, VisitLemma
  <2>. QED
    BY <2>1, <2>2
<1>4. p # NULL => /\ status[t] = "FOUND" <=> heap[p].key = x
                  /\ \A c : ~Sends(heap, p, c, x)
  BY <1>1, <1>3, HeapFacts, StatusLemma DEF Arrived
<1>5. p = NULL => status[t] # "FOUND"
  BY <1>1 DEF Arrived
<1>. HIDE DEF p, x
<1>6. Landing(heap, root, x) = {p} /\ (p = NULL <=> root = NULL)
  BY <1>1, <1>2, <1>4, HeapFacts, LandingLemma
<1>. QED
  BY <1>1, <1>3, <1>4, <1>5, <1>6 DEF p, x

\* A step that leaves the structure alone has to be examined for its thread.
LEMMA CalmLemma ==
    ASSUME SearchInv, IInv', NEW t \in Thread, UNCHANGED <<heap, root>>,
           \A u \in Thread \ {t} :
              /\ pc'[u] = pc[u] /\ req'[u] = req[u]
              /\ pn'[u] = pn[u] /\ status'[u] = status[u],
           OnWay(t)'
    PROVE  SearchInv'
<1>1. \A u \in Thread \ {t} : OnWay(u)'
  BY DEF SearchInv, OnWay, Arrived
<1>. QED
  BY <1>1 DEF SearchInv

LEMMA BeforeFind ==
    ASSUME NullSlotFree, SearchInv, IInv', NEW t \in Thread,
           \/ Begin(t) \/ GetRootAcquire(t) \/ GetRootRead(t)
           \/ TraverseAcquire(t) \/ TraverseEmpty(t) \/ TraverseStart(t)
    PROVE  SearchInv'
<1>1. IInv /\ OnWay(t) /\ TraversalInv(t)
  BY DEF SearchInv, IInv
<1>. USE DEF IInv, TypeOK, TemplateTypeOK, Goto
<1>2. UNCHANGED <<heap, root>>
      /\ \A u \in Thread \ {t} :
              /\ pc'[u] = pc[u] /\ req'[u] = req[u]
              /\ pn'[u] = pn[u] /\ status'[u] = status[u]
  BY <1>1
  DEF Begin, Call, GetRootAcquire, GetRootRead, TraverseAcquire, TraverseEmpty,
      TraverseStart
<1>3. OnWay(t)'
  <2>1. CASE Begin(t)
    BY <2>1, <1>1 DEF Begin, Call, NoPn, OnWay
  <2>2. CASE GetRootAcquire(t)
    BY <2>2, <1>1 DEF GetRootAcquire, OnWay
  <2>3. CASE GetRootRead(t)
    BY <2>3, <1>1 DEF GetRootRead, OnWay
  <2>4. CASE TraverseAcquire(t)
    BY <2>4, <1>1 DEF TraverseAcquire, OnWay
  <2>5. CASE TraverseEmpty(t)
    <3>1. root = NULL
      BY <2>5, <1>1 DEF TraverseEmpty, NullSlotFree, Pointer
    <3>2. /\ pc'[t] \in {"insert", "lookup"} /\ pn' = pn /\ req' = req
          /\ status' = status
      BY <2>5, <1>1 DEF TraverseEmpty, Helper, TraversalInv, Request
    <3>3. pn[t].p = NULL /\ status[t] = "CONTINUE"
      BY <2>5, <1>1 DEF TraverseEmpty, OnWay
    <3>4. pn[t].p \in Visited(heap, root, req[t].key)
      BY <3>1, <3>3 DEF Visited
    <3>5. Arrived(t)'
      BY <3>2, <3>3, <3>4, <1>2 DEF Arrived
    <3>6. pc'[t] = req'[t].op
      BY <2>5, <1>1 DEF TraverseEmpty, Helper
    <3>. QED
      BY <3>2, <3>5, <3>6 DEF OnWay
  <2>6. CASE TraverseStart(t)
    <3>1. root # NULL
      BY <2>6, <1>1 DEF TraverseStart, OnWay
    <3>2. pn'[t].n = root /\ pc'[t] = "find" /\ req' = req
      BY <2>6, <1>1 DEF TraverseStart, OnWay
    <3>3. root \in Visited(heap, root, req[t].key)
      BY <3>1, HeapFacts, VisitLemma
    <3>. QED
      BY <3>2, <3>3, <1>2 DEF OnWay
  <2>. QED
    BY <2>1, <2>2, <2>3, <2>4, <2>5, <2>6
<1>. QED
  BY <1>2, <1>3, CalmLemma

LEMMA FindKeeps ==
    ASSUME SearchInv, IInv', NEW t \in Thread, FindNext(t)
    PROVE  SearchInv'
<1>. DEFINE p == pn[t].n
            x == req[t].key
            f == findNext(heap, p, p, x)
<1>1. /\ pc[t] = "find" /\ pn'[t] = [p |-> p, n |-> f.n] /\ status'[t] = f.status
      /\ pc'[t] = IF f.status = "CONTINUE" THEN "find" ELSE req[t].op
      /\ UNCHANGED <<heap, root, req>>
      /\ \A u \in Thread \ {t} :
              /\ pc'[u] = pc[u] /\ pn'[u] = pn[u] /\ status'[u] = status[u]
  BY DEF FindNext, Goto, Helper, SearchInv, IInv, TypeOK, TemplateTypeOK
<1>2. /\ p \in Visited(heap, root, x) /\ p # NULL /\ x \in Key
      /\ req[t].op \in {"insert", "lookup"}
  BY <1>1 DEF SearchInv, OnWay, IInv, TraversalInv, Request
<1>3. root # NULL /\ p \in DOMAIN heap
  <2>1. root # NULL
    BY <1>2 DEF Visited
  <2>. QED
    BY <2>1, <1>2, HeapFacts, VisitLemma
<1>4. f.status = "CONTINUE" => Sends(heap, p, f.n, x)
  BY DEF Sends
<1>. HIDE DEF p, x, f
<1>5. f.status = "CONTINUE" => f.n \in Visited(heap, root, x)
  BY <1>2, <1>3, <1>4, HeapFacts, SendsToChild, VisitLemma
<1>6. OnWay(t)'
  <2>1. CASE f.status = "CONTINUE"
    BY <2>1, <1>1, <1>5 DEF OnWay, x
  <2>2. CASE f.status # "CONTINUE"
    <3>1. Arrived(t)'
      BY <2>2, <1>1, <1>2 DEF Arrived, f, x
    <3>. QED
      BY <2>2, <3>1, <1>1, <1>2 DEF OnWay
  <2>. QED
    BY <2>1, <2>2
<1>. QED
  BY <1>1, <1>6, CalmLemma

\* The threads outside have no search under way that an insert could disturb.
LEMMA OutsideLemma ==
    ASSUME SearchInv, NEW t \in Thread, pc[t] = "insert", pc'[t] = "return",
           root \in {NULL, root'},
           \A u \in Thread \ {t} :
              /\ pc'[u] = pc[u] /\ req'[u] = req[u]
              /\ pn'[u] = pn[u] /\ status'[u] = status[u],
           NEW u \in Thread
    PROVE  OnWay(u)'
<1>1. u # t => u \notin Inside
  BY DEF SearchInv, IInv, LockInv, Inside
<1>2. CASE u = t
  BY <1>2 DEF OnWay
<1>3. CASE u # t
  BY <1>1, <1>3 DEF SearchInv, OnWay, Inside
<1>. QED
  BY <1>2, <1>3

\* InsertReplace and InsertNode write the map at the key.
LEMMA ReplaceKeeps ==
    ASSUME SearchInv, IInv', NEW t \in Thread, InsertReplace(t)
    PROVE  /\ SearchInv'
           /\ Contents(heap, root)' =
                 [Contents(heap, root) EXCEPT ![req[t].key] = req[t].value]
<1>. DEFINE p == pn[t].p
            x == req[t].key
            v == req[t].value
            h2 == insertOp(heap, p, x, v, NULL)
<1>1. /\ pc[t] = "insert" /\ pc'[t] = "return" /\ ~insertAllocates(heap, p, x)
      /\ heap' = h2 /\ root' = root
      /\ \A u \in Thread \ {t} :
              /\ pc'[u] = pc[u] /\ req'[u] = req[u]
              /\ pn'[u] = pn[u] /\ status'[u] = status[u]
  BY DEF InsertReplace, Goto, SearchInv, IInv, TypeOK, TemplateTypeOK
<1>2. p # NULL /\ heap[p].key = x
  BY <1>1, DSAssumption
  DEF insertAllocates, List!insertAllocates, Tree!insertAllocates
<1>3. /\ root # NULL /\ p \in Visited(heap, root, x) /\ x \in Key /\ v \in Value
  BY <1>1, <1>2, ArrivedLemma
  DEF Arrived, Request, SearchInv, IInv, TraversalInv
<1>4. /\ Findable(h2, root)
      /\ Contents(h2, root) = [Contents(heap, root) EXCEPT ![x] = v]
  BY <1>2, <1>3, HeapFacts, ReplaceLemma DEF SearchInv
<1>. HIDE DEF h2
<1>5. \A u \in Thread : OnWay(u)'
  BY <1>1, OutsideLemma
<1>. QED
  BY <1>1, <1>3, <1>4, <1>5 DEF SearchInv

LEMMA NodeKeeps ==
    ASSUME SearchInv, IInv', NEW t \in Thread, InsertNode(t)
    PROVE  /\ SearchInv'
           /\ Contents(heap, root)' =
                 [Contents(heap, root) EXCEPT ![req[t].key] = req[t].value]
<1>. DEFINE p == pn[t].p
            x == req[t].key
            v == req[t].value
<1>1. /\ pc[t] = "insert" /\ pc'[t] = "return" /\ insertAllocates(heap, p, x)
      /\ \A u \in Thread \ {t} :
              /\ pc'[u] = pc[u] /\ req'[u] = req[u]
              /\ pn'[u] = pn[u] /\ status'[u] = status[u]
  BY DEF InsertNode, Goto, SearchInv, IInv, TypeOK, TemplateTypeOK
<1>2. PICK n \in Node \ DOMAIN heap :
         /\ heap' = insertOp(heap, p, x, v, n)
         /\ root' = IF p = NULL THEN n ELSE root
  BY DEF InsertNode
<1>3. /\ x \in Key /\ v \in Value /\ Arrived(t)
      /\ p = NULL <=> root = NULL
      /\ p # NULL => p \in DOMAIN heap /\ \A c : ~Sends(heap, p, c, x)
  BY <1>1, ArrivedLemma DEF Request, SearchInv, IInv, TraversalInv
<1>. DEFINE h2 == insertOp(heap, p, x, v, n)
<1>4. /\ DOMAIN h2 = DOMAIN heap \cup {n} /\ IsHeap(h2) /\ Closed(h2)
      /\ AddsPointer(heap, h2, p, n)
  <2>1. p \in DOMAIN heap \cup {NULL}
    BY <1>3
  <2>. QED
    BY <1>1, <1>3, <2>1, HeapFacts, InsertNodeLemma
<1>5. root' \in {root, n} /\ root' # NULL /\ root \in {NULL, root'}
  BY <1>2, <1>3, NullAssumption
<1>6. \A u \in Thread : OnWay(u)'
  BY <1>1, <1>5, OutsideLemma
<1>7. /\ Findable(h2, root')
      /\ Contents(h2, root') = [Contents(heap, root) EXCEPT ![x] = v]
  <2>1. CASE p # NULL
    <3>1. /\ heap[p].key # x /\ p \in Visited(heap, root, x) /\ root \in DOMAIN heap
          /\ root' = root
      BY <1>1, <1>2, <1>3, <2>1, HeapFacts, DSAssumption
      DEF insertAllocates, List!insertAllocates, Tree!insertAllocates, Arrived
    <3>. QED
      BY <1>3, <2>1, <3>1, HeapFacts, InsertLemma DEF SearchInv
  <2>2. CASE p = NULL
    <3>1. root' = n /\ root = NULL /\ DOMAIN heap = {}
      BY <1>2, <1>3, <2>2 DEF SearchInv
    <3>2. DOMAIN h2 = {n}
      BY <1>4, <3>1
    <3>3. h2[n].key = x /\ h2[n].value = v /\ Children(h2, n) = {}
      <4>1. CASE DS = "list"
        <5>1. h2[n] = [key |-> x, value |-> v, next |-> NULL]
          BY <2>2, <4>1 DEF insertOp, List!insertOp, List!Malloced
        <5>. HIDE DEF h2
        <5>. QED
          BY <4>1, <5>1 DEF Children, List!Children
      <4>2. CASE DS = "bst"
        <5>1. h2[n] = [key |-> x, value |-> v, left |-> NULL, right |-> NULL]
          BY <2>2, <4>2 DEF insertOp, Tree!insertOp, Tree!Malloced
        <5>. HIDE DEF h2
        <5>. QED
          BY <4>2, <5>1 DEF Children, Tree!Children
      <4>. QED
        BY <4>1, <4>2, DSAssumption
    <3>. HIDE DEF h2
    <3>4. /\ Findable(h2, n)
          /\ Contents(h2, n) = [Contents(h2, NULL) EXCEPT ![x] = v]
          /\ Linked(h2, NULL) = {}
      BY <1>4, <3>2, <3>3, RootLemma
    <3>5. Contents(h2, NULL) = Contents(heap, NULL)
      BY <3>1, <3>4 DEF Contents, Linked
    <3>. QED
      BY <3>1, <3>4, <3>5
  <2>. QED
    BY <2>1, <2>2
<1>. HIDE DEF h2
<1>8. heap' = h2
  BY <1>2 DEF h2
<1>. QED
  BY <1>5, <1>6, <1>7, <1>8 DEF SearchInv

LEMMA AfterKeeps ==
    ASSUME SearchInv, IInv', NEW t \in Thread, LookupValue(t) \/ End(t)
    PROVE  SearchInv'
<1>1. IInv
  BY DEF SearchInv
<1>. USE DEF LookupValue, End, Return, Goto, NoPn, IInv, TypeOK, TemplateTypeOK
<1>2. UNCHANGED <<heap, root>>
      /\ \A u \in Thread \ {t} :
              /\ pc'[u] = pc[u] /\ req'[u] = req[u]
              /\ pn'[u] = pn[u] /\ status'[u] = status[u]
  BY <1>1
<1>3. OnWay(t)'
  BY <1>1 DEF OnWay
<1>. QED
  BY <1>2, <1>3, CalmLemma

LEMMA SearchNextLemma == NullSlotFree /\ SearchInv /\ [Next]_vars => SearchInv'
<1>. SUFFICES ASSUME NullSlotFree, SearchInv, [Next]_vars PROVE SearchInv'
  OBVIOUS
<1>1. IInv'
  BY NextLemma DEF SearchInv
<1>2. CASE UNCHANGED vars
  BY <1>1, <1>2 DEF vars, templateVars, SearchInv, OnWay, Arrived
<1>3. CASE Next
  <2>1. PICK t \in Thread : Begin(t) \/ Work(t)
    BY <1>3 DEF Next
  <2>. QED
    BY <1>1, <2>1, BeforeFind, FindKeeps, ReplaceKeeps, NodeKeeps, AfterKeeps DEF Work
<1>. QED
  BY <1>2, <1>3

LEMMA SearchInitLemma == Init => SearchInv
<1>. SUFFICES ASSUME Init PROVE SearchInv
  OBVIOUS
<1>1. IInv
  BY DEF Init, TemplateInit, NoPn, IInv, TypeOK, TemplateTypeOK, IsHeap, Labels,
         Pointer, Status, HeapInv, Closed, Reference, TraversalInv, LockInv, Inside
<1>2. DOMAIN heap = {} /\ \A t \in Thread : OnWay(t)
  BY DEF Init, TemplateInit, NoPn, OnWay
<1>. QED
  BY <1>1, <1>2 DEF SearchInv, Findable, Linked

LEMMA SearchInvLemma == NullSlotFree /\ Spec => []SearchInv
<1>. SUFFICES ASSUME NullSlotFree PROVE Spec => []SearchInv
  OBVIOUS
<1>1. Init => SearchInv
  BY SearchInitLemma
<1>2. SearchInv /\ [Next]_vars => SearchInv'
  BY SearchNextLemma
<1>. QED
  BY <1>1, <1>2, PTL DEF Spec

\* In coarse.c a traversal is always on the way to its key, and the helper that
\* follows it is called for the node where the key belongs, although css->root
\* was read before the lock was taken.
THEOREM KeysetKept == NullSlotFree /\ Spec => []KeysetInv
<1>1. SearchInv => KeysetInv
  <2>. SUFFICES ASSUME SearchInv, NEW t \in Thread
                PROVE  /\ pc[t] = "find" =>
                             pn[t].n \in Visited(heap, root, req[t].key)
                       /\ pc[t] \in {"insert", "lookup"} => TraverseResult(t)
    BY DEF KeysetInv
  <2>1. pc[t] = "find" => pn[t].n \in Visited(heap, root, req[t].key)
    BY DEF SearchInv, OnWay
  <2>2. pc[t] \in {"insert", "lookup"} => TraverseResult(t)
    BY ArrivedLemma DEF TraverseResult, Arrived
  <2>. QED
    BY <2>1, <2>2
<1>. QED
  BY <1>1, SearchInvLemma, PTL

\* Nothing that was inserted with coarse.c gets lost: a search for the key of a
\* node of the structure ends at the node, which no other node's key equals.
THEOREM NothingLost == NullSlotFree /\ Spec => []SearchStructure
<1>1. SearchInv => SearchStructure
  BY HeapFacts, FindableLemma DEF SearchInv, SearchStructure
<1>. QED
  BY <1>1, SearchInvLemma, PTL

----------------------------------------------------------------------------
(* The calls are atomic.                                                   *)

MapPhase == [t \in Thread |-> Phase(t)]

\* How a step changes the phase of its call.
LEMMA PhaseLemma ==
    ASSUME SearchInv, NEW t \in Thread, NEW label, pc' = [pc EXCEPT ![t] = label]
    PROVE  /\ MapPhase[t] = Phase(t)
           /\ MapPhase' = [MapPhase EXCEPT ![t] =
                 IF label = "idle" THEN "idle"
                 ELSE IF label = "return" THEN "done" ELSE "called"]
<1>1. /\ pc'[t] = label /\ \A u \in Thread \ {t} : pc'[u] = pc[u]
  BY DEF SearchInv, IInv, TypeOK
<1>2. \A u \in Thread \ {t} : Phase(u)' = Phase(u)
  BY <1>1 DEF Phase
<1>3. Phase(t)' = IF label = "idle" THEN "idle"
                  ELSE IF label = "return" THEN "done" ELSE "called"
  BY <1>1 DEF Phase
<1>. QED
  BY <1>2, <1>3 DEF MapPhase

\* The step in which insertOp_helper calls insertOp is that of insert_spec, the
\* one in which lookupOp_helper reads the value that of lookup_spec; a call and
\* a return are theirs, and no other step changes the map or the phase.
LEMMA RefineLemma ==
    NullSlotFree /\ SearchInv /\ [Next]_vars => [Map!Next]_(Map!vars)
<1>. SUFFICES ASSUME NullSlotFree, SearchInv, [Next]_vars
              PROVE  \/ Map!Next
                     \/ UNCHANGED <<Contents(heap, root), req, MapPhase, ret>>
  BY DEF Map!vars, MapPhase
<1>1. CASE UNCHANGED vars
  BY <1>1 DEF vars, templateVars, MapPhase, Phase
<1>2. ASSUME NEW t \in Thread,
             Begin(t) \/ Work(t)
      PROVE  \/ Map!Next
             \/ UNCHANGED <<Contents(heap, root), req, MapPhase, ret>>
  <2>1. IInv' /\ IInv
    BY <1>2, NextLemma DEF SearchInv, Next
  <2>2. CASE Begin(t)
    <3>1. pc[t] = "idle" /\ pc' = [pc EXCEPT ![t] = "get_root"]
      BY <2>2 DEF Begin, Call, Goto
    <3>2. MapPhase[t] = "idle" /\ MapPhase' = [MapPhase EXCEPT ![t] = "called"]
      <4>1. MapPhase[t] = "idle"
        BY <3>1, PhaseLemma DEF Phase
      <4>2. MapPhase' = [MapPhase EXCEPT ![t] =
                           IF "get_root" = "idle" THEN "idle"
                           ELSE IF "get_root" = "return" THEN "done" ELSE "called"]
        BY <3>1, PhaseLemma
      <4>. QED
        BY <4>1, <4>2
    <3>3. /\ \E r \in Request : req' = [req EXCEPT ![t] = r]
          /\ UNCHANGED <<heap, root, ret>>
      BY <2>2 DEF Begin, Call
    <3>4. Map!Call(t)
      BY <3>2, <3>3 DEF Map!Call, MapPhase, Map!Request, Request
    <3>. QED
      BY <3>4 DEF Map!Next
  <2>3. CASE \/ GetRootAcquire(t) \/ GetRootRead(t) \/ TraverseAcquire(t)
             \/ TraverseEmpty(t) \/ TraverseStart(t) \/ FindNext(t)
    <3>1. /\ UNCHANGED <<heap, root, req, ret>>
          /\ pc[t] \notin {"idle", "return"}
          /\ \E label \in Labels \ {"idle", "return"} : pc' = [pc EXCEPT ![t] = label]
      <4>1. pc[t] \in {"traverse_start", "find"} => req[t].op \in {"insert", "lookup"}
        BY <2>1 DEF IInv, TraversalInv, Request
      <4>. QED
        BY <2>3, <4>1
        DEF GetRootAcquire, GetRootRead, TraverseAcquire, TraverseEmpty,
            TraverseStart, FindNext, Goto, Helper, Labels
    <3>2. PICK label \in Labels \ {"idle", "return"} : pc' = [pc EXCEPT ![t] = label]
      BY <3>1
    <3>3. MapPhase[t] = "called" /\ MapPhase' = [MapPhase EXCEPT ![t] = "called"]
      BY <3>1, <3>2, PhaseLemma DEF Phase
    <3>4. MapPhase' = MapPhase
      BY <3>3 DEF MapPhase
    <3>. QED
      BY <3>1, <3>4
  <2>4. CASE InsertReplace(t) \/ InsertNode(t)
    <3>1. /\ pc[t] = "insert" /\ pc' = [pc EXCEPT ![t] = "return"]
          /\ UNCHANGED <<req, ret>>
      BY <2>4 DEF InsertReplace, InsertNode, Goto
    <3>2. req[t].op = "insert"
      BY <2>1, <3>1 DEF IInv, TraversalInv
    <3>3. Contents(heap, root)' =
             [Contents(heap, root) EXCEPT ![req[t].key] = req[t].value]
      BY <2>1, <2>4, ReplaceKeeps, NodeKeeps
    <3>4. MapPhase[t] = "called" /\ MapPhase' = [MapPhase EXCEPT ![t] = "done"]
      BY <3>1, PhaseLemma DEF Phase
    <3>5. Map!Insert(t)
      BY <3>1, <3>2, <3>3, <3>4 DEF Map!Insert, MapPhase
    <3>. QED
      BY <3>5 DEF Map!Next
  <2>5. CASE LookupValue(t)
    <3>1. /\ pc[t] = "lookup" /\ pc' = [pc EXCEPT ![t] = "return"]
          /\ UNCHANGED <<heap, root, req>>
          /\ ret' = [ret EXCEPT ![t] = IF status[t] = "FOUND"
                                       THEN heap[pn[t].p].value ELSE NULL]
      BY <2>5 DEF LookupValue, Goto, get_value
    <3>2. req[t].op = "lookup"
      BY <3>1 DEF SearchInv, OnWay
    <3>3. ret'[t] = Contents(heap, root)[req[t].key]
      <4>. DEFINE p == pn[t].p
                  x == req[t].key
      <4>1. /\ x \in Key /\ Arrived(t)
            /\ p # NULL => \A c : ~Sends(heap, p, c, x)
            /\ status[t] = "FOUND" <=> p # NULL /\ heap[p].key = x
        BY <3>1, ArrivedLemma
      <4>2. p \in Visited(heap, root, x) /\ Findable(heap, root)
        BY <4>1 DEF Arrived, SearchInv
      <4>3. ret'[t] = IF status[t] = "FOUND" THEN heap[p].value ELSE NULL
        BY <2>1, <3>1 DEF IInv, TypeOK, TemplateTypeOK
      <4>. HIDE DEF p, x
      <4>4. /\ p # NULL /\ heap[p].key = x => Contents(heap, root)[x] = heap[p].value
            /\ ~(p # NULL /\ heap[p].key = x) => Contents(heap, root)[x] = NULL
        BY <4>1, <4>2, HeapFacts, ReadLemma
      <4>. QED
        BY <4>1, <4>3, <4>4 DEF p, x
    <3>4. ret' = [ret EXCEPT ![t] = Contents(heap, root)[req[t].key]]
      BY <2>1, <3>1, <3>3 DEF IInv, TypeOK, TemplateTypeOK
    <3>5. MapPhase[t] = "called" /\ MapPhase' = [MapPhase EXCEPT ![t] = "done"]
      BY <3>1, PhaseLemma DEF Phase
    <3>6. Map!Lookup(t)
      BY <3>1, <3>2, <3>4, <3>5 DEF Map!Lookup, MapPhase
    <3>. QED
      BY <3>6 DEF Map!Next
  <2>6. CASE End(t)
    <3>1. /\ pc[t] = "return" /\ pc' = [pc EXCEPT ![t] = "idle"]
          /\ req' = [req EXCEPT ![t] = NoRequest] /\ ret' = [ret EXCEPT ![t] = NULL]
          /\ UNCHANGED <<heap, root>>
      BY <2>6 DEF End, Return, Goto
    <3>2. MapPhase[t] = "done" /\ MapPhase' = [MapPhase EXCEPT ![t] = "idle"]
      BY <3>1, PhaseLemma DEF Phase
    <3>3. Map!Return(t)
      BY <3>1, <3>2 DEF Map!Return, MapPhase, Map!NoRequest, NoRequest
    <3>. QED
      BY <3>3 DEF Map!Next
  <2>. QED
    BY <1>2, <2>2, <2>3, <2>4, <2>5, <2>6 DEF Work
<1>. QED
  BY <1>1, <1>2 DEF Next

\* Linked with coarse.c, insert and lookup of template.c are atomic operations on
\* a map (insert_spec, lookup_spec), for any number of threads that call them.
THEOREM CallsAreAtomic == NullSlotFree /\ Spec => Linearizable
<1>. SUFFICES ASSUME NullSlotFree PROVE Spec => Linearizable
  OBVIOUS
<1>1. Init => Map!Init
  <2>. SUFFICES ASSUME Init PROVE Map!Init
    OBVIOUS
  <2>1. Linked(heap, root) = {} /\ \A t \in Thread : Phase(t) = "idle"
    BY DEF Init, TemplateInit, Linked, Phase
  <2>. QED
    BY <2>1 DEF Init, TemplateInit, Map!Init, Contents, Map!NoRequest, NoRequest
<1>2. SearchInv /\ [Next]_vars => [Map!Next]_(Map!vars)
  BY RefineLemma
<1>3. Spec => []SearchInv
  BY SearchInvLemma
<1>. QED
  BY <1>1, <1>2, <1>3, PTL DEF Spec, Linearizable, Map!Spec
=============================================================================
