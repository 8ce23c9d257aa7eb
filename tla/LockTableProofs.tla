-------------------------- MODULE LockTableProofs --------------------------
(***************************************************************************)
(* The inductive invariants of the two templates that have a lock per      *)
(* node, and that the steps they have in common preserve them, for any     *)
(* number of threads, nodes and keys, provided that the hash has no        *)
(* collisions: IInv about the locks and the table, SearchInv about the way *)
(* of a traversal; and that these steps are those of an atomic map.        *)
(***************************************************************************)
EXTENDS LockTable, DataStructureProofs

----------------------------------------------------------------------------
(* The inductive invariant.                                                *)

\* A node or NULL.
Reference == DOMAIN heap \cup {NULL}

\* The md_entry of p is in the table.
Ready(p) == lookup_md(p) = p

\* The structure has no pointer that leads outside the malloced nodes.
HeapInv == Closed(heap) /\ root \in Reference /\ Ready(root)

\* A slot holds the md_entry of its pointer or nothing, and nothing for a
\* node that was not malloced.
MetadataInv ==
    /\ metadata[Hash[NULL]] = NULL
    /\ \A n \in Node : metadata[Hash[n]] \in {n, Uninit}
    /\ \A n \in Node \ DOMAIN heap : metadata[Hash[n]] = Uninit

\* The only pointer to a node without an md_entry is that of the node p whose
\* lock the inserter holds.
LinkInv ==
    \A m \in DOMAIN heap : \A n \in Children(heap, m) :
        \/ Ready(n)
        \/ \E t \in Thread : pc[t] = "metadata" /\ new[t] = n /\ pn[t].p = m

\* What traverse leaves in pn and status on the way and for the helpers.
TraversalInv(t) ==
    /\ pc[t] # "idle" => req[t] \in Request
    /\ pc[t] \in {"insert", "metadata"} => req[t].op = "insert"
    /\ pn[t].p \in Reference /\ pn[t].n \in Reference
    /\ pc[t] \in {"idle", "get_root", "get_root_read", "traverse", "traverse_start"} =>
          pn[t].p = NULL /\ status[t] # "FOUND"
    /\ pc[t] \in {"node", "find", "next", "prev"} => pn[t].n # NULL
    /\ pc[t] = "lookup" /\ status[t] = "FOUND" => pn[t].p # NULL

\* The md_entry a thread works with is that of the node it means to lock or
\* to release.
EntryInv(t) ==
    /\ md[t] \in Pointer /\ Ready(md[t])
    /\ pc[t] \in {"get_root", "get_root_read"} => md[t] = NULL
    /\ pc[t] \in {"traverse", "traverse_start", "node", "next"} => md[t] = pn[t].n
    /\ pc[t] \in {"prev", "release_new", "release_p"} => md[t] = pn[t].p

\* The node an inserter has malloced has no md_entry before the inserter
\* makes it.
NewInv(t) ==
    /\ pc[t] \in {"metadata", "release_new"} => new[t] \in DOMAIN heap
    /\ pc[t] = "metadata" => lookup_md(new[t]) = Uninit

\* A node in use has its md_entry, and the two nodes that a thread uses at a
\* time are different.
HeldInv(t) ==
    /\ \A p \in Held(t) : Ready(p)
    /\ pc[t] = "prev" => pn[t].p # pn[t].n
    /\ pc[t] = "release_new" => pn[t].p # new[t]

ThreadInv(t) == TraversalInv(t) /\ EntryInv(t) /\ NewInv(t) /\ HeldInv(t)

\* Two inserters have malloced two nodes.
NewDistinct ==
    \A t, u \in Thread :
        t # u /\ pc[t] = "metadata" /\ pc[u] = "metadata" => new[t] # new[u]

\* What the threads go by leads to nodes that were malloced: the fields of the
\* nodes, css->root, pn, the md_entry in a thread's hand and new_node.
NoDangling ==
    /\ Closed(heap)
    /\ root \in Reference
    /\ \A t \in Thread :
          /\ {pn[t].p, pn[t].n, md[t]} \subseteq Reference
          /\ pc[t] \in {"metadata", "release_new"} => new[t] \in DOMAIN heap

IInv ==
    /\ TypeOK
    /\ HeapInv
    /\ MetadataInv
    /\ LinkInv
    /\ \A t \in Thread : ThreadInv(t)
    /\ NewDistinct
    /\ MutualExclusion
    /\ LockInv

----------------------------------------------------------------------------
(* What the invariant says of pointers and of the table.                   *)

LEMMA NoDanglingLemma == IInv => NoDangling
<1>. SUFFICES ASSUME IInv PROVE NoDangling
  OBVIOUS
<1>1. Closed(heap) /\ root \in Reference
  BY DEF IInv, HeapInv
<1>2. ASSUME NEW t \in Thread
      PROVE  /\ pn[t].p \in Reference /\ pn[t].n \in Reference
             /\ md[t] \in Pointer /\ Ready(md[t])
             /\ pc[t] \in {"metadata", "release_new"} => new[t] \in DOMAIN heap
  BY DEF IInv, ThreadInv, TraversalInv, EntryInv, NewInv
<1>3. ASSUME NEW p \in Pointer, Ready(p)
      PROVE  p \in Reference
  BY <1>3, UninitAssumption
  DEF IInv, MetadataInv, Ready, lookup_md, Reference, Pointer
<1>. QED
  BY <1>1, <1>2, <1>3 DEF NoDangling

LEMMA LocksFoundLemma == IInv => LocksFound
BY DEF IInv, ThreadInv, HeldInv, Ready, LocksFound

----------------------------------------------------------------------------
(* The locks: what one thread does to its nodes and their locks.           *)

\* The other threads' nodes in use are what they were.
OthersHold(t) == \A u \in Thread \ {t} : Held(u)' = Held(u)

Exclusion == MutualExclusion /\ LockInv

LEMMA KeepLemma ==
    ASSUME NEW t \in Thread, Exclusion, OthersHold(t),
           lock' = lock, Held(t)' = Held(t)
    PROVE  Exclusion'
<1>1. \A u \in Thread : Held(u)' = Held(u)
  BY DEF OthersHold
<1>. QED
  BY <1>1 DEF Exclusion, MutualExclusion, LockInv

\* A thread that finds a lock free adds its node to those it uses.
LEMMA AcquireLemma ==
    ASSUME NEW t \in Thread, Exclusion, OthersHold(t),
           lock \in [Pointer -> {0, 1}],
           NEW l \in Pointer, lock[l] = 0, lock' = [lock EXCEPT ![l] = 1],
           Held(t)' = Held(t) \cup {l}
    PROVE  Exclusion'
<1>1. \A u \in Thread : l \notin Held(u)
  BY DEF Exclusion, LockInv
<1>2. MutualExclusion'
  BY <1>1 DEF Exclusion, MutualExclusion, OthersHold
<1>3. LockInv'
  <2>. SUFFICES ASSUME NEW k \in Pointer
                PROVE  lock'[k] = 1 <=> \E u \in Thread : k \in Held(u)'
    BY DEF LockInv
  <2>1. CASE k = l
    BY <2>1
  <2>2. CASE k # l
    <3>1. lock'[k] = lock[k]
      BY <2>2
    <3>2. \A u \in Thread : k \in Held(u)' <=> k \in Held(u)
      BY <2>2 DEF OthersHold
    <3>. QED
      BY <3>1, <3>2 DEF Exclusion, LockInv
  <2>. QED
    BY <2>1, <2>2
<1>. QED
  BY <1>2, <1>3 DEF Exclusion

\* A thread that releases the lock of a node stops using it.
LEMMA ReleaseLemma ==
    ASSUME NEW t \in Thread, Exclusion, OthersHold(t),
           lock \in [Pointer -> {0, 1}],
           NEW l \in Pointer, l \in Held(t), lock' = [lock EXCEPT ![l] = 0],
           Held(t)' = Held(t) \ {l}
    PROVE  Exclusion'
<1>1. \A u \in Thread \ {t} : l \notin Held(u)
  BY DEF Exclusion, MutualExclusion
<1>2. MutualExclusion'
  BY DEF Exclusion, MutualExclusion, OthersHold
<1>3. LockInv'
  <2>. SUFFICES ASSUME NEW k \in Pointer
                PROVE  lock'[k] = 1 <=> \E u \in Thread : k \in Held(u)'
    BY DEF LockInv
  <2>1. CASE k = l
    BY <2>1, <1>1 DEF OthersHold
  <2>2. CASE k # l
    <3>1. lock'[k] = lock[k]
      BY <2>2
    <3>2. \A u \in Thread : k \in Held(u)' <=> k \in Held(u)
      BY <2>2 DEF OthersHold
    <3>. QED
      BY <3>1, <3>2 DEF Exclusion, LockInv
  <2>. QED
    BY <2>1, <2>2
<1>. QED
  BY <1>2, <1>3 DEF Exclusion

----------------------------------------------------------------------------
(* What a step of thread t leaves to the other threads.                    *)

\* Their program counters and locals.
Others(t) ==
    \A u \in Thread \ {t} :
        /\ pc'[u] = pc[u] /\ req'[u] = req[u] /\ pn'[u] = pn[u]
        /\ status'[u] = status[u] /\ md'[u] = md[u] /\ new'[u] = new[u]

LEMMA OthersHoldLemma ==
    ASSUME NEW t \in Thread, Others(t)
    PROVE  OthersHold(t)
BY DEF Others, OthersHold, Held

\* What is known of a thread stays true as nodes and md_entries are added.
LEMMA OthersLemma ==
    ASSUME NEW t \in Thread, TypeOK, Others(t),
           \A u \in Thread : ThreadInv(u),
           DOMAIN heap \subseteq DOMAIN heap',
           \A p \in Pointer : Ready(p) => Ready(p)',
           \A u \in Thread \ {t} :
              pc[u] = "metadata" => lookup_md(new[u])' = Uninit
    PROVE  \A u \in Thread \ {t} : ThreadInv(u)'
<1>. SUFFICES ASSUME NEW u \in Thread \ {t}
              PROVE  ThreadInv(u)'
  OBVIOUS
<1>1. ThreadInv(u)
  OBVIOUS
<1>2. TraversalInv(u)'
  BY <1>1 DEF ThreadInv, TraversalInv, Others, Reference
<1>3. EntryInv(u)'
  BY <1>1 DEF ThreadInv, EntryInv, Others
<1>4. NewInv(u)'
  BY <1>1 DEF ThreadInv, NewInv, Others
<1>5. HeldInv(u)'
  <2>1. Held(u)' = Held(u)
    BY OthersHoldLemma DEF OthersHold
  <2>2. Held(u) \subseteq Pointer
    BY DEF Held, TypeOK, TemplateTypeOK
  <2>. QED
    BY <1>1, <2>1, <2>2 DEF ThreadInv, HeldInv, Others
<1>. QED
  BY <1>2, <1>3, <1>4, <1>5 DEF ThreadInv

\* A step that adds no node, no pointer and no md_entry has to be examined for
\* thread t only.
LEMMA MoveLemma ==
    ASSUME NEW t \in Thread, IInv, Others(t),
           DOMAIN heap' = DOMAIN heap, root' = root, metadata' = metadata,
           \A m \in DOMAIN heap : Children(heap', m) = Children(heap, m),
           pc[t] # "metadata", pc'[t] # "metadata",
           TypeOK', ThreadInv(t)', Exclusion'
    PROVE  IInv'
<1>1. \A p : lookup_md(p)' = lookup_md(p)
  BY DEF lookup_md
<1>2. \A u \in Thread : ThreadInv(u)'
  <2>1. \A u \in Thread \ {t} : ThreadInv(u)'
    BY <1>1, OthersLemma DEF IInv, Ready, ThreadInv, NewInv, Others
  <2>. QED
    BY <2>1
<1>3. HeapInv'
  BY <1>1 DEF IInv, HeapInv, Closed, Reference, Ready
<1>4. MetadataInv'
  BY DEF IInv, MetadataInv
<1>5. LinkInv'
  <2>. SUFFICES ASSUME NEW m \in DOMAIN heap, NEW n \in Children(heap, m)
                PROVE  \/ Ready(n)'
                       \/ \E u \in Thread :
                             pc'[u] = "metadata" /\ new'[u] = n /\ pn'[u].p = m
    BY DEF LinkInv
  <2>1. CASE Ready(n)
    BY <2>1, <1>1 DEF Ready
  <2>2. CASE \E u \in Thread : pc[u] = "metadata" /\ new[u] = n /\ pn[u].p = m
    BY <2>2 DEF Others
  <2>. QED
    BY <2>1, <2>2 DEF IInv, LinkInv
<1>6. NewDistinct'
  BY DEF IInv, NewDistinct, Others
<1>. QED
  BY <1>2, <1>3, <1>4, <1>5, <1>6 DEF IInv, Exclusion

----------------------------------------------------------------------------
(* The steps preserve the invariant.                                       *)

LEMMA BeginLemma ==
    ASSUME IInv, NEW t \in Thread, Begin(t)
    PROVE  IInv'
<1>. USE DEF Begin, Call, Goto, Remember
<1>1. PICK r \in Request : req' = [req EXCEPT ![t] = r]
  OBVIOUS
<1>2. lookup_md(NULL) = NULL
  BY DEF IInv, MetadataInv, lookup_md
<1>3. TypeOK'
  BY <1>1, <1>2 DEF IInv, TypeOK, TemplateTypeOK, NoPn, Labels, Pointer
<1>4. Others(t)
  BY DEF Others, IInv, TypeOK, TemplateTypeOK
<1>5. ThreadInv(t)'
  <2>1. ThreadInv(t)
    BY DEF IInv
  <2>2. TraversalInv(t)'
    BY <1>1, <2>1
    DEF IInv, TypeOK, TemplateTypeOK, TraversalInv, ThreadInv, NoPn, Reference
  <2>3. EntryInv(t)'
    BY <1>2 DEF IInv, TypeOK, EntryInv, Ready, lookup_md, Pointer
  <2>4. NewInv(t)' /\ HeldInv(t)'
    BY DEF IInv, TypeOK, NewInv, HeldInv, Held
  <2>. QED
    BY <2>2, <2>3, <2>4 DEF ThreadInv
<1>6. Exclusion'
  <2>1. Held(t) = {} /\ Held(t)' = {}
    BY DEF Held, IInv, TypeOK
  <2>. QED
    BY <2>1, <1>4, OthersHoldLemma, KeepLemma DEF IInv, Exclusion
<1>. QED
  BY <1>3, <1>4, <1>5, <1>6, MoveLemma DEF TypeOK, IInv

LEMMA GetRootAcquireLemma ==
    ASSUME IInv, NEW t \in Thread, GetRootAcquire(t)
    PROVE  IInv'
<1>. USE DEF GetRootAcquire, Goto
<1>1. ThreadInv(t)
  BY DEF IInv
<1>2. md[t] = NULL /\ acquire(NULL)
  BY <1>1 DEF ThreadInv, EntryInv, AcquireMd
<1>3. TypeOK'
  BY <1>2 DEF IInv, TypeOK, TemplateTypeOK, Labels, acquire, Pointer
<1>4. Others(t)
  BY DEF Others, IInv, TypeOK
<1>5. Held(t)' = Held(t) \cup {NULL}
  BY DEF Held, IInv, TypeOK, Pointer
<1>6. ThreadInv(t)'
  <2>1. TraversalInv(t)' /\ NewInv(t)'
    BY <1>1 DEF IInv, TypeOK, ThreadInv, TraversalInv, NewInv, Reference
  <2>2. EntryInv(t)' /\ HeldInv(t)'
    BY <1>1, <1>2, <1>5
    DEF IInv, TypeOK, ThreadInv, EntryInv, HeldInv, Ready, lookup_md
  <2>. QED
    BY <2>1, <2>2 DEF ThreadInv
<1>7. Exclusion'
  <2>1. lock[NULL] = 0 /\ lock' = [lock EXCEPT ![NULL] = 1]
    BY <1>2 DEF acquire
  <2>. QED
    BY <2>1, <1>4, <1>5, OthersHoldLemma, AcquireLemma
    DEF IInv, Exclusion, TypeOK, TemplateTypeOK, Pointer
<1>. QED
  BY <1>3, <1>4, <1>6, <1>7, MoveLemma DEF TypeOK, IInv

\* The two acquires of the lock of pn->n.
LEMMA AcquireNLemma ==
    ASSUME IInv, NEW t \in Thread, TraverseAcquire(t) \/ AcquireNode(t)
    PROVE  IInv'
<1>1. /\ \/ pc[t] = "traverse" /\ pc' = [pc EXCEPT ![t] = "traverse_start"]
         \/ pc[t] = "node" /\ pc' = [pc EXCEPT ![t] = "find"]
      /\ AcquireMd(t)
      /\ UNCHANGED <<heap, root, req, pn, status, ret, metadata, md, new>>
  BY DEF TraverseAcquire, AcquireNode, Goto
<1>2. ThreadInv(t)
  BY DEF IInv
<1>3. md[t] = pn[t].n /\ pn[t].n \in Pointer /\ acquire(pn[t].n) /\ Ready(pn[t].n)
  BY <1>1, <1>2 DEF ThreadInv, EntryInv, AcquireMd
<1>4. TypeOK'
  BY <1>1, <1>3 DEF IInv, TypeOK, TemplateTypeOK, Labels, acquire
<1>5. Others(t)
  BY <1>1 DEF Others, IInv, TypeOK
<1>6. Held(t)' = Held(t) \cup {pn[t].n}
  BY <1>1, <1>3 DEF Held, IInv, TypeOK
<1>7. ThreadInv(t)'
  <2>1. TraversalInv(t)' /\ NewInv(t)'
    BY <1>1, <1>2 DEF IInv, TypeOK, ThreadInv, TraversalInv, NewInv, Reference
  <2>2. EntryInv(t)' /\ HeldInv(t)'
    BY <1>1, <1>2, <1>3, <1>6
    DEF IInv, TypeOK, ThreadInv, EntryInv, HeldInv, Ready, lookup_md
  <2>. QED
    BY <2>1, <2>2 DEF ThreadInv
<1>8. Exclusion'
  <2>1. lock[pn[t].n] = 0 /\ lock' = [lock EXCEPT ![pn[t].n] = 1]
    BY <1>3 DEF acquire
  <2>. QED
    BY <2>1, <1>3, <1>5, <1>6, OthersHoldLemma, AcquireLemma
    DEF IInv, Exclusion, TypeOK, TemplateTypeOK
<1>. QED
  BY <1>1, <1>4, <1>5, <1>7, <1>8, MoveLemma DEF TypeOK, IInv

\* The two releases before the loop: get_root's, and that of traverse.  What
\* the thread goes to next is the root, or the root it has read before.
LEMMA ReleaseNLemma ==
    ASSUME IInv, NEW t \in Thread, GetRootRead(t) \/ TraverseStart(t)
    PROVE  IInv'
<1>1. ThreadInv(t)
  BY DEF IInv
<1>2. /\ root \in Pointer /\ Ready(root) /\ root \in Reference /\ Ready(NULL)
      /\ pn[t].n \in Pointer
  BY DEF IInv, HeapInv, MetadataInv, Ready, lookup_md, TypeOK, TemplateTypeOK
<1>3. PICK n \in Pointer, l \in Pointer :
         /\ \/ /\ pc[t] = "get_root_read" /\ pc' = [pc EXCEPT ![t] = "traverse"]
               /\ l = NULL
            \/ /\ pc[t] = "traverse_start" /\ pc' = [pc EXCEPT ![t] = "node"]
               /\ l = pn[t].n /\ n # NULL
         /\ n \in Reference /\ Ready(n)
         /\ l = md[t]
         /\ pn' = [pn EXCEPT ![t].n = n]
         /\ release(l)
         /\ md' = [md EXCEPT ![t] = lookup_md(n)]
         /\ UNCHANGED <<heap, root, req, status, ret, metadata, new>>
  <2>1. CASE GetRootRead(t)
    <3>1. md[t] = NULL /\ NULL \in Pointer
      BY <2>1, <1>1 DEF GetRootRead, ThreadInv, EntryInv, Pointer
    <3>. QED
      BY <2>1, <3>1, <1>2 DEF GetRootRead, Goto, Remember, ReleaseMd
  <2>2. CASE TraverseStart(t)
    <3>. DEFINE n == IF pn[t].n = NULL THEN root ELSE pn[t].n
    <3>1. md[t] = pn[t].n /\ Ready(pn[t].n) /\ pn[t].n \in Reference
      BY <2>2, <1>1 DEF TraverseStart, ThreadInv, EntryInv, TraversalInv
    <3>2. n \in Pointer /\ n \in Reference /\ Ready(n) /\ n # NULL
      BY <2>2, <3>1, <1>2 DEF TraverseStart
    <3>3. /\ pc[t] = "traverse_start" /\ pc' = [pc EXCEPT ![t] = "node"]
          /\ pn' = [pn EXCEPT ![t].n = n]
          /\ ReleaseMd(t)
          /\ md' = [md EXCEPT ![t] = lookup_md(n)]
          /\ UNCHANGED <<heap, root, req, status, ret, metadata, new>>
      BY <2>2 DEF TraverseStart, Goto, Remember
    <3>. HIDE DEF n
    <3>. QED
      BY <3>1, <3>2, <3>3, <1>2 DEF ReleaseMd
  <2>. QED
    BY <2>1, <2>2
<1>4. lookup_md(n) = n
  BY <1>3 DEF Ready
<1>5. TypeOK'
  BY <1>3, <1>4 DEF IInv, TypeOK, TemplateTypeOK, Labels, release
<1>6. Others(t)
  BY <1>3 DEF Others, IInv, TypeOK, TemplateTypeOK
<1>7. l \in Held(t) /\ Held(t) = {l} /\ Held(t)' = {}
  BY <1>3 DEF Held, IInv, TypeOK
<1>8. ThreadInv(t)'
  <2>1. TraversalInv(t)' /\ NewInv(t)'
    BY <1>1, <1>3
    DEF IInv, TypeOK, TemplateTypeOK, ThreadInv, TraversalInv, NewInv, Reference
  <2>2. EntryInv(t)' /\ HeldInv(t)'
    BY <1>3, <1>4, <1>7
    DEF IInv, TypeOK, TemplateTypeOK, EntryInv, HeldInv, Ready, lookup_md
  <2>. QED
    BY <2>1, <2>2 DEF ThreadInv
<1>9. Exclusion'
  <2>1. lock' = [lock EXCEPT ![l] = 0]
    BY <1>3 DEF release
  <2>2. Held(t)' = Held(t) \ {l}
    BY <1>7
  <2>. QED
    BY <2>1, <2>2, <1>6, <1>7, OthersHoldLemma, ReleaseLemma
    DEF IInv, Exclusion, TypeOK, TemplateTypeOK
<1>. QED
  BY <1>3, <1>5, <1>6, <1>8, <1>9, MoveLemma DEF TypeOK, IInv

LEMMA TraverseEmptyLemma ==
    ASSUME IInv, NEW t \in Thread, TraverseEmpty(t)
    PROVE  IInv'
<1>. USE DEF TraverseEmpty, Goto, Helper
<1>1. ThreadInv(t)
  BY DEF IInv
<1>2. req[t] \in Request /\ pn[t].p = NULL
  BY <1>1 DEF ThreadInv, TraversalInv
<1>3. req[t].op \in {"insert", "lookup"}
  BY <1>2 DEF Request
<1>4. TypeOK'
  BY <1>3 DEF IInv, TypeOK, TemplateTypeOK, Labels
<1>5. Others(t)
  BY DEF Others, IInv, TypeOK
<1>6. Held(t)' = Held(t)
  BY <1>2, <1>3 DEF Held, IInv, TypeOK
<1>7. ThreadInv(t)'
  <2>1. TraversalInv(t)' /\ NewInv(t)'
    BY <1>1, <1>3 DEF IInv, TypeOK, ThreadInv, TraversalInv, NewInv, Reference
  <2>2. EntryInv(t)' /\ HeldInv(t)'
    BY <1>1, <1>3, <1>6
    DEF IInv, TypeOK, ThreadInv, EntryInv, HeldInv, Ready, lookup_md
  <2>. QED
    BY <2>1, <2>2 DEF ThreadInv
<1>8. Exclusion'
  BY <1>5, <1>6, OthersHoldLemma, KeepLemma DEF IInv, Exclusion
<1>. QED
  BY <1>3, <1>4, <1>5, <1>7, <1>8, MoveLemma DEF IInv, TypeOK

LEMMA InsertReplaceStepLemma ==
    ASSUME IInv, NEW t \in Thread, InsertReplace(t)
    PROVE  IInv'
<1>. USE DEF InsertReplace, Goto, Remember
<1>1. ThreadInv(t)
  BY DEF IInv
<1>2. /\ req[t] \in Request /\ req[t].op = "insert"
      /\ pn[t].p \in DOMAIN heap \cup {NULL} /\ pn[t].p \in Pointer
  BY <1>1 DEF ThreadInv, TraversalInv, Reference, IInv, TypeOK, TemplateTypeOK
<1>3. req[t].key \in Key /\ req[t].value \in Value
  BY <1>2 DEF Request
<1>4. /\ DOMAIN heap' = DOMAIN heap /\ IsHeap(heap')
      /\ \A m \in DOMAIN heap : Children(heap', m) = Children(heap, m)
  <2>. DEFINE h2 == insertOp(heap, pn[t].p, req[t].key, req[t].value, NULL)
  <2>1. IsHeap(heap) /\ Closed(heap) /\ ~insertAllocates(heap, pn[t].p, req[t].key)
    BY DEF IInv, HeapInv, TypeOK, TemplateTypeOK
  <2>2. /\ DOMAIN h2 = DOMAIN heap /\ IsHeap(h2)
        /\ \A m \in DOMAIN heap : Children(h2, m) = Children(heap, m)
    BY <2>1, <1>2, <1>3, InsertReplaceLemma
  <2>3. heap' = h2
    OBVIOUS
  <2>. HIDE DEF h2
  <2>. QED
    BY <2>2, <2>3
<1>5. lookup_md(pn[t].p) = pn[t].p
  BY <1>1, <1>2 DEF ThreadInv, HeldInv, Held, Ready, InsertReplace, LookupValue
<1>6. TypeOK'
  BY <1>2, <1>4, <1>5 DEF IInv, TypeOK, TemplateTypeOK, Labels
<1>7. Others(t)
  BY DEF Others, IInv, TypeOK
<1>8. Held(t)' = Held(t)
  BY DEF Held, IInv, TypeOK
<1>9. ThreadInv(t)'
  <2>1. TraversalInv(t)' /\ NewInv(t)'
    BY <1>1, <1>4 DEF IInv, TypeOK, ThreadInv, TraversalInv, NewInv, Reference
  <2>2. EntryInv(t)'
    BY <1>2, <1>5, <1>1
    DEF IInv, ThreadInv, TypeOK, EntryInv, Ready, lookup_md
  <2>3. HeldInv(t)'
    BY <1>1, <1>8 DEF IInv, TypeOK, ThreadInv, HeldInv, Ready, lookup_md
  <2>. QED
    BY <2>1, <2>2, <2>3 DEF ThreadInv
<1>10. Exclusion'
  BY <1>7, <1>8, OthersHoldLemma, KeepLemma DEF IInv, Exclusion
<1>. QED
  BY <1>4, <1>6, <1>7, <1>9, <1>10, MoveLemma DEF IInv, TypeOK

LEMMA InsertNodeStepLemma ==
    ASSUME IInv, NEW t \in Thread, InsertNode(t)
    PROVE  IInv'
<1>1. PICK n \in Node \ DOMAIN heap :
         /\ heap' = insertOp(heap, pn[t].p, req[t].key, req[t].value, n)
         /\ new' = [new EXCEPT ![t] = n]
  BY DEF InsertNode
<1>2. /\ pc[t] = "insert"
      /\ insertAllocates(heap, pn[t].p, req[t].key)
      /\ pc' = [pc EXCEPT ![t] = "metadata"]
      /\ UNCHANGED <<root, lock, req, pn, status, ret, metadata, md>>
  BY DEF InsertNode, Goto
<1>3. ThreadInv(t)
  BY DEF IInv
<1>4. /\ req[t] \in Request /\ req[t].op = "insert"
      /\ pn[t].p \in DOMAIN heap \cup {NULL} /\ pn[t].p \in Pointer
  BY <1>2, <1>3 DEF ThreadInv, TraversalInv, Reference, IInv, TypeOK, TemplateTypeOK
<1>5. req[t].key \in Key /\ req[t].value \in Value
  BY <1>4 DEF Request
<1>6. /\ DOMAIN heap' = DOMAIN heap \cup {n} /\ IsHeap(heap') /\ Closed(heap')
      /\ AddsPointer(heap, heap', pn[t].p, n)
  <2>. DEFINE h2 == insertOp(heap, pn[t].p, req[t].key, req[t].value, n)
  <2>1. IsHeap(heap) /\ Closed(heap)
    BY DEF IInv, HeapInv, TypeOK, TemplateTypeOK
  <2>2. /\ DOMAIN h2 = DOMAIN heap \cup {n} /\ IsHeap(h2) /\ Closed(h2)
        /\ AddsPointer(heap, h2, pn[t].p, n)
    BY <2>1, <1>2, <1>4, <1>5, InsertNodeLemma
  <2>3. heap' = h2
    BY <1>1
  <2>. HIDE DEF h2
  <2>. QED
    BY <2>2, <2>3
<1>7. TypeOK'
  BY <1>1, <1>2, <1>6 DEF IInv, TypeOK, TemplateTypeOK, Labels, Pointer
<1>8. Others(t)
  BY <1>1, <1>2 DEF Others, IInv, TypeOK
<1>9. Held(t)' = Held(t)
  BY <1>2 DEF Held, IInv, TypeOK
<1>10. lookup_md(n) = Uninit /\ \A p : lookup_md(p)' = lookup_md(p)
  BY <1>2 DEF IInv, MetadataInv, lookup_md
<1>11. \A u \in Thread : ThreadInv(u)'
  <2>1. TraversalInv(t)'
    BY <1>2, <1>3, <1>6 DEF IInv, TypeOK, ThreadInv, TraversalInv, Reference
  <2>2. NewInv(t)'
    BY <1>1, <1>2, <1>6, <1>10 DEF IInv, TypeOK, NewInv
  <2>3. EntryInv(t)' /\ HeldInv(t)'
    BY <1>2, <1>3, <1>9 DEF IInv, TypeOK, ThreadInv, EntryInv, HeldInv, Ready, lookup_md
  <2>4. \A u \in Thread \ {t} : ThreadInv(u)'
    BY <1>6, <1>8, <1>10, OthersLemma DEF IInv, Ready, ThreadInv, NewInv, Others
  <2>. QED
    BY <2>1, <2>2, <2>3, <2>4 DEF ThreadInv
<1>12. HeapInv' /\ MetadataInv'
  BY <1>2, <1>6, <1>10 DEF IInv, HeapInv, MetadataInv, Reference, Ready
<1>13. NewDistinct'
  <2>1. \A u \in Thread \ {t} : pc[u] = "metadata" => new[u] # n
    BY <1>1 DEF IInv, ThreadInv, NewInv
  <2>. QED
    BY <1>1, <1>2, <1>8, <2>1 DEF IInv, TypeOK, NewDistinct, Others
<1>14. Exclusion'
  BY <1>2, <1>8, <1>9, OthersHoldLemma, KeepLemma DEF IInv, Exclusion
<1>15. LinkInv'
  <2>. SUFFICES ASSUME NEW m \in DOMAIN heap', NEW c \in Children(heap', m)
                PROVE  \/ Ready(c)'
                       \/ \E u \in Thread :
                             pc'[u] = "metadata" /\ new'[u] = c /\ pn'[u].p = m
    BY DEF LinkInv
  <2>1. \A d \in Children(heap, pn[t].p) : pn[t].p \in DOMAIN heap => Ready(d)
    <3>. SUFFICES ASSUME NEW d \in Children(heap, pn[t].p), pn[t].p \in DOMAIN heap,
                         NEW u \in Thread, pc[u] = "metadata", pn[u].p = pn[t].p
                  PROVE  FALSE
      BY DEF IInv, LinkInv
    <3>1. u # t /\ pn[t].p \in Held(t) /\ pn[t].p \in Held(u)
      BY <1>2, <1>4 DEF Held
    <3>. QED
      BY <3>1 DEF IInv, MutualExclusion
  <2>2. CASE m \in DOMAIN heap /\ c \in Children(heap, m)
    <3>1. CASE Ready(c)
      BY <3>1, <1>10 DEF Ready
    <3>2. CASE \E u \in Thread : pc[u] = "metadata" /\ new[u] = c /\ pn[u].p = m
      BY <3>2, <1>2, <1>8 DEF Others
    <3>. QED
      BY <2>2, <3>1, <3>2 DEF IInv, LinkInv
  <2>3. CASE m = pn[t].p /\ c = n
    BY <2>3, <1>1, <1>2 DEF IInv, TypeOK
  <2>4. CASE m = n /\ pn[t].p \in DOMAIN heap /\ c \in Children(heap, pn[t].p)
    BY <2>1, <2>4, <1>10 DEF Ready
  <2>. QED
    BY <2>2, <2>3, <2>4, <1>6 DEF AddsPointer
<1>. QED
  BY <1>7, <1>11, <1>12, <1>13, <1>14, <1>15 DEF IInv, Exclusion

\* The step that needs a slot for each node: the new md_entry replaces none.
LEMMA InsertMetadataLemma ==
    ASSUME HashInjective, IInv, NEW t \in Thread, InsertMetadata(t)
    PROVE  IInv'
<1>. DEFINE n == new[t]
<1>1. /\ pc[t] = "metadata"
      /\ metadata' = [metadata EXCEPT ![Hash[n]] = n]
      /\ lock' = [lock EXCEPT ![n] = 1]
      /\ root' = IF pn[t].p = NULL THEN n ELSE root
      /\ md' = [md EXCEPT ![t] = metadata'[Hash[pn[t].p]]]
      /\ pc' = [pc EXCEPT ![t] = "release_new"]
      /\ UNCHANGED <<heap, req, pn, status, ret, new>>
  BY DEF InsertMetadata, Goto, Remember
<1>2. ThreadInv(t)
  BY DEF IInv
<1>3. n \in DOMAIN heap /\ n \in Node /\ n \in Pointer /\ lookup_md(n) = Uninit
  BY <1>1, <1>2 DEF ThreadInv, NewInv, IInv, TypeOK, TemplateTypeOK, IsHeap, Pointer
<1>. HIDE DEF n
<1>4. \A p \in Pointer : lookup_md(p)' = IF p = n THEN n ELSE lookup_md(p)
  BY <1>1, <1>3 DEF HashInjective, lookup_md, IInv, TypeOK, Index
<1>5. \A p \in Pointer : Ready(p) => Ready(p)' /\ p # n
  BY <1>3, <1>4, UninitAssumption DEF Ready
<1>6. pn[t].p \in Pointer /\ pn[t].p # n /\ Ready(pn[t].p)
  BY <1>1, <1>2, <1>5 DEF ThreadInv, HeldInv, Held, IInv, TypeOK, TemplateTypeOK
<1>7. md' = [md EXCEPT ![t] = pn[t].p]
  BY <1>1, <1>4, <1>6 DEF Ready, lookup_md
<1>8. TypeOK'
  BY <1>1, <1>3, <1>6, <1>7 DEF IInv, TypeOK, TemplateTypeOK, Labels
<1>9. Others(t)
  BY <1>1 DEF Others, IInv, TypeOK
<1>10. Held(t)' = Held(t) \cup {n}
  BY <1>1, <1>3 DEF Held, IInv, TypeOK, n
<1>11. HeapInv' /\ MetadataInv'
  <2>1. HeapInv'
    <3>1. root \in Pointer /\ Ready(root) /\ root' \in {root, n}
      BY <1>1 DEF IInv, HeapInv, TypeOK, TemplateTypeOK
    <3>2. Ready(root)'
      BY <1>3, <1>4, <3>1 DEF Ready, lookup_md
    <3>. QED
      BY <1>1, <1>3, <3>1, <3>2 DEF IInv, HeapInv, Reference
  <2>2. MetadataInv'
    BY <1>1, <1>3, <1>4, NullAssumption DEF IInv, MetadataInv, lookup_md, Pointer
  <2>. QED
    BY <2>1, <2>2
<1>12. \A u \in Thread : ThreadInv(u)'
  <2>1. TraversalInv(t)' /\ NewInv(t)'
    BY <1>1, <1>2, <1>3 DEF IInv, TypeOK, ThreadInv, TraversalInv, NewInv, Reference, n
  <2>2. EntryInv(t)'
    BY <1>1, <1>5, <1>6, <1>7 DEF IInv, TypeOK, EntryInv
  <2>3. HeldInv(t)'
    <3>1. \A p \in Held(t) : p \in Pointer /\ Ready(p)
      BY <1>2 DEF ThreadInv, HeldInv, Held
    <3>2. Ready(n)'
      BY <1>1, <1>3 DEF Ready, lookup_md, IInv, TypeOK, Index, n
    <3>. QED
      BY <1>1, <1>5, <1>6, <1>10, <3>1, <3>2 DEF IInv, TypeOK, HeldInv, n
  <2>4. \A u \in Thread \ {t} : pc[u] = "metadata" => lookup_md(new[u])' = Uninit
    <3>. SUFFICES ASSUME NEW u \in Thread \ {t}, pc[u] = "metadata"
                  PROVE  lookup_md(new[u])' = Uninit
      OBVIOUS
    <3>1. new[u] # n /\ new[u] \in Pointer /\ lookup_md(new[u]) = Uninit
      BY <1>1 DEF IInv, NewDistinct, ThreadInv, NewInv, TypeOK, n
    <3>2. (Hash[new[u]] # Hash[n]) /\ new'[u] = new[u]
      BY <1>1, <1>3, <3>1 DEF HashInjective
    <3>. QED
      BY <1>1, <1>3, <3>1, <3>2 DEF lookup_md, IInv, TypeOK, Index
  <2>5. \A u \in Thread \ {t} : ThreadInv(u)'
    BY <1>1, <1>5, <1>9, <2>4, OthersLemma DEF IInv
  <2>. QED
    BY <2>1, <2>2, <2>3, <2>5 DEF ThreadInv
<1>13. NewDistinct'
  BY <1>1 DEF IInv, TypeOK, NewDistinct
<1>14. Exclusion'
  <2>1. \A u \in Thread : n \notin Held(u)
    BY <1>3, <1>5 DEF IInv, ThreadInv, HeldInv
  <2>2. lock[n] = 0
    BY <1>3, <2>1 DEF IInv, LockInv, TypeOK, TemplateTypeOK
  <2>. QED
    BY <1>1, <1>3, <1>9, <1>10, <2>2, OthersHoldLemma, AcquireLemma
    DEF IInv, Exclusion, TypeOK, TemplateTypeOK
<1>15. LinkInv'
  <2>. SUFFICES ASSUME NEW m \in DOMAIN heap, NEW c \in Children(heap, m)
                PROVE  \/ Ready(c)'
                       \/ \E u \in Thread :
                             pc'[u] = "metadata" /\ new'[u] = c /\ pn'[u].p = m
    BY <1>1 DEF LinkInv
  <2>1. c \in Pointer
    BY DEF IInv, HeapInv, Closed, TypeOK, TemplateTypeOK, IsHeap, Pointer
  <2>2. CASE Ready(c) \/ c = n
    BY <2>1, <2>2, <1>3, <1>4, <1>5 DEF Ready
  <2>3. CASE \E u \in Thread \ {t} : pc[u] = "metadata" /\ new[u] = c /\ pn[u].p = m
    BY <2>3, <1>9 DEF Others
  <2>. QED
    BY <2>2, <2>3 DEF IInv, LinkInv, n
<1>. QED
  BY <1>8, <1>11, <1>12, <1>13, <1>14, <1>15 DEF IInv, Exclusion

LEMMA ReleaseNewLemma ==
    ASSUME IInv, NEW t \in Thread, ReleaseNew(t)
    PROVE  IInv'
<1>. USE DEF ReleaseNew, Goto
<1>1. ThreadInv(t)
  BY DEF IInv
<1>2. new[t] \in Pointer /\ release(new[t])
  BY DEF IInv, TypeOK
<1>3. TypeOK'
  BY <1>2 DEF IInv, TypeOK, TemplateTypeOK, Labels, release, Pointer
<1>4. Others(t)
  BY DEF Others, IInv, TypeOK
<1>5. new[t] \in Held(t) /\ Held(t)' = Held(t) \ {new[t]}
  BY <1>1, <1>2 DEF Held, IInv, TypeOK, ThreadInv, HeldInv
<1>6. ThreadInv(t)'
  <2>1. TraversalInv(t)' /\ NewInv(t)'
    BY <1>1 DEF IInv, TypeOK, ThreadInv, TraversalInv, NewInv, Reference
  <2>2. EntryInv(t)'
    BY <1>1 DEF IInv, TypeOK, ThreadInv, EntryInv, Ready, lookup_md
  <2>3. HeldInv(t)'
    BY <1>1, <1>5 DEF IInv, TypeOK, ThreadInv, HeldInv, Ready, lookup_md
  <2>. QED
    BY <2>1, <2>2, <2>3 DEF ThreadInv
<1>7. Exclusion'
  <2>1. lock' = [lock EXCEPT ![new[t]] = 0]
    BY <1>2 DEF release
  <2>. QED
    BY <2>1, <1>2, <1>4, <1>5, OthersHoldLemma, ReleaseLemma
    DEF IInv, Exclusion, TypeOK, TemplateTypeOK
<1>. QED
  BY <1>3, <1>4, <1>6, <1>7, MoveLemma DEF IInv, TypeOK

LEMMA ReleasePLemma ==
    ASSUME IInv, NEW t \in Thread, ReleaseP(t)
    PROVE  IInv'
<1>. USE DEF ReleaseP, Goto
<1>1. ThreadInv(t)
  BY DEF IInv
<1>2. pn[t].p \in Pointer /\ release(pn[t].p)
  BY <1>1 DEF ThreadInv, EntryInv, ReleaseMd
<1>3. TypeOK'
  BY <1>2 DEF IInv, TypeOK, TemplateTypeOK, Labels, release, Pointer
<1>4. Others(t)
  BY DEF Others, IInv, TypeOK
<1>5. pn[t].p \in Held(t) /\ Held(t)' = Held(t) \ {pn[t].p}
  BY <1>1, <1>2 DEF Held, IInv, TypeOK, ThreadInv, HeldInv
<1>6. ThreadInv(t)'
  <2>1. TraversalInv(t)' /\ NewInv(t)'
    BY <1>1 DEF IInv, TypeOK, ThreadInv, TraversalInv, NewInv, Reference
  <2>2. EntryInv(t)'
    BY <1>1 DEF IInv, TypeOK, ThreadInv, EntryInv, Ready, lookup_md
  <2>3. HeldInv(t)'
    BY <1>1, <1>5 DEF IInv, TypeOK, ThreadInv, HeldInv, Ready, lookup_md
  <2>. QED
    BY <2>1, <2>2, <2>3 DEF ThreadInv
<1>7. Exclusion'
  <2>1. lock' = [lock EXCEPT ![pn[t].p] = 0]
    BY <1>2 DEF release
  <2>. QED
    BY <2>1, <1>2, <1>4, <1>5, OthersHoldLemma, ReleaseLemma
    DEF IInv, Exclusion, TypeOK, TemplateTypeOK
<1>. QED
  BY <1>3, <1>4, <1>6, <1>7, MoveLemma DEF IInv, TypeOK

LEMMA LookupValueLemma ==
    ASSUME IInv, NEW t \in Thread, LookupValue(t)
    PROVE  IInv'
<1>. USE DEF LookupValue, Goto, Remember
<1>1. ThreadInv(t)
  BY DEF IInv
<1>2. pn[t].p \in Pointer
  BY DEF IInv, TypeOK, TemplateTypeOK
<1>3. status[t] = "FOUND" => get_value(heap, pn[t].p) \in Value
  <2>. SUFFICES ASSUME status[t] = "FOUND"
                PROVE  heap[pn[t].p].value \in Value
    BY DEF get_value
  <2>1. pn[t].p \in DOMAIN heap
    BY <1>1 DEF ThreadInv, TraversalInv, Reference
  <2>2. heap[pn[t].p] \in NodeFields
    BY <2>1 DEF IInv, TypeOK, TemplateTypeOK, IsHeap
  <2>. QED
    BY <2>2, DSAssumption DEF NodeFields, List!NodeFields, Tree!NodeFields
<1>4. lookup_md(pn[t].p) = pn[t].p
  BY <1>1, <1>2 DEF ThreadInv, HeldInv, Held, Ready, InsertReplace, LookupValue
<1>5. TypeOK'
  BY <1>2, <1>3, <1>4 DEF IInv, TypeOK, TemplateTypeOK, Labels
<1>6. Others(t)
  BY DEF Others, IInv, TypeOK
<1>7. Held(t)' = Held(t)
  BY DEF Held, IInv, TypeOK
<1>8. ThreadInv(t)'
  <2>1. TraversalInv(t)' /\ NewInv(t)'
    BY <1>1 DEF IInv, TypeOK, ThreadInv, TraversalInv, NewInv, Reference
  <2>2. EntryInv(t)'
    BY <1>2, <1>4, <1>1
    DEF IInv, ThreadInv, TypeOK, EntryInv, Ready, lookup_md
  <2>3. HeldInv(t)'
    BY <1>1, <1>7 DEF IInv, TypeOK, ThreadInv, HeldInv, Ready, lookup_md
  <2>. QED
    BY <2>1, <2>2, <2>3 DEF ThreadInv
<1>9. Exclusion'
  BY <1>6, <1>7, OthersHoldLemma, KeepLemma DEF IInv, Exclusion
<1>. QED
  BY <1>5, <1>6, <1>8, <1>9, MoveLemma DEF IInv, TypeOK

LEMMA EndLemma ==
    ASSUME IInv, NEW t \in Thread, End(t)
    PROVE  IInv'
<1>. USE DEF End, Return, Goto, Remember, NoPn
<1>1. TypeOK'
  BY DEF IInv, TypeOK, TemplateTypeOK, Labels, Status, Pointer
<1>2. Others(t)
  BY DEF Others, IInv, TypeOK, TemplateTypeOK
<1>3. Held(t) = {} /\ Held(t)' = {}
  BY DEF Held, IInv, TypeOK
<1>4. ThreadInv(t)'
  <2>1. TraversalInv(t)' /\ NewInv(t)'
    BY DEF IInv, TypeOK, TemplateTypeOK, TraversalInv, NewInv, Reference
  <2>2. EntryInv(t)' /\ HeldInv(t)'
    BY <1>3 DEF IInv, TypeOK, MetadataInv, EntryInv, HeldInv, Ready, lookup_md,
                Pointer
  <2>. QED
    BY <2>1, <2>2 DEF ThreadInv
<1>5. Exclusion'
  BY <1>2, <1>3, OthersHoldLemma, KeepLemma DEF IInv, Exclusion
<1>. QED
  BY <1>1, <1>2, <1>4, <1>5, MoveLemma DEF IInv, TypeOK

\* What findNext makes of the node a traversal has locked: where it sends the
\* traversal there is a node, and its md_entry is in the table, as nobody else
\* links nodes behind the locked one.
LEMMA FindLemma ==
    ASSUME IInv, NEW t \in Thread, pc[t] = "find"
    PROVE  LET p == pn[t].n
               f == findNext(heap, p, p, req[t].key)
           IN  /\ p \in DOMAIN heap /\ p \in Pointer /\ p # NULL
               /\ req[t].op \in {"insert", "lookup"} /\ req[t].key \in Key
               /\ f.status \in Status /\ f.n \in Reference /\ f.n \in Pointer
               /\ f.status = "CONTINUE" => f.n # NULL /\ Ready(f.n)
<1>. DEFINE p == pn[t].n
            f == findNext(heap, p, p, req[t].key)
<1>1. ThreadInv(t)
  BY DEF IInv
<1>2. req[t].op \in {"insert", "lookup"} /\ req[t].key \in Key
  BY <1>1 DEF ThreadInv, TraversalInv, Request
<1>3. p \in DOMAIN heap /\ p \in Pointer /\ p # NULL
  BY <1>1 DEF ThreadInv, TraversalInv, Reference, IInv, TypeOK, TemplateTypeOK
<1>4. /\ f.status \in Status
      /\ f.status = "CONTINUE" => f.n \in DOMAIN heap /\ f.n \in Children(heap, p)
      /\ f.n \in DOMAIN heap \cup {NULL, p}
  BY <1>2, <1>3, FindNextLemma DEF IInv, HeapInv, TypeOK, TemplateTypeOK
<1>. HIDE DEF f
<1>5. f.n \in Reference /\ f.n \in Pointer
  BY <1>3, <1>4 DEF Reference, IInv, TypeOK, TemplateTypeOK, IsHeap, Pointer
<1>6. ASSUME f.status = "CONTINUE"
      PROVE  f.n # NULL /\ Ready(f.n)
  <2>1. f.n # NULL
    BY <1>4, <1>6, NullAssumption DEF IInv, TypeOK, TemplateTypeOK, IsHeap
  <2>2. ASSUME NEW u \in Thread, pc[u] = "metadata", pn[u].p = p
        PROVE  FALSE
    <3>1. u # t /\ p \in Held(t) /\ p \in Held(u)
      BY <1>3, <2>2 DEF Held
    <3>. QED
      BY <3>1 DEF IInv, MutualExclusion
  <2>. QED
    BY <2>1, <2>2, <1>3, <1>4, <1>6 DEF IInv, LinkInv
<1>. QED
  BY <1>2, <1>3, <1>4, <1>5, <1>6 DEF f

----------------------------------------------------------------------------
LEMMA TableInitLemma == HashInjective /\ TableInit => IInv
<1>. SUFFICES ASSUME HashInjective, TableInit PROVE IInv
  OBVIOUS
<1>. USE DEF TableInit, TemplateInit
<1>1. DOMAIN heap = {}
  OBVIOUS
<1>2. MetadataInv /\ Ready(NULL)
  BY NullAssumption DEF MetadataInv, HashInjective, Index, Pointer, Ready, lookup_md
<1>3. TypeOK
  BY <1>1 DEF TypeOK, TemplateTypeOK, IsHeap, NoPn, Pointer, Status, Labels
<1>4. HeapInv /\ LinkInv
  BY <1>1, <1>2 DEF HeapInv, LinkInv, Closed, Reference
<1>5. \A t \in Thread : Held(t) = {}
  BY DEF Held
<1>6. \A t \in Thread : ThreadInv(t)
  BY <1>2, <1>5 DEF ThreadInv, TraversalInv, EntryInv, NewInv, HeldInv, NoPn,
                    Reference, Pointer
<1>7. NewDistinct /\ MutualExclusion /\ LockInv
  BY <1>5 DEF NewDistinct, MutualExclusion, LockInv
<1>. QED
  BY <1>2, <1>3, <1>4, <1>6, <1>7 DEF IInv

LEMMA StutterLemma == IInv /\ UNCHANGED tableVars => IInv'
<1>. SUFFICES ASSUME IInv, UNCHANGED tableVars PROVE IInv'
  OBVIOUS
<1>. USE DEF tableVars, templateVars
<1>1. \A t \in Thread : Held(t)' = Held(t)
  BY DEF Held
<1>. QED
  BY <1>1
  DEF IInv, TypeOK, TemplateTypeOK, HeapInv, Closed, Reference, LinkInv, MetadataInv,
      ThreadInv, TraversalInv, EntryInv, NewInv, HeldInv, Ready, lookup_md,
      NewDistinct, MutualExclusion, LockInv

\* The invariant says that what is linked in has its md_entry, but for the
\* node the inserter is about to give one.
LEMMA PublishedLemma == IInv => Published
<1>. SUFFICES ASSUME IInv PROVE Published
  OBVIOUS
<1>1. \A t \in Thread : md[t] # Uninit
  BY UninitAssumption DEF IInv, ThreadInv, EntryInv
<1>2. ASSUME NEW n \in Linked(heap, root)
      PROVE  \/ lookup_md(n) = n
             \/ \E t \in Thread : pc[t] = "metadata" /\ new[t] = n /\ n # root
  <2>1. Ready(root) /\ root \in Pointer
    BY DEF IInv, HeapInv, TypeOK, TemplateTypeOK
  <2>2. CASE n = root
    BY <2>1, <2>2 DEF Ready
  <2>3. CASE \E m \in DOMAIN heap : n \in Children(heap, m)
    <3>1. \/ Ready(n)
          \/ \E t \in Thread : pc[t] = "metadata" /\ new[t] = n
      BY <2>3 DEF IInv, LinkInv
    <3>2. ASSUME NEW t \in Thread, pc[t] = "metadata", new[t] = n
          PROVE  n # root
      BY <2>1, <3>2, UninitAssumption DEF IInv, ThreadInv, NewInv, Ready
    <3>. QED
      BY <3>1, <3>2 DEF Ready
  <2>. QED
    BY <2>2, <2>3 DEF Linked
<1>. QED
  BY <1>1, <1>2 DEF Published

----------------------------------------------------------------------------
(* Searches.                                                               *)

\* Thread t has found where x belongs: a search comes there and ends there.
Arrived(t) ==
    LET p == pn[t].p
        x == req[t].key
    IN  /\ p \in Visited(heap, root, x)
        /\ p = NULL => status[t] = "CONTINUE"
        /\ p # NULL => /\ status[t] # "CONTINUE"
                       /\ status[t] = findNext(heap, p, p, x).status

\* The call of t is on its way there; a call that has malloced the first node
\* has yet to make it the root.
OnWay(t) ==
    /\ pc[t] \in {"idle", "get_root", "get_root_read", "traverse", "traverse_start"} =>
          pn[t].p = NULL /\ status[t] = "CONTINUE"
    /\ pc[t] \in {"traverse", "traverse_start"} => pn[t].n \in {NULL, root}
    /\ pc[t] \in {"node", "find", "next", "prev"} =>
          pn[t].n \in Visited(heap, root, req[t].key)
    /\ pc[t] \in {"insert", "lookup"} => Arrived(t) /\ req[t].op = pc[t]
    /\ pc[t] = "metadata" /\ pn[t].p = NULL =>
          /\ root = NULL
          /\ heap[new[t]].key = req[t].key /\ heap[new[t]].value = req[t].value

SearchInv ==
    /\ IInv
    /\ Findable(heap, root)
    /\ root = NULL => \A m \in DOMAIN heap : Children(heap, m) = {}
    /\ \A t \in Thread : OnWay(t)

\* What the invariant says of the heap.
LEMMA HeapFacts ==
    ASSUME SearchInv
    PROVE  /\ IsHeap(heap) /\ Closed(heap) /\ root \in DOMAIN heap \cup {NULL}
           /\ NULL \notin DOMAIN heap
           /\ root = NULL => Linked(heap, root) = {}
BY NullAssumption
DEF SearchInv, IInv, HeapInv, Reference, TypeOK, TemplateTypeOK, IsHeap, Linked

\* A thread at insertOp_helper or lookupOp_helper is at the end of its search.
LEMMA ArrivedLemma ==
    ASSUME SearchInv, NEW t \in Thread, pc[t] \in {"insert", "lookup"}
    PROVE  LET p == pn[t].p
               x == req[t].key
           IN  /\ x \in Key /\ req[t] \in Request /\ Arrived(t)
               /\ Landing(heap, root, x) = {p}
               /\ p = NULL <=> root = NULL
               /\ p # NULL => p \in DOMAIN heap /\ \A c : ~Sends(heap, p, c, x)
               /\ status[t] = "FOUND" <=> p # NULL /\ heap[p].key = x
<1>. DEFINE p == pn[t].p
            x == req[t].key
<1>1. x \in Key /\ req[t] \in Request /\ Arrived(t)
  BY DEF SearchInv, IInv, ThreadInv, TraversalInv, Request, OnWay
<1>2. p \in Visited(heap, root, x)
  BY <1>1 DEF Arrived
<1>3. p # NULL => p \in DOMAIN heap /\ root # NULL
  <2>1. CASE root = NULL
    BY <1>2, <2>1 DEF Visited
  <2>2. CASE root # NULL
    BY <1>2, <2>2, HeapFacts, VisitLemma
  <2>. QED
    BY <2>1, <2>2
<1>4. p # NULL => /\ status[t] = "FOUND" <=> heap[p].key = x
                  /\ \A c : ~Sends(heap, p, c, x)
  BY <1>1, <1>3, HeapFacts, StatusLemma DEF Arrived
<1>5. p = NULL => status[t] # "FOUND"
  BY <1>1 DEF Arrived
<1>. HIDE DEF p, x
<1>6. Landing(heap, root, x) = {p} /\ (p = NULL <=> root = NULL)
  BY <1>1, <1>2, <1>4, HeapFacts, LandingLemma
<1>. QED
  BY <1>1, <1>3, <1>4, <1>5, <1>6 DEF p, x

\* A step that leaves the structure alone has to be examined for its thread.
LEMMA SearchMoves ==
    ASSUME SearchInv, IInv', NEW t \in Thread, UNCHANGED <<heap, root>>,
           Others(t), OnWay(t)'
    PROVE  SearchInv'
<1>1. \A u \in Thread \ {t} : OnWay(u)'
  BY DEF SearchInv, OnWay, Arrived, Others
<1>. QED
  BY <1>1 DEF SearchInv

LEMMA BeforeFind ==
    ASSUME HashInjective, SearchInv, IInv', NEW t \in Thread,
           \/ Begin(t) \/ GetRootAcquire(t) \/ GetRootRead(t)
           \/ TraverseAcquire(t) \/ TraverseEmpty(t) \/ TraverseStart(t)
           \/ AcquireNode(t)
    PROVE  SearchInv'
<1>1. IInv /\ OnWay(t) /\ TraversalInv(t)
  BY DEF SearchInv, IInv, ThreadInv
<1>. USE DEF IInv, TypeOK, TemplateTypeOK, Goto, Remember
<1>2. UNCHANGED <<heap, root>> /\ Others(t)
  BY <1>1
  DEF Begin, Call, GetRootAcquire, GetRootRead, TraverseAcquire, TraverseEmpty,
      TraverseStart, AcquireNode, Others
<1>3. OnWay(t)'
  <2>1. CASE Begin(t)
    BY <2>1, <1>1 DEF Begin, Call, NoPn, OnWay
  <2>2. CASE GetRootAcquire(t)
    BY <2>2, <1>1 DEF GetRootAcquire, OnWay
  <2>3. CASE GetRootRead(t)
    BY <2>3, <1>1 DEF GetRootRead, OnWay
  <2>4. CASE TraverseAcquire(t)
    BY <2>4, <1>1 DEF TraverseAcquire, OnWay
  <2>5. CASE TraverseEmpty(t)
    <3>1. root = NULL
      BY <2>5, <1>1 DEF TraverseEmpty, HashInjective, Pointer
    <3>2. /\ pc'[t] \in {"insert", "lookup"} /\ pn' = pn /\ req' = req
          /\ status' = status
      BY <2>5, <1>1 DEF TraverseEmpty, Helper, TraversalInv, Request
    <3>3. pn[t].p = NULL /\ status[t] = "CONTINUE"
      BY <2>5, <1>1 DEF TraverseEmpty, OnWay
    <3>4. pn[t].p \in Visited(heap, root, req[t].key)
      BY <3>1, <3>3 DEF Visited
    <3>5. Arrived(t)'
      BY <3>2, <3>3, <3>4, <1>2 DEF Arrived
    <3>6. pc'[t] = req'[t].op
      BY <2>5, <1>1 DEF TraverseEmpty, Helper
    <3>. QED
      BY <3>2, <3>5, <3>6 DEF OnWay
  <2>6. CASE TraverseStart(t)
    <3>1. root # NULL
      BY <2>6, <1>1 DEF TraverseStart, OnWay
    <3>2. pn'[t].n = root /\ pc'[t] = "node" /\ req' = req
      BY <2>6, <1>1 DEF TraverseStart, OnWay
    <3>3. root \in Visited(heap, root, req[t].key)
      BY <3>1, HeapFacts, VisitLemma
    <3>. QED
      BY <3>2, <3>3, <1>2 DEF OnWay
  <2>7. CASE AcquireNode(t)
    BY <2>7, <1>1 DEF AcquireNode, OnWay
  <2>. QED
    BY <2>1, <2>2, <2>3, <2>4, <2>5, <2>6, <2>7
<1>. QED
  BY <1>2, <1>3, SearchMoves

\* findNext at a node that a search comes by leads to another such node, or is
\* the end of the search.
LEMMA SearchGoesOn ==
    ASSUME SearchInv, NEW t \in Thread, pc[t] = "find"
    PROVE  LET p == pn[t].n
               x == req[t].key
               f == findNext(heap, p, p, x)
           IN  /\ p \in Visited(heap, root, x) /\ p # NULL
               /\ req[t].op \in {"insert", "lookup"}
               /\ f.status = "CONTINUE" => f.n \in Visited(heap, root, x)
<1>. DEFINE p == pn[t].n
            x == req[t].key
            f == findNext(heap, p, p, x)
<1>1. /\ p \in Visited(heap, root, x) /\ p # NULL /\ x \in Key
      /\ req[t].op \in {"insert", "lookup"}
  BY DEF SearchInv, OnWay, IInv, ThreadInv, TraversalInv, Request
<1>2. root # NULL /\ p \in DOMAIN heap
  <2>1. root # NULL
    BY <1>1 DEF Visited
  <2>. QED
    BY <2>1, <1>1, HeapFacts, VisitLemma
<1>3. f.status = "CONTINUE" => Sends(heap, p, f.n, x)
  BY DEF Sends
<1>. HIDE DEF p, x, f
<1>4. f.status = "CONTINUE" => f.n \in Visited(heap, root, x)
  BY <1>1, <1>2, <1>3, HeapFacts, SendsToChild, VisitLemma
<1>. QED
  BY <1>1, <1>4 DEF p, x, f

----------------------------------------------------------------------------
(* The inserts disturb no search.                                          *)

\* A search that another thread has under way stays on its way when a thread
\* writes the node p that it holds, provided no node loses a search.
LEMMA OthersOnWay ==
    ASSUME SearchInv, NEW t \in Thread, pc[t] = "insert", Others(t),
           root # NULL, root' = root,
           \A y \in Key : Visited(heap, root, y) \subseteq Visited(heap', root, y),
           \A m \in DOMAIN heap \ {pn[t].p} : heap'[m] = heap[m],
           NEW u \in Thread \ {t}
    PROVE  OnWay(u)'
<1>. DEFINE p == pn[u].p
            x == req[u].key
<1>1. /\ pc'[u] = pc[u] /\ req'[u] = req[u] /\ pn'[u] = pn[u]
      /\ status'[u] = status[u] /\ new'[u] = new[u]
  BY DEF Others
<1>2. pc[u] # "idle" => x \in Key
  BY DEF SearchInv, IInv, ThreadInv, TraversalInv, Request
<1>3. OnWay(u)
  BY DEF SearchInv
<1>4. pc[u] \in {"insert", "lookup"} => Arrived(u)'
  <2>. SUFFICES ASSUME pc[u] \in {"insert", "lookup"} PROVE Arrived(u)'
    OBVIOUS
  <2>1. /\ Arrived(u) /\ x \in Key /\ p # NULL /\ p \in DOMAIN heap
    BY ArrivedLemma
  <2>2. p # pn[t].p
    <3>1. p \in Held(u) /\ pn[t].p \in Held(t)
      BY DEF Held, SearchInv, IInv, TypeOK, TemplateTypeOK
    <3>. QED
      BY <3>1 DEF SearchInv, IInv, MutualExclusion
  <2>3. heap'[p] = heap[p]
    BY <2>1, <2>2
  <2>4. findNext(heap', p, p, x) = findNext(heap, p, p, x)
    BY <2>3, DSAssumption DEF findNext, List!findNext, Tree!findNext
  <2>5. p \in Visited(heap', root, x)
    BY <2>1 DEF Arrived
  <2>. QED
    BY <1>1, <2>1, <2>4, <2>5 DEF Arrived
<1>5. pc[u] \in {"node", "find", "next", "prev"} =>
         pn[u].n \in Visited(heap', root, x)
  BY <1>2, <1>3 DEF OnWay
<1>. QED
  BY <1>1, <1>3, <1>4, <1>5 DEF OnWay

\* While one thread inserts into the empty structure, no other has a search
\* under way.
LEMMA NoneOnWay ==
    ASSUME SearchInv, NEW t \in Thread, pc[t] \in {"insert", "metadata"},
           pn[t].p = NULL, root = NULL, Others(t), NEW u \in Thread \ {t}
    PROVE  OnWay(u)'
<1>1. /\ pc'[u] = pc[u] /\ req'[u] = req[u] /\ pn'[u] = pn[u]
      /\ status'[u] = status[u]
  BY DEF Others
<1>2. OnWay(u) /\ TraversalInv(u)
  BY DEF SearchInv, IInv, ThreadInv
<1>3. pc[u] \notin {"insert", "lookup"}
  <2>. SUFFICES ASSUME pc[u] \in {"insert", "lookup"} PROVE FALSE
    OBVIOUS
  <2>1. pn[u].p = NULL
    BY ArrivedLemma
  <2>2. NULL \in Held(u) /\ NULL \in Held(t)
    BY <2>1 DEF Held, Pointer
  <2>. QED
    BY <2>2 DEF SearchInv, IInv, MutualExclusion
<1>4. ~(pc[u] = "metadata" /\ pn[u].p = NULL)
  <2>. SUFFICES ASSUME pc[u] = "metadata", pn[u].p = NULL PROVE FALSE
    OBVIOUS
  <2>1. NULL \in Held(u) /\ NULL \in Held(t)
    BY DEF Held, Pointer
  <2>. QED
    BY <2>1 DEF SearchInv, IInv, MutualExclusion
<1>5. pc[u] \notin {"node", "find", "next", "prev"}
  BY <1>2 DEF OnWay, TraversalInv, Visited
<1>. QED
  BY <1>1, <1>2, <1>3, <1>4, <1>5 DEF OnWay

\* InsertReplace writes the map at the key.
LEMMA ReplaceKeeps ==
    ASSUME SearchInv, IInv', NEW t \in Thread, InsertReplace(t)
    PROVE  /\ SearchInv'
           /\ Contents(heap, root)' =
                 [Contents(heap, root) EXCEPT ![req[t].key] = req[t].value]
<1>. DEFINE p == pn[t].p
            x == req[t].key
            v == req[t].value
            h2 == insertOp(heap, p, x, v, NULL)
<1>1. /\ pc[t] = "insert" /\ pc'[t] = "release_p" /\ ~insertAllocates(heap, p, x)
      /\ heap' = h2 /\ root' = root /\ Others(t)
  BY DEF InsertReplace, Goto, Remember, Others, SearchInv, IInv, TypeOK
<1>2. p # NULL /\ heap[p].key = x
  BY <1>1, DSAssumption
  DEF insertAllocates, List!insertAllocates, Tree!insertAllocates
<1>3. /\ root # NULL /\ p \in Visited(heap, root, x) /\ x \in Key /\ v \in Value
  BY <1>1, <1>2, ArrivedLemma
  DEF Arrived, Request, SearchInv, IInv, ThreadInv, TraversalInv
<1>4. /\ \A y \in Key : Visited(h2, root, y) = Visited(heap, root, y)
      /\ Findable(h2, root)
      /\ Contents(h2, root) = [Contents(heap, root) EXCEPT ![x] = v]
      /\ \A m \in DOMAIN heap \ {p} : h2[m] = heap[m]
  BY <1>2, <1>3, HeapFacts, ReplaceLemma DEF SearchInv
<1>. HIDE DEF h2
<1>5. \A u \in Thread \ {t} : OnWay(u)'
  BY <1>1, <1>3, <1>4, OthersOnWay
<1>6. OnWay(t)'
  BY <1>1 DEF OnWay
<1>. QED
  BY <1>1, <1>3, <1>4, <1>5, <1>6 DEF SearchInv

\* So does InsertNode behind a node.
LEMMA NodeKeeps ==
    ASSUME SearchInv, IInv', NEW t \in Thread, InsertNode(t), pn[t].p # NULL
    PROVE  /\ SearchInv'
           /\ Contents(heap, root)' =
                 [Contents(heap, root) EXCEPT ![req[t].key] = req[t].value]
<1>. DEFINE p == pn[t].p
            x == req[t].key
            v == req[t].value
<1>1. /\ pc[t] = "insert" /\ pc'[t] = "metadata" /\ insertAllocates(heap, p, x)
      /\ root' = root /\ pn' = pn /\ Others(t)
  BY DEF InsertNode, Goto, Others, SearchInv, IInv, TypeOK
<1>2. PICK n \in Node \ DOMAIN heap : heap' = insertOp(heap, p, x, v, n)
  BY DEF InsertNode
<1>3. /\ x \in Key /\ v \in Value /\ Arrived(t) /\ root # NULL
      /\ p \in DOMAIN heap /\ \A c : ~Sends(heap, p, c, x)
  BY <1>1, ArrivedLemma DEF Request, SearchInv, IInv, ThreadInv, TraversalInv
<1>4. heap[p].key # x /\ p \in Visited(heap, root, x) /\ root \in DOMAIN heap
  BY <1>1, <1>3, HeapFacts, DSAssumption
  DEF insertAllocates, List!insertAllocates, Tree!insertAllocates, Arrived
<1>. DEFINE h2 == insertOp(heap, p, x, v, n)
<1>5. /\ Inserts(heap, h2, p, n, x, v)
      /\ \A y \in Key : Visited(heap, root, y) \subseteq Visited(h2, root, y)
      /\ Findable(h2, root)
      /\ Contents(h2, root) = [Contents(heap, root) EXCEPT ![x] = v]
  BY <1>3, <1>4, HeapFacts, InsertLemma DEF SearchInv
<1>. HIDE DEF h2
<1>6. heap' = h2
  BY <1>2 DEF h2
<1>7. \A m \in DOMAIN heap \ {p} : h2[m] = heap[m]
  BY <1>5 DEF Inserts
<1>8. \A u \in Thread \ {t} : OnWay(u)'
  BY <1>1, <1>3, <1>5, <1>6, <1>7, OthersOnWay
<1>9. OnWay(t)'
  BY <1>1 DEF OnWay
<1>. QED
  BY <1>1, <1>3, <1>5, <1>6, <1>8, <1>9 DEF SearchInv

\* InsertNode into the empty structure leaves it empty.
LEMMA LeafKeeps ==
    ASSUME SearchInv, IInv', NEW t \in Thread, InsertNode(t), pn[t].p = NULL
    PROVE  SearchInv' /\ Contents(heap, root)' = Contents(heap, root)
<1>. DEFINE x == req[t].key
            v == req[t].value
<1>1. /\ pc[t] = "insert" /\ pc'[t] = "metadata" /\ insertAllocates(heap, NULL, x)
      /\ root' = root /\ pn' = pn /\ req' = req /\ Others(t)
  BY DEF InsertNode, Goto, Others, SearchInv, IInv, TypeOK
<1>2. PICK n \in Node \ DOMAIN heap :
         heap' = insertOp(heap, NULL, x, v, n) /\ new'[t] = n
  BY DEF InsertNode, SearchInv, IInv, TypeOK
<1>3. /\ x \in Key /\ v \in Value /\ root = NULL
      /\ \A m \in DOMAIN heap : Children(heap, m) = {}
  BY <1>1, ArrivedLemma DEF Request, SearchInv, IInv, ThreadInv, TraversalInv
<1>. DEFINE h2 == insertOp(heap, NULL, x, v, n)
<1>4. /\ DOMAIN h2 = DOMAIN heap \cup {n}
      /\ h2[n].key = x /\ h2[n].value = v /\ Children(h2, n) = {}
      /\ \A m \in DOMAIN heap : h2[m] = heap[m]
  <2>1. CASE DS = "list"
    <3>1. h2 = [m \in DOMAIN heap \cup {n} |->
                  IF m = n THEN [key |-> x, value |-> v, next |-> NULL] ELSE heap[m]]
      BY <2>1 DEF insertOp, List!insertOp, List!Malloced
    <3>. HIDE DEF h2
    <3>2. /\ h2[n] = [key |-> x, value |-> v, next |-> NULL]
          /\ DOMAIN h2 = DOMAIN heap \cup {n}
          /\ \A m \in DOMAIN heap : h2[m] = heap[m]
      BY <3>1
    <3>. QED
      BY <2>1, <3>2 DEF Children, List!Children
  <2>2. CASE DS = "bst"
    <3>1. h2 = [m \in DOMAIN heap \cup {n} |->
                  IF m = n THEN [key |-> x, value |-> v, left |-> NULL, right |-> NULL]
                  ELSE heap[m]]
      BY <2>2 DEF insertOp, Tree!insertOp, Tree!Malloced
    <3>. HIDE DEF h2
    <3>2. /\ h2[n] = [key |-> x, value |-> v, left |-> NULL, right |-> NULL]
          /\ DOMAIN h2 = DOMAIN heap \cup {n}
          /\ \A m \in DOMAIN heap : h2[m] = heap[m]
      BY <3>1
    <3>. QED
      BY <2>2, <3>2 DEF Children, Tree!Children
  <2>. QED
    BY <2>1, <2>2, DSAssumption
<1>. HIDE DEF h2
<1>5. heap' = h2
  BY <1>2 DEF h2
<1>6. \A m \in DOMAIN h2 : Children(h2, m) = {}
  BY <1>3, <1>4, DSAssumption DEF Children, List!Children, Tree!Children
<1>7. Linked(h2, NULL) = {} /\ Linked(heap, NULL) = {}
  <2>1. NULL \notin DOMAIN h2
    BY <1>4, HeapFacts, NullAssumption
  <2>. QED
    BY <2>1, <1>6, <1>3, HeapFacts DEF Linked
<1>8. Findable(h2, NULL)
  BY <1>7 DEF Findable
<1>9. Contents(h2, NULL) = Contents(heap, NULL)
  BY <1>7 DEF Contents
<1>10. \A u \in Thread \ {t} : OnWay(u)'
  BY <1>1, <1>3, NoneOnWay
<1>11. OnWay(t)'
  BY <1>1, <1>2, <1>3, <1>4, <1>5 DEF OnWay
<1>. QED
  BY <1>1, <1>3, <1>5, <1>6, <1>8, <1>9, <1>10, <1>11 DEF SearchInv

\* It is InsertMetadata that writes the map then: the node becomes the root.
LEMMA MetadataKeeps ==
    ASSUME SearchInv, IInv', NEW t \in Thread, InsertMetadata(t)
    PROVE  /\ SearchInv'
           /\ Contents(heap, root)' =
                 IF pn[t].p = NULL
                 THEN [Contents(heap, root) EXCEPT ![req[t].key] = req[t].value]
                 ELSE Contents(heap, root)
<1>1. /\ pc[t] = "metadata" /\ pc'[t] = "release_new" /\ heap' = heap
      /\ root' = IF pn[t].p = NULL THEN new[t] ELSE root
      /\ Others(t)
  BY DEF InsertMetadata, Goto, Remember, Others, SearchInv, IInv, TypeOK
<1>2. OnWay(t)'
  BY <1>1 DEF OnWay
<1>3. CASE pn[t].p # NULL
  <2>1. UNCHANGED <<heap, root>>
    BY <1>1, <1>3
  <2>. QED
    BY <1>1, <1>2, <1>3, <2>1, SearchMoves
<1>4. CASE pn[t].p = NULL
  <2>1. /\ root = NULL /\ \A m \in DOMAIN heap : Children(heap, m) = {}
        /\ heap[new[t]].key = req[t].key /\ heap[new[t]].value = req[t].value
        /\ new[t] \in DOMAIN heap
    BY <1>1, <1>4 DEF SearchInv, OnWay, IInv, ThreadInv, NewInv
  <2>2. /\ Findable(heap, new[t])
        /\ Contents(heap, new[t]) =
              [Contents(heap, NULL) EXCEPT ![req[t].key] = req[t].value]
    BY <2>1, HeapFacts, RootLemma
  <2>3. root' = new[t] /\ root' # NULL
    BY <1>1, <1>4, <2>1, HeapFacts
  <2>4. \A u \in Thread \ {t} : OnWay(u)'
    BY <1>1, <1>4, <2>1, NoneOnWay
  <2>. QED
    BY <1>1, <1>2, <1>4, <2>1, <2>2, <2>3, <2>4 DEF SearchInv
<1>. QED
  BY <1>3, <1>4

LEMMA AfterKeeps ==
    ASSUME SearchInv, IInv', NEW t \in Thread,
           LookupValue(t) \/ ReleaseNew(t) \/ ReleaseP(t) \/ End(t)
    PROVE  SearchInv'
<1>1. IInv
  BY DEF SearchInv
<1>. USE DEF LookupValue, ReleaseNew, ReleaseP, End, Return, Goto, Remember, NoPn, IInv,
             TypeOK, TemplateTypeOK
<1>2. UNCHANGED <<heap, root>> /\ Others(t)
  BY <1>1 DEF Others
<1>3. OnWay(t)'
  BY <1>1 DEF OnWay
<1>. QED
  BY <1>2, <1>3, SearchMoves

LEMMA SearchInitLemma == HashInjective /\ TableInit => SearchInv
<1>. SUFFICES ASSUME HashInjective, TableInit PROVE SearchInv
  OBVIOUS
<1>1. IInv
  BY TableInitLemma
<1>2. DOMAIN heap = {} /\ \A t \in Thread : OnWay(t)
  BY DEF TableInit, TemplateInit, NoPn, OnWay
<1>. QED
  BY <1>1, <1>2 DEF SearchInv, Findable, Linked

LEMMA SearchStutterLemma == SearchInv /\ UNCHANGED tableVars => SearchInv'
<1>. SUFFICES ASSUME SearchInv, UNCHANGED tableVars PROVE SearchInv'
  OBVIOUS
<1>1. IInv'
  BY StutterLemma DEF SearchInv
<1>. QED
  BY <1>1 DEF tableVars, templateVars, SearchInv, OnWay, Arrived

\* What the invariant says for the properties of the runs.
LEMMA KeysetLemma == SearchInv => KeysetInv /\ SearchStructure
<1>. SUFFICES ASSUME SearchInv PROVE KeysetInv /\ SearchStructure
  OBVIOUS
<1>1. ASSUME NEW t \in Thread
      PROVE  /\ pc[t] \in {"node", "find", "next", "prev"} =>
                   pn[t].n \in Visited(heap, root, req[t].key)
             /\ pc[t] \in {"insert", "lookup"} => TraverseResult(t)
  <2>1. pc[t] \in {"node", "find", "next", "prev"} =>
           pn[t].n \in Visited(heap, root, req[t].key)
    BY DEF SearchInv, OnWay
  <2>2. pc[t] \in {"insert", "lookup"} => TraverseResult(t)
    BY ArrivedLemma DEF TraverseResult, Arrived
  <2>. QED
    BY <2>1, <2>2
<1>2. SearchStructure
  BY HeapFacts, FindableLemma DEF SearchInv, SearchStructure
<1>. QED
  BY <1>1, <1>2 DEF KeysetInv

----------------------------------------------------------------------------
(* The calls are atomic.                                                   *)

MapPhase == [t \in Thread |-> Phase(t)]

\* What no step of the abstract map changes.
MapUnchanged == UNCHANGED <<Contents(heap, root), req, MapPhase, ret>>

\* How a step changes the phase of its call.
LEMMA PhaseLemma ==
    ASSUME SearchInv, NEW t \in Thread, Others(t)
    PROVE  /\ MapPhase[t] = Phase(t)
           /\ MapPhase' = [MapPhase EXCEPT ![t] = Phase(t)']
<1>1. \A u \in Thread \ {t} : Phase(u)' = Phase(u)
  BY DEF Phase, Others
<1>. QED
  BY <1>1 DEF MapPhase

\* A step on the way, before and after which the call has taken no effect yet.
LEMMA OnWayQuiet ==
    ASSUME SearchInv, NEW t \in Thread, Others(t), UNCHANGED <<heap, root, req, ret>>,
           {pc[t], pc'[t]} \subseteq {"get_root", "get_root_read", "traverse",
               "traverse_start", "node", "find", "next", "prev", "insert", "lookup"}
    PROVE  MapUnchanged
<1>1. Phase(t) = "called" /\ Phase(t)' = "called"
  BY DEF Phase
<1>2. MapPhase' = MapPhase
  BY <1>1, PhaseLemma DEF MapPhase
<1>. QED
  BY <1>2 DEF MapUnchanged

\* The steps before the loop of traverse, and the releases after the effect.
LEMMA QuietLemma ==
    ASSUME SearchInv, NEW t \in Thread,
           \/ GetRootAcquire(t) \/ GetRootRead(t) \/ TraverseAcquire(t)
           \/ TraverseEmpty(t) \/ TraverseStart(t) \/ AcquireNode(t)
           \/ ReleaseNew(t) \/ ReleaseP(t)
    PROVE  MapUnchanged
<1>1. IInv /\ TraversalInv(t)
  BY DEF SearchInv, IInv, ThreadInv
<1>. USE DEF IInv, TypeOK, TemplateTypeOK, Goto, Remember
<1>2. Others(t) /\ UNCHANGED <<heap, root, req, ret>>
  BY <1>1
  DEF GetRootAcquire, GetRootRead, TraverseAcquire, TraverseEmpty, TraverseStart,
      AcquireNode, ReleaseNew, ReleaseP, Others
<1>3. CASE \/ GetRootAcquire(t) \/ GetRootRead(t) \/ TraverseAcquire(t)
           \/ TraverseEmpty(t) \/ TraverseStart(t) \/ AcquireNode(t)
  <2>1. pc[t] = "traverse_start" => req[t].op \in {"insert", "lookup"}
    BY <1>1 DEF TraversalInv, Request
  <2>2. {pc[t], pc'[t]} \subseteq {"get_root", "get_root_read", "traverse",
            "traverse_start", "node", "find", "next", "prev", "insert", "lookup"}
    BY <1>1, <1>3, <2>1
    DEF GetRootAcquire, GetRootRead, TraverseAcquire, TraverseEmpty, TraverseStart,
        AcquireNode, Helper
  <2>. QED
    BY <1>2, <2>2, OnWayQuiet
<1>4. CASE ReleaseNew(t) \/ ReleaseP(t)
  <2>1. {pc[t], pc'[t]} \subseteq {"release_new", "release_p", "return"}
    BY <1>1, <1>4 DEF ReleaseNew, ReleaseP
  <2>2. Phase(t) = "done" /\ Phase(t)' = "done"
    BY <2>1 DEF Phase
  <2>3. MapPhase' = MapPhase
    BY <1>2, <2>2, PhaseLemma DEF MapPhase
  <2>. QED
    BY <1>2, <2>3 DEF MapUnchanged
<1>. QED
  BY <1>3, <1>4

LEMMA CallLemma ==
    ASSUME SearchInv, NEW t \in Thread, Begin(t)
    PROVE  Map!Next
<1>1. /\ pc[t] = "idle" /\ pc'[t] = "get_root" /\ UNCHANGED <<heap, root, ret>>
      /\ Others(t)
  BY DEF Begin, Call, Goto, Remember, Others, SearchInv, IInv, TypeOK, TemplateTypeOK
<1>2. Phase(t) = "idle" /\ Phase(t)' = "called"
  BY <1>1 DEF Phase
<1>3. MapPhase[t] = "idle" /\ MapPhase' = [MapPhase EXCEPT ![t] = "called"]
  BY <1>1, <1>2, PhaseLemma
<1>4. \E r \in Request : req' = [req EXCEPT ![t] = r]
  BY DEF Begin, Call
<1>5. Map!Call(t)
  BY <1>1, <1>3, <1>4 DEF Map!Call, MapPhase, Map!Request, Request
<1>. QED
  BY <1>5 DEF Map!Next

LEMMA ReturnLemma ==
    ASSUME SearchInv, NEW t \in Thread, End(t)
    PROVE  Map!Next
<1>1. /\ pc[t] = "return" /\ pc'[t] = "idle"
      /\ req' = [req EXCEPT ![t] = NoRequest] /\ ret' = [ret EXCEPT ![t] = NULL]
      /\ UNCHANGED <<heap, root>> /\ Others(t)
  BY DEF End, Return, Goto, Remember, Others, SearchInv, IInv, TypeOK, TemplateTypeOK
<1>2. Phase(t) = "done" /\ Phase(t)' = "idle"
  BY <1>1 DEF Phase
<1>3. MapPhase[t] = "done" /\ MapPhase' = [MapPhase EXCEPT ![t] = "idle"]
  BY <1>1, <1>2, PhaseLemma
<1>4. Map!Return(t)
  BY <1>1, <1>3 DEF Map!Return, MapPhase, Map!NoRequest, NoRequest
<1>. QED
  BY <1>4 DEF Map!Next

\* insert takes effect where the node is linked, or its value written.
LEMMA EffectLemma ==
    ASSUME SearchInv, IInv', NEW t \in Thread,
           InsertReplace(t) \/ InsertNode(t) \/ InsertMetadata(t)
    PROVE  Map!Next \/ MapUnchanged
<1>1. /\ pc[t] \in {"insert", "metadata"} /\ Others(t) /\ UNCHANGED <<req, pn, ret>>
      /\ InsertReplace(t) => pc[t] = "insert" /\ pc'[t] = "release_p"
      /\ InsertNode(t) => pc[t] = "insert" /\ pc'[t] = "metadata"
      /\ InsertMetadata(t) => pc[t] = "metadata" /\ pc'[t] = "release_new"
  BY DEF InsertReplace, InsertNode, InsertMetadata, Goto, Remember, Others, SearchInv,
         IInv, TypeOK
<1>2. req[t].op = "insert"
  BY <1>1 DEF SearchInv, IInv, ThreadInv, TraversalInv
<1>3. ASSUME Phase(t) = "called", Phase(t)' = "done",
             Contents(heap, root)' =
                [Contents(heap, root) EXCEPT ![req[t].key] = req[t].value]
      PROVE  Map!Next
  <2>1. MapPhase[t] = "called" /\ MapPhase' = [MapPhase EXCEPT ![t] = "done"]
    BY <1>1, <1>3, PhaseLemma
  <2>2. Map!Insert(t)
    BY <1>1, <1>2, <1>3, <2>1 DEF Map!Insert, MapPhase
  <2>. QED
    BY <2>2 DEF Map!Next
<1>4. ASSUME Phase(t)' = Phase(t), Contents(heap, root)' = Contents(heap, root)
      PROVE  MapUnchanged
  <2>1. MapPhase' = MapPhase
    BY <1>1, <1>4, PhaseLemma DEF MapPhase
  <2>. QED
    BY <1>1, <1>4, <2>1 DEF MapUnchanged
<1>5. CASE InsertReplace(t)
  <2>1. Phase(t) = "called" /\ Phase(t)' = "done"
    BY <1>1, <1>5 DEF Phase
  <2>. QED
    BY <1>3, <1>5, <2>1, ReplaceKeeps
<1>6. CASE InsertNode(t) /\ pn[t].p # NULL
  <2>1. Phase(t) = "called" /\ Phase(t)' = "done"
    BY <1>1, <1>6 DEF Phase
  <2>. QED
    BY <1>3, <1>6, <2>1, NodeKeeps
<1>7. CASE InsertNode(t) /\ pn[t].p = NULL
  <2>1. Phase(t) = "called" /\ Phase(t)' = "called"
    BY <1>1, <1>7 DEF Phase
  <2>. QED
    BY <1>4, <1>7, <2>1, LeafKeeps
<1>8. CASE InsertMetadata(t) /\ pn[t].p = NULL
  <2>1. Phase(t) = "called" /\ Phase(t)' = "done"
    BY <1>1, <1>8 DEF Phase
  <2>. QED
    BY <1>3, <1>8, <2>1, MetadataKeeps
<1>9. CASE InsertMetadata(t) /\ pn[t].p # NULL
  <2>1. Phase(t) = "done" /\ Phase(t)' = "done"
    BY <1>1, <1>9 DEF Phase
  <2>. QED
    BY <1>4, <1>9, <2>1, MetadataKeeps
<1>. QED
  BY <1>5, <1>6, <1>7, <1>8, <1>9

\* lookup takes effect where lookupOp_helper reads the value.
LEMMA ReadsLemma ==
    ASSUME SearchInv, NEW t \in Thread, LookupValue(t)
    PROVE  Map!Next
<1>. DEFINE p == pn[t].p
            x == req[t].key
<1>1. /\ pc[t] = "lookup" /\ pc'[t] = "release_p" /\ Others(t)
      /\ UNCHANGED <<heap, root, req>>
      /\ ret' = [ret EXCEPT ![t] = IF status[t] = "FOUND" THEN heap[p].value ELSE NULL]
  BY DEF LookupValue, Goto, Remember, get_value, Others, SearchInv, IInv, TypeOK
<1>2. req[t].op = "lookup"
  BY <1>1 DEF SearchInv, OnWay
<1>3. ret' = [ret EXCEPT ![t] = Contents(heap, root)[x]]
  <2>1. /\ x \in Key /\ Arrived(t)
        /\ p # NULL => \A c : ~Sends(heap, p, c, x)
        /\ status[t] = "FOUND" <=> p # NULL /\ heap[p].key = x
    BY <1>1, ArrivedLemma
  <2>2. p \in Visited(heap, root, x) /\ Findable(heap, root)
    BY <2>1 DEF Arrived, SearchInv
  <2>. HIDE DEF p, x
  <2>3. /\ p # NULL /\ heap[p].key = x => Contents(heap, root)[x] = heap[p].value
        /\ ~(p # NULL /\ heap[p].key = x) => Contents(heap, root)[x] = NULL
    BY <2>1, <2>2, HeapFacts, ReadLemma
  <2>4. (IF status[t] = "FOUND" THEN heap[p].value ELSE NULL)
           = Contents(heap, root)[x]
    BY <2>1, <2>3
  <2>. QED
    BY <1>1, <2>4
<1>4. Phase(t) = "called" /\ Phase(t)' = "done"
  BY <1>1 DEF Phase
<1>5. MapPhase[t] = "called" /\ MapPhase' = [MapPhase EXCEPT ![t] = "done"]
  BY <1>1, <1>4, PhaseLemma
<1>6. Map!Lookup(t)
  BY <1>1, <1>2, <1>3, <1>5 DEF Map!Lookup, MapPhase
<1>. QED
  BY <1>6 DEF Map!Next

LEMMA MapInitLemma == TableInit => Map!Init
<1>. SUFFICES ASSUME TableInit PROVE Map!Init
  OBVIOUS
<1>1. Linked(heap, root) = {} /\ \A t \in Thread : Phase(t) = "idle"
  BY DEF TableInit, TemplateInit, Linked, Phase
<1>. QED
  BY <1>1 DEF TableInit, TemplateInit, Map!Init, Contents, Map!NoRequest, NoRequest

LEMMA MapStutterLemma == UNCHANGED tableVars => MapUnchanged
BY DEF tableVars, templateVars, MapUnchanged, MapPhase, Phase
=============================================================================
