------------------------------- MODULE GiveUp -------------------------------
(***************************************************************************)
(* giveup.c: the give-up template.  An md_entry also has the open range    *)
(* (min, max) of the keys that can be below its node.  A traversal holds   *)
(* one lock at a time: it releases the node before it acquires the next    *)
(* one, and a node it arrives at whose range does not include its key      *)
(* makes it give up and start again.                                       *)
(***************************************************************************)
EXTENDS LockTable

CONSTANTS INT_MIN, INT_MAX   \* limits.h

ASSUME LimitsAssumption ==
    /\ INT_MIN \in Int /\ INT_MAX \in Int
    /\ INT_MIN < INT_MAX
    /\ Key \subseteq INT_MIN .. INT_MAX

\* The axiom f_injective of common.v.  With two nodes in one slot
\* insertOp_helper would read fields of an md_entry it has not filled in.
ASSUME GiveUpHashAssumption == HashInjective

VARIABLES
    range,    \* min and max of each md_entry
    start     \* per thread, traverse's p, the node to start again from

vars == <<tableVars, range, start>>

MdRange == [min : INT_MIN .. INT_MAX, max : INT_MIN .. INT_MAX]

\* The range of the md_entry make_css mallocs, and of that of a root.
FullRange == [min |-> INT_MIN, max |-> INT_MAX]

\* Stands for the range of an md_entry that is not malloced yet.
NoRange == [min |-> INT_MAX, max |-> INT_MIN]

\* A mutant: the limits are included.
inRange_Closed(m, x) == x >= m.min /\ x <= m.max

inRange(m, x) == x > m.min /\ x < m.max

Init ==
    /\ TableInit
    /\ range = [p \in Pointer |-> IF p = NULL THEN FullRange ELSE NoRange]
    /\ start = [t \in Thread |-> NULL]

----------------------------------------------------------------------------
(* The steps that are coupling.c's as well                                 *)

Enter(t) == Begin(t) /\ UNCHANGED <<range, start>>

GetRoot(t) ==
    /\ GetRootAcquire(t) \/ GetRootRead(t)
    /\ UNCHANGED <<range, start>>

\* traverse up to its loop; where it starts is kept in p.
StartTraverse(t) ==
    /\ \/ TraverseAcquire(t) /\ UNCHANGED start
       \/ TraverseEmpty(t) /\ UNCHANGED start
       \/ TraverseStart(t) /\ start' = [start EXCEPT ![t] = pn'[t].n]
    /\ UNCHANGED range

\* acquire(md->lock) at the head of the loop.
LoopAcquire(t) == AcquireNode(t) /\ UNCHANGED <<range, start>>

LookupHelper(t) == LookupValue(t) /\ UNCHANGED <<range, start>>

Leave(t) == End(t) /\ start' = [start EXCEPT ![t] = NULL] /\ UNCHANGED range

----------------------------------------------------------------------------
(* The loop of traverse                                                    *)

\* The key is in range and findNext says where it is: traverse returns with
\* the lock of pn->p held.
Arrive(t) ==
    LET p == pn[t].n
        f == findNext(heap, p, p, req[t].key)
    IN  /\ pc[t] = "find"
        /\ inRange(range[md[t]], req[t].key)
        /\ f.status # "CONTINUE"
        /\ pn' = [pn EXCEPT ![t] = [p |-> p, n |-> f.n]]
        /\ status' = [status EXCEPT ![t] = f.status]
        /\ Goto(t, Helper(t))
        /\ UNCHANGED <<heap, root, lock, req, ret, metadata, md, new, range, start>>

\* A mutant: the lock is kept.
Advance_NoRelease(t) ==
    LET p == pn[t].n
        f == findNext(heap, p, p, req[t].key)
    IN  /\ pc[t] = "find"
        /\ inRange(range[md[t]], req[t].key)
        /\ f.status = "CONTINUE"
        /\ pn' = [pn EXCEPT ![t] = [p |-> p, n |-> f.n]]
        /\ status' = [status EXCEPT ![t] = f.status]
        /\ Remember(t, lookup_md(f.n))
        /\ Goto(t, "node")
        /\ UNCHANGED <<heap, root, lock, req, ret, metadata, new, range, start>>

\* The key is in range and findNext names the next node; the lock is
\* released before the next one is looked up.
Advance(t) ==
    LET p == pn[t].n
        f == findNext(heap, p, p, req[t].key)
    IN  /\ pc[t] = "find"
        /\ inRange(range[md[t]], req[t].key)
        /\ f.status = "CONTINUE"
        /\ pn' = [pn EXCEPT ![t] = [p |-> p, n |-> f.n]]
        /\ status' = [status EXCEPT ![t] = f.status]
        /\ ReleaseMd(t)
        /\ Remember(t, lookup_md(f.n))
        /\ Goto(t, "node")
        /\ UNCHANGED <<heap, root, req, ret, metadata, new, range, start>>

\* A mutant: giving up forgets the lock.
StartAgain_NoRelease(t) ==
    /\ pc[t] = "find"
    /\ ~inRange(range[md[t]], req[t].key)
    /\ pn' = [pn EXCEPT ![t] = [p |-> pn[t].n, n |-> start[t]]]
    /\ Remember(t, lookup_md(start[t]))
    /\ Goto(t, "node")
    /\ UNCHANGED <<heap, root, lock, req, status, ret, metadata, new, range, start>>

\* The key is out of range: release, and start again from p.
StartAgain(t) ==
    /\ pc[t] = "find"
    /\ ~inRange(range[md[t]], req[t].key)
    /\ pn' = [pn EXCEPT ![t] = [p |-> pn[t].n, n |-> start[t]]]
    /\ ReleaseMd(t)
    /\ Remember(t, lookup_md(start[t]))
    /\ Goto(t, "node")
    /\ UNCHANGED <<heap, root, req, status, ret, metadata, new, range, start>>

----------------------------------------------------------------------------
(* insertOp_helper                                                         *)

\* Two mutants: p's range is cut at the key that was inserted; the two halves
\* of p's range are swapped.
NewRange_CutAtX(p, x) ==
    IF p = NULL THEN FullRange
    ELSE LET m == range[lookup_md(p)]
         IN  IF x < get_key(heap, p) THEN [m EXCEPT !.max = x]
                                     ELSE [m EXCEPT !.min = x]

NewRange_Swapped(p, x) ==
    IF p = NULL THEN FullRange
    ELSE LET key == get_key(heap, p)
             m   == range[lookup_md(p)]
         IN  IF x > key THEN [m EXCEPT !.max = key] ELSE [m EXCEPT !.min = key]

\* The range of the new node behind p: p's, cut at the key p has now, which
\* insertOp of a list may just have changed.
NewRange(p, x) ==
    IF p = NULL THEN FullRange
    ELSE LET key == get_key(heap, p)
             m   == range[lookup_md(p)]
         IN  IF x < key THEN [m EXCEPT !.max = key] ELSE [m EXCEPT !.min = key]

InsertHelper(t) ==
    /\ \/ InsertReplace(t) /\ UNCHANGED range
       \/ InsertNode(t) /\ UNCHANGED range
       \/ /\ InsertMetadata(t)
          /\ range' = [range EXCEPT ![new[t]] = NewRange(pn[t].p, req[t].key)]
       \/ ReleaseNew(t) /\ UNCHANGED range
       \/ ReleaseP(t) /\ UNCHANGED range
    /\ UNCHANGED start

----------------------------------------------------------------------------
Work(t) ==
    \/ GetRoot(t) \/ StartTraverse(t)
    \/ LoopAcquire(t) \/ Arrive(t) \/ Advance(t) \/ StartAgain(t)
    \/ InsertHelper(t) \/ LookupHelper(t) \/ Leave(t)

Next == \E t \in Thread : Enter(t) \/ Work(t)

Spec == Init /\ [][Next]_vars

\* A thread inside a call is scheduled again and again; when it calls is its
\* own business.  The CAS of an acquire need not succeed for a thread because
\* the lock is free now and then, so fairness is weak.
FairSpec == Spec /\ \A t \in Thread : WF_vars(Work(t))

----------------------------------------------------------------------------
(* Properties                                                              *)

\* The variables of LockTable and those of this module have their types.
GiveUpTypeOK ==
    /\ TypeOK
    /\ range \in [Pointer -> MdRange]
    /\ start \in [Thread -> Pointer]

\* The keys strictly between the limits.
Interior == {k \in Key : INT_MIN < k /\ k < INT_MAX}

\* The range of a node is right whatever was inserted since it was set
\* (md_entry_rep of giveup_lib.v): a search for a key in it comes by the
\* node, and the key the node holds is in it.
RangeInv ==
    \A n \in Linked(heap, root) : lookup_md(n) # Uninit =>
        LET m == range[lookup_md(n)]
        IN  /\ \A k \in Key : inRange(m, k) => n \in Visited(heap, root, k)
            /\ heap[n].key \in Interior => inRange(m, heap[n].key)

\* A traversal starts again only for the two keys that no range includes:
\* with nodes that are never unlinked, a node stays on the way to every key
\* it was on the way to.
GiveUpInv ==
    [][\A t \in Thread : StartAgain(t) => req[t].key \notin Interior]_vars
=============================================================================
