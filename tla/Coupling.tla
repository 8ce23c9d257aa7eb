------------------------------ MODULE Coupling ------------------------------
(***************************************************************************)
(* coupling.c: the lock-coupling template.  A traversal acquires the lock  *)
(* of the next node before it releases that of the current one.            *)
(***************************************************************************)
EXTENDS LockTable

vars == tableVars

Init == TableInit

\* An iteration up to the first acquire: pn->p = pn->n and findNext, and, if
\* there is a next node, lookup_md of it.
FindNext(t) ==
    LET p == pn[t].n
        f == findNext(heap, p, p, req[t].key)
    IN  /\ pc[t] = "find"
        /\ pn' = [pn EXCEPT ![t] = [p |-> p, n |-> f.n]]
        /\ status' = [status EXCEPT ![t] = f.status]
        /\ IF f.status = "CONTINUE"
           THEN Remember(t, lookup_md(f.n)) /\ Goto(t, "next")
           ELSE UNCHANGED md /\ Goto(t, Helper(t))
        /\ UNCHANGED <<heap, root, lock, req, ret, metadata, new>>

\* acquire(md_n->lock) inside the loop, then lookup_md(pn->p).
AcquireNext(t) ==
    /\ pc[t] = "next"
    /\ AcquireMd(t)
    /\ Remember(t, lookup_md(pn[t].p))
    /\ Goto(t, "prev")
    /\ UNCHANGED <<heap, root, req, pn, status, ret, metadata, new>>

\* release(md_p->lock).
ReleasePrev(t) ==
    /\ pc[t] = "prev"
    /\ ReleaseMd(t)
    /\ Goto(t, "find")
    /\ UNCHANGED <<heap, root, req, pn, status, ret, metadata, md, new>>

----------------------------------------------------------------------------
Work(t) ==
    \/ GetRootAcquire(t) \/ GetRootRead(t)
    \/ TraverseAcquire(t) \/ TraverseEmpty(t) \/ TraverseStart(t)
    \/ AcquireNode(t) \/ FindNext(t) \/ AcquireNext(t) \/ ReleasePrev(t)
    \/ InsertReplace(t) \/ InsertNode(t) \/ InsertMetadata(t) \/ ReleaseNew(t)
    \/ LookupValue(t) \/ ReleaseP(t) \/ End(t)

Next == \E t \in Thread : Begin(t) \/ Work(t)

Spec == Init /\ [][Next]_vars

\* A thread inside a call is scheduled again and again; when it calls is its
\* own business.  Nothing makes the CAS of an acquire succeed for a thread
\* whenever the lock is free now and then, so fairness is weak.
FairSpec == Spec /\ \A t \in Thread : WF_vars(Work(t))

----------------------------------------------------------------------------
\* A traversal that holds the lock of a node gets to its end, although
\* nothing arbitrates between the threads that spin on a lock: the threads
\* ahead of it move on, and none comes between it and the node it waits for.
NotOvertaken ==
    \A t \in Thread : pc[t] = "find" ~> pc[t] = "return"
=============================================================================
