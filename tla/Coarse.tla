------------------------------- MODULE Coarse -------------------------------
(***************************************************************************)
(* coarse.c: the template with one lock for the whole structure, held from *)
(* the start of traverse to the end of the helper that follows it.  It is  *)
(* the lock of make_css, lock[NULL].                                       *)
(***************************************************************************)
EXTENDS Template

vars == templateVars

Labels == {"idle", "get_root", "get_root_read", "traverse", "traverse_start",
           "find", "insert", "lookup", "return"}

\* make_css.
Init == TemplateInit

\* insert or lookup is called.
Begin(t) == Call(t)

----------------------------------------------------------------------------
(* get_root                                                                *)

GetRootAcquire(t) ==
    /\ pc[t] = "get_root"
    /\ acquire(NULL)
    /\ Goto(t, "get_root_read")
    /\ UNCHANGED <<heap, root, req, pn, status, ret>>

\* r = t->root; release(t->lock); pn->n = r.  Other threads may insert
\* before traverse takes the lock again.
GetRootRead(t) ==
    /\ pc[t] = "get_root_read"
    /\ pn' = [pn EXCEPT ![t].n = root]
    /\ release(NULL)
    /\ Goto(t, "traverse")
    /\ UNCHANGED <<heap, root, req, status, ret>>

----------------------------------------------------------------------------
(* traverse                                                                *)

TraverseAcquire(t) ==
    /\ pc[t] = "traverse"
    /\ acquire(NULL)
    /\ Goto(t, "traverse_start")
    /\ UNCHANGED <<heap, root, req, pn, status, ret>>

\* Where the call goes when traverse returns.
Helper(t) == req[t].op

\* A mutant: css->root is not read again under the lock.
TraverseEmpty_NoRecheck(t) ==
    /\ pc[t] = "traverse_start"
    /\ pn[t].n = NULL
    /\ Goto(t, Helper(t))
    /\ UNCHANGED <<heap, root, lock, req, pn, status, ret>>

\* The structure is still empty: traverse returns CONTINUE with pn->p = NULL.
TraverseEmpty(t) ==
    /\ pc[t] = "traverse_start"
    /\ pn[t].n = NULL
    /\ Hash[root] = Hash[pn[t].n]
    /\ Goto(t, Helper(t))
    /\ UNCHANGED <<heap, root, lock, req, pn, status, ret>>

\* The loop starts at pn->n, read again from c->root when get_root returned
\* NULL.
TraverseStart(t) ==
    /\ pc[t] = "traverse_start"
    /\ pn[t].n = NULL => Hash[root] # Hash[pn[t].n]
    /\ pn' = [pn EXCEPT ![t].n = IF pn[t].n = NULL THEN root ELSE pn[t].n]
    /\ Goto(t, "find")
    /\ UNCHANGED <<heap, root, lock, req, status, ret>>

\* An iteration of the loop.
FindNext(t) ==
    LET p == pn[t].n
        f == findNext(heap, p, p, req[t].key)
    IN  /\ pc[t] = "find"
        /\ pn' = [pn EXCEPT ![t] = [p |-> p, n |-> f.n]]
        /\ status' = [status EXCEPT ![t] = f.status]
        /\ Goto(t, IF f.status = "CONTINUE" THEN "find" ELSE Helper(t))
        /\ UNCHANGED <<heap, root, lock, req, ret>>

----------------------------------------------------------------------------
(* insertOp_helper and lookupOp_helper, which release c->lock at their end *)

\* A mutant: the early return of insertOp_helper forgets the lock.
InsertReplace_NoRelease(t) ==
    /\ pc[t] = "insert"
    /\ ~insertAllocates(heap, pn[t].p, req[t].key)
    /\ heap' = insertOp(heap, pn[t].p, req[t].key, req[t].value, NULL)
    /\ Goto(t, "return")
    /\ UNCHANGED <<root, lock, req, pn, status, ret>>

\* insertOp overwrites the value of p and returns NULL.
InsertReplace(t) ==
    /\ pc[t] = "insert"
    /\ ~insertAllocates(heap, pn[t].p, req[t].key)
    /\ heap' = insertOp(heap, pn[t].p, req[t].key, req[t].value, NULL)
    /\ release(NULL)
    /\ Goto(t, "return")
    /\ UNCHANGED <<root, req, pn, status, ret>>

\* insertOp mallocs a node and links it behind p, or the helper makes it
\* the root if p is NULL.
InsertNode(t) ==
    /\ pc[t] = "insert"
    /\ insertAllocates(heap, pn[t].p, req[t].key)
    /\ \E n \in Node \ DOMAIN heap :
          /\ heap' = insertOp(heap, pn[t].p, req[t].key, req[t].value, n)
          /\ root' = IF pn[t].p = NULL THEN n ELSE root
    /\ release(NULL)
    /\ Goto(t, "return")
    /\ UNCHANGED <<req, pn, status, ret>>

\* A mutant: the value of p is returned whether or not p holds the key.
LookupValue_NoStatus(t) ==
    /\ pc[t] = "lookup"
    /\ ret' = [ret EXCEPT ![t] = IF pn[t].p # NULL
                                 THEN get_value(heap, pn[t].p) ELSE NULL]
    /\ release(NULL)
    /\ Goto(t, "return")
    /\ UNCHANGED <<heap, root, req, pn, status>>

\* The value is read, if traverse found the key.
LookupValue(t) ==
    /\ pc[t] = "lookup"
    /\ ret' = [ret EXCEPT ![t] = IF status[t] = "FOUND"
                                 THEN get_value(heap, pn[t].p) ELSE NULL]
    /\ release(NULL)
    /\ Goto(t, "return")
    /\ UNCHANGED <<heap, root, req, pn, status>>

\* free(pn), and insert or lookup returns.
End(t) == Return(t)

----------------------------------------------------------------------------
Work(t) ==
    \/ GetRootAcquire(t) \/ GetRootRead(t)
    \/ TraverseAcquire(t) \/ TraverseEmpty(t) \/ TraverseStart(t) \/ FindNext(t)
    \/ InsertReplace(t) \/ InsertNode(t) \/ LookupValue(t) \/ End(t)

Next == \E t \in Thread : Begin(t) \/ Work(t)

Spec == Init /\ [][Next]_vars

\* A thread inside a call is scheduled again and again; when it calls is its
\* own business.  The CAS of an acquire need not succeed for a thread because
\* the lock is free now and then, so fairness is weak.
FairSpec == Spec /\ \A t \in Thread : WF_vars(Work(t))

----------------------------------------------------------------------------
(* Properties                                                              *)

TypeOK ==
    /\ TemplateTypeOK
    /\ pc \in [Thread -> Labels]

\* The threads between an acquire and the release that follows it.
Inside ==
    {t \in Thread : pc[t] \in {"get_root_read", "traverse_start", "find",
                               "insert", "lookup"}}

\* traverse takes the lock and a helper gives it back: there is never more
\* than one thread between the two, the lock is taken exactly while there is
\* one, and no path through traverse and the helpers leaves it taken.
LockInv ==
    /\ \A t, u \in Inside : t = u
    /\ lock[NULL] = 1 <=> Inside # {}

\* A search is on the way to its key, although the root it starts from was
\* read before the lock was taken; at the end p is where the key belongs.
KeysetInv ==
    \A t \in Thread :
        /\ pc[t] = "find" => pn[t].n \in Visited(heap, root, req[t].key)
        /\ pc[t] \in {"insert", "lookup"} => TraverseResult(t)

Phase(t) ==
    CASE pc[t] = "idle" -> "idle"
      [] pc[t] = "return" -> "done"
      [] OTHER -> "called"

Map == INSTANCE ConcurrentMap WITH
          map <- Contents(heap, root), phase <- [t \in Thread |-> Phase(t)]

\* Every insert and lookup is atomic (insert_spec, lookup_spec).
Linearizable == Map!Spec

\* Some call of those in progress returns.
Progress ==
    (\E t \in Thread : pc[t] # "idle") ~> (\E t \in Thread : pc[t] = "return")
=============================================================================
