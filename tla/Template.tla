------------------------------ MODULE Template ------------------------------
(***************************************************************************)
(* template.c: the calls insert and lookup that client threads make on one *)
(* css, and the spin locks of threads.c that the templates synchronize     *)
(* with.  The modules Coarse, Coupling and GiveUp extend this one with     *)
(* get_root, traverse, insertOp_helper and lookupOp_helper of their file.  *)
(*                                                                         *)
(* A template's action covers the code from one synchronization to the     *)
(* next, and each acquire, and each release but the last of a call, is a   *)
(* step of its own or begins or ends one.                                  *)
(***************************************************************************)
EXTENDS DataStructure

CONSTANTS
    Thread,   \* the threads that call insert and lookup
    Hash      \* hash(p) of common.h, a function on pointers

ASSUME HashAssumption == DOMAIN Hash = Pointer

\* What common.v assumes of hash: Axiom f_injective.
HashInjective == \A p, q \in Pointer : Hash[p] = Hash[q] => p = q

VARIABLES
    heap,     \* the malloced nodes
    root,     \* css->root
    lock,     \* the lock words: 1 is taken.  lock[NULL] is the lock that
              \* make_css makes, lock[n] the one made for node n
    pc,       \* per thread, where it is
    req,      \* per thread, the arguments of its insert or lookup
    pn,       \* per thread, struct pn { node *p; node *n; }
    status,   \* per thread, the Status traverse returned or is about to
    ret       \* per thread, the value lookup returns

templateVars == <<heap, root, lock, pc, req, pn, status, ret>>

Request == [op : {"insert"}, key : Key, value : Value]
             \cup [op : {"lookup"}, key : Key, value : {NULL}]

NoRequest == [op |-> "none"]
NoPn == [p |-> NULL, n |-> NULL]

\* make_css, and no thread in a call yet.
TemplateInit ==
    /\ heap = [n \in {} |-> NULL]
    /\ root = NULL
    /\ lock = [l \in Pointer |-> 0]
    /\ pc = [t \in Thread |-> "idle"]
    /\ req = [t \in Thread |-> NoRequest]
    /\ pn = [t \in Thread |-> NoPn]
    /\ status = [t \in Thread |-> "CONTINUE"]
    /\ ret = [t \in Thread |-> NULL]

Goto(t, label) == pc' = [pc EXCEPT ![t] = label]

\* The iteration of acquire's loop in which the CAS succeeds; the others
\* change nothing.
acquire(l) == lock[l] = 0 /\ lock' = [lock EXCEPT ![l] = 1]

release(l) == lock' = [lock EXCEPT ![l] = 0]

\* insert and lookup up to the call of get_root.
Call(t) ==
    /\ pc[t] = "idle"
    /\ \E r \in Request : req' = [req EXCEPT ![t] = r]
    /\ pn' = [pn EXCEPT ![t] = NoPn]
    /\ Goto(t, "get_root")
    /\ UNCHANGED <<heap, root, lock, status, ret>>

\* free(pn) and the return of insert or lookup; the locals are gone.
Return(t) ==
    /\ pc[t] = "return"
    /\ Goto(t, "idle")
    /\ req' = [req EXCEPT ![t] = NoRequest]
    /\ pn' = [pn EXCEPT ![t] = NoPn]
    /\ status' = [status EXCEPT ![t] = "CONTINUE"]
    /\ ret' = [ret EXCEPT ![t] = NULL]
    /\ UNCHANGED <<heap, root, lock>>

TemplateTypeOK ==
    /\ IsHeap(heap)
    /\ root \in Pointer
    /\ lock \in [Pointer -> {0, 1}]
    /\ req \in [Thread -> Request \cup {NoRequest}]
    /\ pn \in [Thread -> [p : Pointer, n : Pointer]]
    /\ status \in [Thread -> Status]
    /\ ret \in [Thread -> Value \cup {NULL}]

----------------------------------------------------------------------------
(* Invariants that every template must establish.                          *)

\* Every key sits in one node of the structure at most, and a search for a
\* key of the structure that nobody disturbs ends at its node: nothing that
\* was inserted gets lost.  The inserts of any number of threads, each
\* having chosen its place before, preserve it.
SearchStructure ==
    \A n \in Linked(heap, root) :
        /\ \A m \in Linked(heap, root) : heap[m].key = heap[n].key => m = n
        /\ Landing(heap, root, heap[n].key) = {n}

\* From the end of traverse until the helper has acted on it, the node p that
\* traverse chose is where x belongs, and the status says whether p holds x
\* (traverse_spec of template_class.v): no other thread may meanwhile insert
\* x elsewhere, or a node between p and x.
TraverseResult(t) ==
    /\ Landing(heap, root, req[t].key) = {pn[t].p}
    /\ status[t] = "FOUND" <=> pn[t].p # NULL /\ heap[pn[t].p].key = req[t].key
    /\ status[t] = "CONTINUE" <=> pn[t].p = NULL
============================================================================
