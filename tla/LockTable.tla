------------------------------ MODULE LockTable ------------------------------
(***************************************************************************)
(* What coupling.c and giveup.c have in common.  Every node has a lock,    *)
(* found through the table css->metadata at index hash(node); index        *)
(* hash(NULL) holds the lock that protects css->root and the empty         *)
(* structure.  get_root, the start of traverse and the two helpers go the  *)
(* same way in both files (the lines named are those of coupling.c); the   *)
(* loop of traverse is what Coupling and GiveUp add.                       *)
(*                                                                         *)
(* An md_entry is malloced together with its lock, once per node, and      *)
(* never changes; the entry of node n goes by the name n, the one          *)
(* make_css mallocs by the name NULL.                                      *)
(***************************************************************************)
EXTENDS Template

CONSTANT Uninit   \* what a slot of the malloced table holds at first

ASSUME UninitAssumption == Uninit \notin Pointer

VARIABLES
    metadata, \* css->metadata: hash index to md_entry
    md,       \* per thread, the md_entry whose lock it acquires or releases next
    new       \* per thread, insertOp_helper's new_node

tableVars == <<templateVars, metadata, md, new>>

Index == {Hash[p] : p \in Pointer}

Labels == {"idle", "get_root", "get_root_read", "traverse", "traverse_start",
           "node", "find", "next", "prev", "insert", "metadata",
           "release_new", "release_p", "lookup", "return"}

lookup_md(p) == metadata[Hash[p]]

Remember(t, entry) == md' = [md EXCEPT ![t] = entry]

\* acquire(md->lock) and release(md->lock).
AcquireMd(t) == md[t] \in Pointer /\ acquire(md[t])
ReleaseMd(t) == md[t] \in Pointer /\ release(md[t])

\* make_css: the table is not cleared.
TableInit ==
    /\ TemplateInit
    /\ metadata = [i \in Index |-> IF i = Hash[NULL] THEN NULL ELSE Uninit]
    /\ md = [t \in Thread |-> NULL]
    /\ new = [t \in Thread |-> NULL]

----------------------------------------------------------------------------
(* get_root                                                                *)

\* insert or lookup is called; get_root looks up the md_entry of NULL.
Begin(t) ==
    /\ Call(t)
    /\ Remember(t, lookup_md(NULL))
    /\ UNCHANGED <<metadata, new>>

GetRootAcquire(t) ==
    /\ pc[t] = "get_root"
    /\ AcquireMd(t)
    /\ Goto(t, "get_root_read")
    /\ UNCHANGED <<heap, root, req, pn, status, ret, metadata, md, new>>

\* r = t->root; release(md->lock); pn->n = r.  traverse then looks up the
\* md_entry of pn->n.
GetRootRead(t) ==
    /\ pc[t] = "get_root_read"
    /\ pn' = [pn EXCEPT ![t].n = root]
    /\ ReleaseMd(t)
    /\ Remember(t, lookup_md(root))
    /\ Goto(t, "traverse")
    /\ UNCHANGED <<heap, root, req, status, ret, metadata, new>>

----------------------------------------------------------------------------
(* traverse, up to its loop                                                *)

TraverseAcquire(t) ==
    /\ pc[t] = "traverse"
    /\ AcquireMd(t)
    /\ Goto(t, "traverse_start")
    /\ UNCHANGED <<heap, root, req, pn, status, ret, metadata, md, new>>

\* Where the call goes when traverse returns.
Helper(t) == req[t].op

\* A mutant: css->root is not read again under the lock.
TraverseEmpty_NoRecheck(t) ==
    /\ pc[t] = "traverse_start"
    /\ pn[t].n = NULL
    /\ Goto(t, Helper(t))
    /\ UNCHANGED <<heap, root, lock, req, pn, status, ret, metadata, md, new>>

\* The structure is still empty: traverse returns CONTINUE with the lock of
\* NULL held and pn->p = NULL.
TraverseEmpty(t) ==
    /\ pc[t] = "traverse_start"
    /\ pn[t].n = NULL
    /\ Hash[root] = Hash[pn[t].n]
    /\ Goto(t, Helper(t))
    /\ UNCHANGED <<heap, root, lock, req, pn, status, ret, metadata, md, new>>

\* The traversal starts at pn->n, read again from c->root when get_root
\* returned NULL; the lock is released and that of pn->n looked up.
TraverseStart(t) ==
    LET n == IF pn[t].n = NULL THEN root ELSE pn[t].n
    IN  /\ pc[t] = "traverse_start"
        /\ pn[t].n = NULL => Hash[root] # Hash[pn[t].n]
        /\ pn' = [pn EXCEPT ![t].n = n]
        /\ ReleaseMd(t)
        /\ Remember(t, lookup_md(n))
        /\ Goto(t, "node")
        /\ UNCHANGED <<heap, root, req, status, ret, metadata, new>>

\* A mutant: the lock is not acquired.
AcquireNode_NoLock(t) ==
    /\ pc[t] = "node"
    /\ Goto(t, "find")
    /\ UNCHANGED <<heap, root, lock, req, pn, status, ret, metadata, md, new>>

\* acquire(md_n->lock) before the loop of coupling.c, acquire(md->lock) at
\* the head of that of giveup.c.
AcquireNode(t) ==
    /\ pc[t] = "node"
    /\ AcquireMd(t)
    /\ Goto(t, "find")
    /\ UNCHANGED <<heap, root, req, pn, status, ret, metadata, md, new>>

----------------------------------------------------------------------------
(* insertOp_helper                                                         *)

\* A mutant: the early return of insertOp_helper forgets the lock.
InsertReplace_NoRelease(t) ==
    /\ pc[t] = "insert"
    /\ ~insertAllocates(heap, pn[t].p, req[t].key)
    /\ heap' = insertOp(heap, pn[t].p, req[t].key, req[t].value, NULL)
    /\ Goto(t, "return")
    /\ UNCHANGED <<root, lock, req, pn, status, ret, metadata, md, new>>

\* insertOp overwrites the value of p and returns NULL; lookup_md(p).
InsertReplace(t) ==
    /\ pc[t] = "insert"
    /\ ~insertAllocates(heap, pn[t].p, req[t].key)
    /\ heap' = insertOp(heap, pn[t].p, req[t].key, req[t].value, NULL)
    /\ Remember(t, lookup_md(pn[t].p))
    /\ Goto(t, "release_p")
    /\ UNCHANGED <<root, lock, req, pn, status, ret, metadata, new>>

\* insertOp mallocs a node and, unless p is NULL, links it behind p.
InsertNode(t) ==
    /\ pc[t] = "insert"
    /\ insertAllocates(heap, pn[t].p, req[t].key)
    /\ \E n \in Node \ DOMAIN heap :
          /\ heap' = insertOp(heap, pn[t].p, req[t].key, req[t].value, n)
          /\ new' = [new EXCEPT ![t] = n]
    /\ Goto(t, "metadata")
    /\ UNCHANGED <<root, lock, req, pn, status, ret, metadata, md>>

\* Two mutants: the new node's lock is made free; its md_entry is not stored.
InsertMetadata_FreeLock(t) ==
    /\ pc[t] = "metadata"
    /\ metadata' = [metadata EXCEPT ![Hash[new[t]]] = new[t]]
    /\ root' = IF pn[t].p = NULL THEN new[t] ELSE root
    /\ Remember(t, metadata'[Hash[pn[t].p]])
    /\ Goto(t, "release_new")
    /\ UNCHANGED <<heap, lock, req, pn, status, ret, new>>

InsertMetadata_NoStore(t) ==
    /\ pc[t] = "metadata"
    /\ lock' = [lock EXCEPT ![new[t]] = 1]
    /\ root' = IF pn[t].p = NULL THEN new[t] ELSE root
    /\ Remember(t, lookup_md(pn[t].p))
    /\ Goto(t, "release_new")
    /\ UNCHANGED <<heap, req, pn, status, ret, metadata, new>>

\* The md_entry of the new node, its lock taken as makelock makes it; the
\* new node becomes the root if p is NULL; lookup_md(p).
InsertMetadata(t) ==
    /\ pc[t] = "metadata"
    /\ metadata' = [metadata EXCEPT ![Hash[new[t]]] = new[t]]
    /\ lock' = [lock EXCEPT ![new[t]] = 1]
    /\ root' = IF pn[t].p = NULL THEN new[t] ELSE root
    /\ Remember(t, metadata'[Hash[pn[t].p]])
    /\ Goto(t, "release_new")
    /\ UNCHANGED <<heap, req, pn, status, ret, new>>

\* release(lock), the new node's.
ReleaseNew(t) ==
    /\ pc[t] = "release_new"
    /\ release(new[t])
    /\ Goto(t, "release_p")
    /\ UNCHANGED <<heap, root, req, pn, status, ret, metadata, md, new>>

\* release(lockp); insertOp_helper or lookupOp_helper returns.
ReleaseP(t) ==
    /\ pc[t] = "release_p"
    /\ ReleaseMd(t)
    /\ new' = [new EXCEPT ![t] = NULL]
    /\ Goto(t, "return")
    /\ UNCHANGED <<heap, root, req, pn, status, ret, metadata, md>>

----------------------------------------------------------------------------
(* lookupOp_helper                                                         *)

\* A mutant: the value of p is returned whether or not p holds the key.
LookupValue_NoStatus(t) ==
    /\ pc[t] = "lookup"
    /\ ret' = [ret EXCEPT ![t] = IF pn[t].p # NULL
                                 THEN get_value(heap, pn[t].p) ELSE NULL]
    /\ Remember(t, lookup_md(pn[t].p))
    /\ Goto(t, "release_p")
    /\ UNCHANGED <<heap, root, lock, req, pn, status, metadata, new>>

\* The value is read, if traverse found the key; lookup_md(p).
LookupValue(t) ==
    /\ pc[t] = "lookup"
    /\ ret' = [ret EXCEPT ![t] = IF status[t] = "FOUND"
                                 THEN get_value(heap, pn[t].p) ELSE NULL]
    /\ Remember(t, lookup_md(pn[t].p))
    /\ Goto(t, "release_p")
    /\ UNCHANGED <<heap, root, lock, req, pn, status, metadata, new>>

\* free(pn), and insert or lookup returns.
End(t) ==
    /\ Return(t)
    /\ Remember(t, NULL)
    /\ UNCHANGED <<metadata, new>>

----------------------------------------------------------------------------
(* Properties of both templates                                            *)

TypeOK ==
    /\ TemplateTypeOK
    /\ pc \in [Thread -> Labels]
    /\ metadata \in [Index -> Pointer \cup {Uninit}]
    /\ md \in [Thread -> Pointer \cup {Uninit}]
    /\ new \in [Thread -> Pointer]

\* The nodes a thread is about to read or write, by its place in the code;
\* NULL stands for css->root and the empty structure.
Held(t) ==
    {p \in Pointer :
        \/ pc[t] = "get_root_read" /\ p = NULL
        \/ pc[t] \in {"traverse_start", "find", "prev"} /\ p = pn[t].n
        \/ /\ pc[t] \in {"next", "prev", "insert", "metadata", "release_new",
                         "release_p", "lookup"}
           /\ p = pn[t].p
        \/ pc[t] = "release_new" /\ p = new[t]}

\* No node, and not css->root either, is in use by two threads at a time,
\* although a thread finds a lock through a table that others write and
\* holds two locks when it inserts, and in coupling.c when it goes from node
\* to node.
MutualExclusion ==
    \A t, u \in Thread : t # u => Held(t) \cap Held(u) = {}

\* The locks taken are those of the nodes in use: no acquire is lost, no
\* lock is released by a thread that does not hold it, none is left taken.
LockInv ==
    \A l \in Pointer : lock[l] = 1 <=> \E t \in Thread : l \in Held(t)

\* The table has the md_entry of every node in use, as own_nodes says with
\* Znth (f n) md = p (README.md:303): the holder releases the lock it took,
\* and whoever comes to the node waits for that lock.  No insert into the
\* table replaces the md_entry of a node while a thread is at it.
LocksFound == \A t \in Thread : \A p \in Held(t) : lookup_md(p) = p

\* A node that is linked in has its md_entry, but for the node an inserter
\* has linked and not given one yet; that one holds the lock of p, and no
\* other thread looks at the new node's slot.
Published ==
    /\ \A n \in Linked(heap, root) :
          \/ lookup_md(n) = n
          \/ \E t \in Thread : pc[t] = "metadata" /\ new[t] = n /\ n # root
    /\ \A t \in Thread : md[t] # Uninit

\* A traversal that other threads overtake or insert in front of, in
\* giveup.c while it holds no lock at all, is still on the way to its key,
\* and at its end p is where the key belongs.
KeysetInv ==
    \A t \in Thread :
        /\ pc[t] \in {"node", "find", "next", "prev"} =>
              pn[t].n \in Visited(heap, root, req[t].key)
        /\ pc[t] \in {"insert", "lookup"} => TraverseResult(t)

\* insert takes effect when the node is linked in, or its value written;
\* lookup when it reads the value or finds that there is none.
Phase(t) ==
    CASE pc[t] = "idle" -> "idle"
      [] \/ pc[t] \in {"release_new", "release_p", "return"}
         \/ pc[t] = "metadata" /\ pn[t].p # NULL -> "done"
      [] OTHER -> "called"

Map == INSTANCE ConcurrentMap WITH
          map <- Contents(heap, root), phase <- [t \in Thread |-> Phase(t)]

\* Every insert and lookup is atomic (insert_spec, lookup_spec).
Linearizable == Map!Spec

\* Some call of those in progress returns: the threads in a call never wait
\* for each other in a circle, and no traversal goes on for ever.
Progress ==
    (\E t \in Thread : pc[t] # "idle") ~> (\E t \in Thread : pc[t] = "return")
=============================================================================
