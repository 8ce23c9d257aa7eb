--------------------------- MODULE DataStructure ---------------------------
(***************************************************************************)
(* data_structure.h: the interface the templates program against.  Which   *)
(* implementation stands behind it is decided when the program is linked   *)
(* (list.o or bst.o); here the constant DS decides.                        *)
(*                                                                         *)
(* Besides the interface the module defines what a heap means as a search  *)
(* structure: which nodes are linked in, which key/value map they hold and *)
(* where a search for a key goes.  The templates' properties are about     *)
(* these.                                                                  *)
(***************************************************************************)
EXTENDS Integers

CONSTANTS Node, NULL, Key, Value,
          DS     \* "list" or "bst"

List == INSTANCE LinkedList
Tree == INSTANCE BST

ASSUME KeyAssumption == Key \subseteq Int
ASSUME NullAssumption == NULL \notin Node
ASSUME DSAssumption == DS \in {"list", "bst"}

Pointer == Node \cup {NULL}
Status == {"FOUND", "NOTFOUND", "CONTINUE"}

NodeFields == IF DS = "list" THEN List!NodeFields ELSE Tree!NodeFields

Children(heap, p) ==
    IF DS = "list" THEN List!Children(heap, p) ELSE Tree!Children(heap, p)

findNext(heap, p, n, x) ==
    IF DS = "list" THEN List!findNext(heap, p, n, x)
                   ELSE Tree!findNext(heap, p, n, x)

insertAllocates(heap, p, x) ==
    IF DS = "list" THEN List!insertAllocates(heap, p, x)
                   ELSE Tree!insertAllocates(heap, p, x)

insertOp(heap, p, x, value, new) ==
    IF DS = "list" THEN List!insertOp(heap, p, x, value, new)
                   ELSE Tree!insertOp(heap, p, x, value, new)

get_value(heap, p) == heap[p].value
get_key(heap, p) == heap[p].key

IsHeap(heap) ==
    /\ DOMAIN heap \subseteq Node
    /\ heap \in [DOMAIN heap -> NodeFields]

----------------------------------------------------------------------------
(* The meaning of a heap with a root.                                      *)

\* A malloced node is part of the structure once the root or a node of the
\* structure points to it.  (A node that is malloced and not yet linked has
\* no children, so one look back is enough.)
Linked(heap, root) ==
    {n \in DOMAIN heap : n = root \/ \E m \in DOMAIN heap : n \in Children(heap, m)}

\* The map the structure holds; NULL stands for an absent key.
Contents(heap, root) ==
    [k \in Key |->
        IF \E n \in Linked(heap, root) : heap[n].key = k
        THEN heap[CHOOSE n \in Linked(heap, root) : heap[n].key = k].value
        ELSE NULL]

\* findNext sends a search for x from p on to n.
Sends(heap, p, n, x) ==
    LET f == findNext(heap, p, p, x) IN f.status = "CONTINUE" /\ f.n = n

\* A search for x that is at one of these nodes goes on among them.
SearchClosed(heap, nodes, x) ==
    \A p \in nodes :
        LET f == findNext(heap, p, p, x) IN f.status = "CONTINUE" => f.n \in nodes

\* The nodes that a search for x from the root that nobody disturbs comes by:
\* x belongs to their insets.  They are those a search cannot get round, and it
\* stays at NULL if there is no root.
Visited(heap, root, x) ==
    IF root = NULL THEN {NULL}
    ELSE {n \in DOMAIN heap :
             \A nodes \in SUBSET (DOMAIN heap \ {n}) :
                root \in nodes => ~SearchClosed(heap, nodes, x)}

\* Those where it ends: x belongs to their keysets.
Landing(heap, root, x) ==
    {n \in Visited(heap, root, x) :
        n # NULL => findNext(heap, n, n, x).status # "CONTINUE"}
============================================================================
