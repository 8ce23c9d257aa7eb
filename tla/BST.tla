-------------------------------- MODULE BST --------------------------------
(***************************************************************************)
(* bst.c: the binary search tree behind the interface data_structure.h.    *)
(* The conventions are those of module LinkedList.                         *)
(***************************************************************************)
EXTENDS Integers

CONSTANTS
    Node,     \* addresses surely_malloc can return for a struct node
    NULL,     \* the null pointer
    Key,      \* the int keys in use
    Value     \* the void* values in use

Pointer == Node \cup {NULL}

\* typedef struct node { int key; void *value; node *left, *right; } node;
NodeFields == [key : Key, value : Value, left : Pointer, right : Pointer]

\* The nodes p points to.
Children(heap, p) == {heap[p].left, heap[p].right} \ {NULL}

\* findNext(p, &n, x): the Status it returns and what *n_tree holds after it.
findNext(heap, p, n, x) ==
    IF x = heap[p].key
    THEN [status |-> "FOUND", n |-> n]
    ELSE LET child == IF x < heap[p].key THEN heap[p].left ELSE heap[p].right
         IN  [status |-> IF child = NULL THEN "NOTFOUND" ELSE "CONTINUE",
              n |-> child]

\* insertOp mallocs a node, and returns it, unless p already holds the key;
\* then it overwrites the value and returns NULL.
insertAllocates(heap, p, x) == p # NULL => heap[p].key # x

\* The heap after surely_malloc(sizeof(node)) returned new and it was filled
\* in as a leaf.
Malloced(heap, new, x, v) ==
    [m \in DOMAIN heap \cup {new} |->
        IF m = new THEN [key |-> x, value |-> v, left |-> NULL, right |-> NULL]
        ELSE heap[m]]

\* A mutant: a greater key goes to the left.
insertOp_Mirrored(heap, p, x, value, new) ==
    IF p = NULL
    THEN Malloced(heap, new, x, value)
    ELSE IF heap[p].key = x
    THEN [heap EXCEPT ![p].value = value]
    ELSE IF x > heap[p].key
    THEN Malloced([heap EXCEPT ![p].left = new], new, x, value)
    ELSE Malloced([heap EXCEPT ![p].right = new], new, x, value)

\* The heap after insertOp(p, x, value), new being the malloced node.
insertOp(heap, p, x, value, new) ==
    IF p = NULL
    THEN Malloced(heap, new, x, value)
    ELSE IF heap[p].key = x
    THEN [heap EXCEPT ![p].value = value]
    ELSE IF x < heap[p].key
    THEN Malloced([heap EXCEPT ![p].left = new], new, x, value)
    ELSE Malloced([heap EXCEPT ![p].right = new], new, x, value)
============================================================================
