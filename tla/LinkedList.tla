---------------------------- MODULE LinkedList ----------------------------
(***************************************************************************)
(* list.c: the sorted linked list behind the interface data_structure.h.   *)
(*                                                                         *)
(* A heap is a function from the allocated nodes to their fields.  What    *)
(* list.c computes from a node is an operator on the heap; insertOp is the *)
(* heap it leaves behind.                                                  *)
(***************************************************************************)
EXTENDS Integers

CONSTANTS
    Node,     \* addresses surely_malloc can return for a struct node
    NULL,     \* the null pointer
    Key,      \* the int keys in use
    Value     \* the void* values in use

Pointer == Node \cup {NULL}

\* typedef struct node { int key; void *value; node *next; } node;
NodeFields == [key : Key, value : Value, next : Pointer]

\* The nodes p points to.
Children(heap, p) == {heap[p].next} \ {NULL}

\* findNext(p, &n, x): the Status it returns and what *n_list holds after
\* it.  The pointer is written only when the key lies behind p.
findNext(heap, p, n, x) ==
    IF x > heap[p].key
    THEN [status |-> IF heap[p].next = NULL THEN "NOTFOUND" ELSE "CONTINUE",
          n |-> heap[p].next]
    ELSE [status |-> IF x < heap[p].key THEN "NOTFOUND" ELSE "FOUND", n |-> n]

\* insertOp mallocs a node, and returns it, unless p already holds the key;
\* then it overwrites the value and returns NULL.
insertAllocates(heap, p, x) == p # NULL => heap[p].key # x

\* A mutant: the new node's next is not written.
Malloced_NoNext(heap, new, fields) ==
    [m \in DOMAIN heap \cup {new} |->
        IF m = new THEN [key |-> fields.key, value |-> fields.value] ELSE heap[m]]

\* The heap after surely_malloc(sizeof(node)) returned new and its fields
\* were filled in.
Malloced(heap, new, fields) ==
    [m \in DOMAIN heap \cup {new} |-> IF m = new THEN fields ELSE heap[m]]

\* A mutant: the key goes behind p even if it precedes p's.
insertOp_NoSwap(heap, p, x, value, new) ==
    IF p = NULL
    THEN Malloced(heap, new, [key |-> x, value |-> value, next |-> NULL])
    ELSE IF heap[p].key = x
    THEN [heap EXCEPT ![p].value = value]
    ELSE Malloced([heap EXCEPT ![p].next = new],
                  new, [key |-> x, value |-> value, next |-> heap[p].next])

\* The heap after insertOp(p, x, value), new being the malloced node.  A key
\* that precedes p's goes into p itself: p and the new node behind it swap
\* keys and values.
insertOp(heap, p, x, value, new) ==
    IF p = NULL
    THEN Malloced(heap, new, [key |-> x, value |-> value, next |-> NULL])
    ELSE IF heap[p].key = x
    THEN [heap EXCEPT ![p].value = value]
    ELSE IF x < heap[p].key
    THEN Malloced([heap EXCEPT ![p] = [key |-> x, value |-> value, next |-> new]],
                  new, heap[p])
    ELSE Malloced([heap EXCEPT ![p].next = new],
                  new, [key |-> x, value |-> value, next |-> heap[p].next])
===========================================================================
