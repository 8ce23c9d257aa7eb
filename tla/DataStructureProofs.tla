------------------------ MODULE DataStructureProofs ------------------------
(***************************************************************************)
(* What the templates need to know of list.c and bst.c: findNext stays     *)
(* among the nodes, insertOp adds one node and leaves no pointer that      *)
(* leads outside, and which searches it makes take another way.            *)
(***************************************************************************)
EXTENDS DataStructure, TLAPS

\* No node points to a node that was not malloced.
Closed(h) == \A m \in DOMAIN h : Children(h, m) \subseteq DOMAIN h

\* findNext on a node returns a Status; what it leaves in *n is a node that p
\* points to if the search is to continue there, and is NULL or as it was
\* otherwise.
LEMMA FindNextLemma ==
    ASSUME NEW h, IsHeap(h), Closed(h),
           NEW p \in DOMAIN h, NEW n, NEW x \in Key
    PROVE  LET f == findNext(h, p, n, x)
           IN  /\ f.status \in Status
               /\ f.status = "CONTINUE" => f.n \in DOMAIN h /\ f.n \in Children(h, p)
               /\ f.n \in DOMAIN h \cup {NULL, n}
<1>1. CASE DS = "list"
  <2>1. h[p] \in List!NodeFields
    BY <1>1 DEF IsHeap, NodeFields
  <2>2. h[p].next \in DOMAIN h \cup {NULL}
    BY <1>1, <2>1 DEF Closed, Children, List!Children, List!NodeFields, List!Pointer
  <2>. QED
    BY <1>1, <2>2 DEF findNext, List!findNext, Status, Children, List!Children
<1>2. CASE DS = "bst"
  <2>1. h[p] \in Tree!NodeFields
    BY <1>2 DEF IsHeap, NodeFields
  <2>2. h[p].left \in DOMAIN h \cup {NULL} /\ h[p].right \in DOMAIN h \cup {NULL}
    BY <1>2, <2>1 DEF Closed, Children, Tree!Children, Tree!NodeFields, Tree!Pointer
  <2>. QED
    BY <1>2, <2>2 DEF findNext, Tree!findNext, Status, Children, Tree!Children
<1>. QED
  BY <1>1, <1>2, DSAssumption

\* insertOp on a node that holds the key changes no pointer.
LEMMA InsertReplaceLemma ==
    ASSUME NEW h, IsHeap(h), Closed(h),
           NEW p \in DOMAIN h \cup {NULL}, NEW x \in Key, NEW v \in Value, NEW n,
           ~insertAllocates(h, p, x)
    PROVE  LET h2 == insertOp(h, p, x, v, n)
           IN  /\ DOMAIN h2 = DOMAIN h /\ IsHeap(h2)
               /\ \A m \in DOMAIN h : Children(h2, m) = Children(h, m)
<1>. DEFINE h2 == insertOp(h, p, x, v, n)
<1>1. h2 = [h EXCEPT ![p].value = v] /\ p \in DOMAIN h
  BY DSAssumption DEF insertOp, insertAllocates, List!insertOp, Tree!insertOp,
                      List!insertAllocates, Tree!insertAllocates
<1>2. \A m \in DOMAIN h2 : h2[m] \in NodeFields /\ Children(h2, m) = Children(h, m)
  <2>. SUFFICES ASSUME NEW m \in DOMAIN h
                PROVE  h2[m] \in NodeFields /\ Children(h2, m) = Children(h, m)
    BY <1>1
  <2>1. h2[m] = IF m = p THEN [h[m] EXCEPT !.value = v] ELSE h[m]
    BY <1>1
  <2>2. h[m] \in NodeFields
    BY DEF IsHeap
  <2>3. CASE DS = "list"
    BY <2>1, <2>2, <2>3 DEF NodeFields, List!NodeFields, Children, List!Children
  <2>4. CASE DS = "bst"
    BY <2>1, <2>2, <2>4 DEF NodeFields, Tree!NodeFields, Children, Tree!Children
  <2>. QED
    BY <2>3, <2>4, DSAssumption
<1>3. DOMAIN h2 = DOMAIN h /\ h2 = [m \in DOMAIN h2 |-> h2[m]]
  BY <1>1
<1>4. IsHeap(h2)
  BY <1>2, <1>3 DEF IsHeap
<1>. QED
  BY <1>2, <1>3, <1>4

\* The pointers of the heap h2 are those of h, one from p to n, and those that
\* n takes over from p.
AddsPointer(h, h2, p, n) ==
    \A m \in DOMAIN h2 : \A c \in Children(h2, m) :
        \/ m \in DOMAIN h /\ c \in Children(h, m)
        \/ m = p /\ c = n
        \/ m = n /\ p \in DOMAIN h /\ c \in Children(h, p)

\* Otherwise it adds the malloced node n to the heap.
LEMMA InsertNodeLemma ==
    ASSUME NEW h, IsHeap(h), Closed(h),
           NEW p \in DOMAIN h \cup {NULL}, NEW x \in Key, NEW v \in Value,
           insertAllocates(h, p, x), NEW n \in Node \ DOMAIN h
    PROVE  LET h2 == insertOp(h, p, x, v, n)
           IN  /\ DOMAIN h2 = DOMAIN h \cup {n} /\ IsHeap(h2) /\ Closed(h2)
               /\ AddsPointer(h, h2, p, n)
<1>. DEFINE h2 == insertOp(h, p, x, v, n)
<1>1. ASSUME DS = "list"
      PROVE  /\ DOMAIN h2 = DOMAIN h \cup {n} /\ IsHeap(h2) /\ Closed(h2)
             /\ AddsPointer(h, h2, p, n)
  <2>1. h \in [DOMAIN h -> List!NodeFields]
    BY <1>1 DEF IsHeap, NodeFields
  <2>2. \A m \in DOMAIN h : h[m].next \in DOMAIN h \cup {NULL}
    BY <1>1, <2>1 DEF Closed, Children, List!Children, List!NodeFields, List!Pointer
  <2>3. /\ DOMAIN h2 = DOMAIN h \cup {n}
        /\ h2 = [m \in DOMAIN h2 |-> h2[m]]
        /\ \A m \in DOMAIN h2 : h2[m] \in [key : Key, value : Value,
                                            next : DOMAIN h \cup {n, NULL}]
        /\ \A m \in DOMAIN h2 :
              \/ m \in DOMAIN h /\ h2[m].next = h[m].next
              \/ m = p /\ h2[m].next = n
              \/ m = n /\ p \in DOMAIN h /\ h2[m].next = h[p].next
              \/ h2[m].next = NULL
    <3>1. insertAllocates(h, p, x) /\ insertOp(h, p, x, v, n) = List!insertOp(h, p, x, v, n)
      BY <1>1 DEF insertOp
    <3>2. CASE p = NULL
      <4>1. h2 = [m \in DOMAIN h \cup {n} |->
                    IF m = n THEN [key |-> x, value |-> v, next |-> NULL] ELSE h[m]]
        BY <3>1, <3>2 DEF List!insertOp, List!Malloced
      <4>. QED
        BY <4>1, <2>1, <2>2 DEF List!NodeFields
    <3>3. CASE p # NULL /\ x < h[p].key
      <4>1. h[p].key # x
        BY <1>1, <3>3 DEF insertAllocates, List!insertAllocates
      <4>2. h2 = [m \in DOMAIN h \cup {n} |->
                    IF m = n THEN h[p]
                    ELSE IF m = p THEN [key |-> x, value |-> v, next |-> n]
                    ELSE h[m]]
        BY <3>1, <3>3, <4>1 DEF List!insertOp, List!Malloced
      <4>. QED
        BY <4>2, <2>1, <2>2, <3>3 DEF List!NodeFields
    <3>4. CASE p # NULL /\ ~(x < h[p].key)
      <4>1. h[p].key # x
        BY <1>1, <3>4 DEF insertAllocates, List!insertAllocates
      <4>2. h2 = [m \in DOMAIN h \cup {n} |->
                    IF m = n THEN [key |-> x, value |-> v, next |-> h[p].next]
                    ELSE IF m = p THEN [h[p] EXCEPT !.next = n]
                    ELSE h[m]]
        BY <3>1, <3>4, <4>1 DEF List!insertOp, List!Malloced
      <4>. QED
        BY <4>2, <2>1, <2>2, <3>4 DEF List!NodeFields
    <3>. QED
      BY <3>2, <3>3, <3>4
  <2>4. IsHeap(h2)
    <3>1. DOMAIN h2 \subseteq Node
      BY <2>3 DEF IsHeap
    <3>2. \A m \in DOMAIN h2 : h2[m] \in NodeFields
      BY <1>1, <2>3, <3>1 DEF NodeFields, List!NodeFields, List!Pointer
    <3>. QED
      BY <2>3, <3>1, <3>2 DEF IsHeap
  <2>5. Closed(h2)
    BY <1>1, <2>3 DEF Closed, Children, List!Children
  <2>6. AddsPointer(h, h2, p, n)
    BY <1>1, <2>3 DEF AddsPointer, Children, List!Children
  <2>. QED
    BY <2>3, <2>4, <2>5, <2>6
<1>2. ASSUME DS = "bst"
      PROVE  /\ DOMAIN h2 = DOMAIN h \cup {n} /\ IsHeap(h2) /\ Closed(h2)
             /\ AddsPointer(h, h2, p, n)
  <2>1. h \in [DOMAIN h -> Tree!NodeFields]
    BY <1>2 DEF IsHeap, NodeFields
  <2>2. \A m \in DOMAIN h : /\ h[m].left \in DOMAIN h \cup {NULL}
                            /\ h[m].right \in DOMAIN h \cup {NULL}
    BY <1>2, <2>1 DEF Closed, Children, Tree!Children, Tree!NodeFields, Tree!Pointer
  <2>3. /\ DOMAIN h2 = DOMAIN h \cup {n}
        /\ h2 = [m \in DOMAIN h2 |-> h2[m]]
        /\ \A m \in DOMAIN h2 : h2[m] \in [key : Key, value : Value,
                                            left : DOMAIN h \cup {n, NULL},
                                            right : DOMAIN h \cup {n, NULL}]
        /\ \A m \in DOMAIN h2 : \A c \in {h2[m].left, h2[m].right} :
              \/ m \in DOMAIN h /\ c \in {h[m].left, h[m].right}
              \/ m = p /\ c = n
              \/ c = NULL
    <3>. DEFINE leaf == [key |-> x, value |-> v, left |-> NULL, right |-> NULL]
    <3>1. insertOp(h, p, x, v, n) = Tree!insertOp(h, p, x, v, n)
      BY <1>2 DEF insertOp
    <3>2. CASE p = NULL
      <4>1. h2 = [m \in DOMAIN h \cup {n} |-> IF m = n THEN leaf ELSE h[m]]
        BY <3>1, <3>2 DEF Tree!insertOp, Tree!Malloced
      <4>. QED
        BY <4>1, <2>1, <2>2 DEF Tree!NodeFields
    <3>3. CASE p # NULL /\ x < h[p].key
      <4>1. h[p].key # x
        BY <1>2, <3>3 DEF insertAllocates, Tree!insertAllocates
      <4>2. h2 = [m \in DOMAIN h \cup {n} |->
                    IF m = n THEN leaf
                    ELSE IF m = p THEN [h[p] EXCEPT !.left = n]
                    ELSE h[m]]
        BY <3>1, <3>3, <4>1 DEF Tree!insertOp, Tree!Malloced
      <4>. QED
        BY <4>2, <2>1, <2>2, <3>3 DEF Tree!NodeFields
    <3>4. CASE p # NULL /\ ~(x < h[p].key)
      <4>1. h[p].key # x
        BY <1>2, <3>4 DEF insertAllocates, Tree!insertAllocates
      <4>2. h2 = [m \in DOMAIN h \cup {n} |->
                    IF m = n THEN leaf
                    ELSE IF m = p THEN [h[p] EXCEPT !.right = n]
                    ELSE h[m]]
        BY <3>1, <3>4, <4>1 DEF Tree!insertOp, Tree!Malloced
      <4>. QED
        BY <4>2, <2>1, <2>2, <3>4 DEF Tree!NodeFields
    <3>. QED
      BY <3>2, <3>3, <3>4
  <2>4. IsHeap(h2)
    <3>1. DOMAIN h2 \subseteq Node
      BY <2>3 DEF IsHeap
    <3>2. \A m \in DOMAIN h2 : h2[m] \in NodeFields
      BY <1>2, <2>3, <3>1 DEF NodeFields, Tree!NodeFields, Tree!Pointer
    <3>. QED
      BY <2>3, <3>1, <3>2 DEF IsHeap
  <2>5. Closed(h2)
    BY <1>2, <2>3 DEF Closed, Children, Tree!Children
  <2>6. AddsPointer(h, h2, p, n)
    BY <1>2, <2>3 DEF AddsPointer, Children, Tree!Children
  <2>. QED
    BY <2>3, <2>4, <2>5, <2>6
<1>. QED
  BY <1>1, <1>2, DSAssumption

----------------------------------------------------------------------------
(* Where findNext sends a search.                                          *)

\* Only a key that differs from that of a node is sent on from it.
LEMMA SendsLemma ==
    ASSUME NEW h, IsHeap(h), NEW m \in DOMAIN h, NEW c, NEW x \in Key, Sends(h, m, c, x)
    PROVE  h[m].key \in Key /\ x # h[m].key /\ x \in Int /\ h[m].key \in Int
<1>1. h[m].key \in Key
  BY DSAssumption DEF IsHeap, NodeFields, List!NodeFields, Tree!NodeFields
<1>2. x # h[m].key
  <2>1. CASE DS = "list"
    BY <1>1, <2>1, KeyAssumption DEF Sends, findNext, List!findNext
  <2>2. CASE DS = "bst"
    BY <1>1, <2>2, KeyAssumption DEF Sends, findNext, Tree!findNext
  <2>. QED
    BY <2>1, <2>2, DSAssumption
<1>. QED
  BY <1>1, <1>2, KeyAssumption

\* Where a node sends a search depends on its fields alone.
LEMMA SameNodeLemma ==
    ASSUME NEW h, NEW h2, NEW m, h2[m] = h[m], NEW c, NEW x
    PROVE  Sends(h2, m, c, x) <=> Sends(h, m, c, x)
<1>1. CASE DS = "list"
  BY <1>1 DEF Sends, findNext, List!findNext
<1>2. CASE DS = "bst"
  BY <1>2 DEF Sends, findNext, Tree!findNext
<1>. QED
  BY <1>1, <1>2, DSAssumption

\* insertOp on a node that holds the key sends no search elsewhere.
LEMMA ReplaceSendsLemma ==
    ASSUME NEW h, IsHeap(h),
           NEW p \in DOMAIN h \cup {NULL}, NEW x \in Key, NEW v \in Value, NEW n,
           ~insertAllocates(h, p, x),
           NEW m \in DOMAIN h, NEW c, NEW y \in Key
    PROVE  LET h2 == insertOp(h, p, x, v, n)
           IN  /\ h2[m].key = h[m].key
               /\ Sends(h2, m, c, y) <=> Sends(h, m, c, y)
<1>. DEFINE h2 == insertOp(h, p, x, v, n)
<1>1. h2 = [h EXCEPT ![p].value = v] /\ p \in DOMAIN h
  BY DSAssumption DEF insertOp, insertAllocates, List!insertOp, Tree!insertOp,
                      List!insertAllocates, Tree!insertAllocates
<1>2. h2[m] = IF m = p THEN [h[m] EXCEPT !.value = v] ELSE h[m]
  BY <1>1
<1>3. h[m] \in NodeFields
  BY DEF IsHeap
<1>. HIDE DEF h2
<1>4. CASE DS = "list"
  <2>1. h2[m].key = h[m].key /\ h2[m].next = h[m].next
    BY <1>2, <1>3, <1>4 DEF NodeFields, List!NodeFields
  <2>. QED
    BY <1>4, <2>1 DEF Sends, findNext, List!findNext, h2
<1>5. CASE DS = "bst"
  <2>1. h2[m].key = h[m].key /\ h2[m].left = h[m].left /\ h2[m].right = h[m].right
    BY <1>2, <1>3, <1>5 DEF NodeFields, Tree!NodeFields
  <2>. QED
    BY <1>5, <2>1 DEF Sends, findNext, Tree!findNext, h2
<1>. QED
  BY <1>4, <1>5, DSAssumption DEF h2

\* The heap h2 is h with a new node n next to p and changes p alone.  What p
\* sends to n is on the side of p's key, as it is then, where x is; p sends to
\* its other child what it did before; and n passes on what p sent to that
\* child before.
SplitsAt(h, h2, p, n, x) ==
    /\ \A m \in DOMAIN h \ {p} : h2[m] = h[m]
    /\ p \in DOMAIN h => \A c \in DOMAIN h, y \in Key :
          Sends(h2, p, c, y) => h2[p].key = h[p].key /\ Sends(h, p, c, y)
    /\ p \in DOMAIN h => \A y \in Key :
          Sends(h2, p, n, y) => IF x < h2[p].key THEN y < h2[p].key ELSE y > h2[p].key
    /\ \A c \in DOMAIN h2, y \in Key :
          Sends(h2, n, c, y) =>
              /\ p \in DOMAIN h /\ Sends(h, p, c, y) /\ ~(x < h2[p].key)
              /\ y > h[p].key /\ y > h2[n].key

LEMMA ListSplitLemma ==
    ASSUME DS = "list", NEW h, IsHeap(h), Closed(h),
           NEW p \in DOMAIN h \cup {NULL}, NEW x \in Key, NEW v \in Value,
           insertAllocates(h, p, x), NEW n \in Node \ DOMAIN h
    PROVE  SplitsAt(h, insertOp(h, p, x, v, n), p, n, x)
<1>. DEFINE h2 == insertOp(h, p, x, v, n)
<1>1. \A g, m, c, y : Sends(g, m, c, y) <=>
         y > g[m].key /\ g[m].next # NULL /\ c = g[m].next
  BY DEF Sends, findNext, List!findNext
<1>2. h \in [DOMAIN h -> List!NodeFields] /\ NULL \notin DOMAIN h
  BY NullAssumption DEF IsHeap, NodeFields
<1>3. insertOp(h, p, x, v, n) = List!insertOp(h, p, x, v, n)
  BY DEF insertOp
<1>4. p # NULL => h[p].key # x
  BY DEF insertAllocates, List!insertAllocates
<1>5. CASE p = NULL
  <2>1. h2 = [m \in DOMAIN h \cup {n} |->
                IF m = n THEN [key |-> x, value |-> v, next |-> NULL] ELSE h[m]]
    BY <1>3, <1>5 DEF List!insertOp, List!Malloced
  <2>. HIDE DEF h2
  <2>. QED
    BY <1>1, <1>2, <1>5, <2>1 DEF SplitsAt, h2
<1>6. CASE p # NULL /\ x < h[p].key
  <2>1. h2 = [m \in DOMAIN h \cup {n} |->
                IF m = n THEN h[p]
                ELSE IF m = p THEN [key |-> x, value |-> v, next |-> n]
                ELSE h[m]]
    BY <1>3, <1>4, <1>6 DEF List!insertOp, List!Malloced
  <2>. HIDE DEF h2
  <2>2. h2[p].key = x /\ h2[p].next = n /\ h2[n] = h[p]
    BY <1>6, <2>1
  <2>3. x \in Int /\ h[p].key \in Int
    BY <1>2, <1>6, KeyAssumption DEF List!NodeFields
  <2>. QED
    BY <1>1, <1>2, <1>6, <2>1, <2>2, <2>3, KeyAssumption DEF SplitsAt, h2
<1>7. CASE p # NULL /\ ~(x < h[p].key)
  <2>1. h2 = [m \in DOMAIN h \cup {n} |->
                IF m = n THEN [key |-> x, value |-> v, next |-> h[p].next]
                ELSE IF m = p THEN [h[p] EXCEPT !.next = n]
                ELSE h[m]]
    BY <1>3, <1>4, <1>7 DEF List!insertOp, List!Malloced
  <2>. HIDE DEF h2
  <2>2. /\ h2[p].key = h[p].key /\ h2[p].next = n
        /\ h2[n].key = x /\ h2[n].next = h[p].next
    BY <1>2, <1>7, <2>1 DEF List!NodeFields
  <2>3. x \in Int /\ h[p].key \in Int
    BY <1>2, <1>7, KeyAssumption DEF List!NodeFields
  <2>4. \A m \in DOMAIN h \ {p} : h2[m] = h[m]
    BY <2>1
  <2>5. \A c \in DOMAIN h, y \in Key : ~Sends(h2, p, c, y)
    BY <1>1, <2>2
  <2>6. \A y \in Key : Sends(h2, p, n, y) => ~(x < h2[p].key) /\ y > h2[p].key
    BY <1>1, <1>7, <2>2
  <2>7. ASSUME NEW c \in DOMAIN h2, NEW y \in Key, Sends(h2, n, c, y)
        PROVE  /\ p \in DOMAIN h /\ Sends(h, p, c, y) /\ ~(x < h2[p].key)
               /\ y > h[p].key /\ y > h2[n].key
    <3>1. y > x /\ h[p].next # NULL /\ c = h[p].next /\ y \in Int
      BY <1>1, <2>2, <2>7, KeyAssumption
    <3>2. y > h[p].key
      BY <1>7, <2>3, <3>1
    <3>. QED
      BY <1>1, <1>7, <2>2, <3>1, <3>2
  <2>. QED
    BY <2>4, <2>5, <2>6, <2>7 DEF SplitsAt, h2
<1>. QED
  BY <1>5, <1>6, <1>7

LEMMA TreeSplitLemma ==
    ASSUME DS = "bst", NEW h, IsHeap(h), Closed(h),
           NEW p \in DOMAIN h \cup {NULL}, NEW x \in Key, NEW v \in Value,
           insertAllocates(h, p, x), NEW n \in Node \ DOMAIN h
    PROVE  SplitsAt(h, insertOp(h, p, x, v, n), p, n, x)
<1>. DEFINE h2 == insertOp(h, p, x, v, n)
            leaf == [key |-> x, value |-> v, left |-> NULL, right |-> NULL]
            Child(g, m, y) == IF y < g[m].key THEN g[m].left ELSE g[m].right
<1>1. \A g, m, c, y : Sends(g, m, c, y) <=>
         y # g[m].key /\ Child(g, m, y) # NULL /\ c = Child(g, m, y)
  BY DEF Sends, findNext, Tree!findNext
<1>2. h \in [DOMAIN h -> Tree!NodeFields] /\ NULL \notin DOMAIN h
  BY NullAssumption DEF IsHeap, NodeFields
<1>3. insertOp(h, p, x, v, n) = Tree!insertOp(h, p, x, v, n)
  BY DEF insertOp
<1>4. p # NULL => h[p].key # x
  BY DEF insertAllocates, Tree!insertAllocates
<1>5. \A m \in DOMAIN h : h[m].left # n /\ h[m].right # n
  BY <1>2, NullAssumption
  DEF Closed, Children, Tree!Children, Tree!NodeFields, Tree!Pointer
<1>6. CASE p = NULL
  <2>1. h2 = [m \in DOMAIN h \cup {n} |-> IF m = n THEN leaf ELSE h[m]]
    BY <1>3, <1>6 DEF Tree!insertOp, Tree!Malloced
  <2>. HIDE DEF h2
  <2>. QED
    BY <1>1, <1>2, <1>6, <2>1 DEF SplitsAt, h2
<1>7. CASE p # NULL /\ x < h[p].key
  <2>1. h2 = [m \in DOMAIN h \cup {n} |->
                IF m = n THEN leaf
                ELSE IF m = p THEN [h[p] EXCEPT !.left = n]
                ELSE h[m]]
    BY <1>3, <1>4, <1>7 DEF Tree!insertOp, Tree!Malloced
  <2>. HIDE DEF h2
  <2>2. /\ h2[p].key = h[p].key /\ h2[p].left = n /\ h2[p].right = h[p].right
        /\ h2[n].left = NULL /\ h2[n].right = NULL
    BY <1>2, <1>7, <2>1 DEF Tree!NodeFields
  <2>. QED
    BY <1>1, <1>2, <1>5, <1>7, <2>1, <2>2, KeyAssumption DEF SplitsAt, h2
<1>8. CASE p # NULL /\ ~(x < h[p].key)
  <2>1. h2 = [m \in DOMAIN h \cup {n} |->
                IF m = n THEN leaf
                ELSE IF m = p THEN [h[p] EXCEPT !.right = n]
                ELSE h[m]]
    BY <1>3, <1>4, <1>8 DEF Tree!insertOp, Tree!Malloced
  <2>. HIDE DEF h2
  <2>2. /\ h2[p].key = h[p].key /\ h2[p].left = h[p].left /\ h2[p].right = n
        /\ h2[n].left = NULL /\ h2[n].right = NULL
    BY <1>2, <1>8, <2>1 DEF Tree!NodeFields
  <2>3. \A y \in Key : y \in Int
    BY KeyAssumption
  <2>4. h[p].key \in Int
    BY <1>2, <1>8, KeyAssumption DEF Tree!NodeFields
  <2>5. \A m \in DOMAIN h \ {p} : h2[m] = h[m]
    BY <2>1
  <2>6. \A c \in DOMAIN h, y \in Key :
          Sends(h2, p, c, y) => h2[p].key = h[p].key /\ Sends(h, p, c, y)
    BY <1>1, <2>2
  <2>7. \A y \in Key : Sends(h2, p, n, y) => ~(x < h2[p].key) /\ y > h2[p].key
    BY <1>1, <1>5, <1>8, <2>2, <2>3, <2>4
  <2>8. \A c \in DOMAIN h2, y \in Key : ~Sends(h2, n, c, y)
    BY <1>1, <2>2
  <2>. QED
    BY <2>5, <2>6, <2>7, <2>8 DEF SplitsAt, h2
<1>. QED
  BY <1>6, <1>7, <1>8

----------------------------------------------------------------------------
(* The searches from the root.                                             *)

\* A set of nodes that has the root and the node each of its nodes sends x to
\* has the nodes visited.
LEMMA VisitedLemma ==
    ASSUME NEW h, NEW r \in DOMAIN h, r # NULL, NEW x, NEW n \in DOMAIN h
    PROVE  n \in Visited(h, r, x) <=>
              \A nodes \in SUBSET DOMAIN h :
                 /\ r \in nodes
                 /\ \A p \in nodes : \A c : Sends(h, p, c, x) => c \in nodes
                 => n \in nodes
<1>1. \A nodes \in SUBSET DOMAIN h :
         SearchClosed(h, nodes, x) <=>
            \A p \in nodes : \A c : Sends(h, p, c, x) => c \in nodes
  BY DEF SearchClosed, Sends
<1>2. n \in Visited(h, r, x) <=>
         \A nodes \in SUBSET (DOMAIN h \ {n}) : r \in nodes => ~SearchClosed(h, nodes, x)
  BY DEF Visited
<1>3. \A nodes : nodes \in SUBSET (DOMAIN h \ {n}) <=>
                    nodes \in SUBSET DOMAIN h /\ n \notin nodes
  OBVIOUS
<1>. QED
  BY <1>1, <1>2, <1>3

\* A search goes through the root and on from each node to where that sends it.
LEMMA VisitLemma ==
    ASSUME NEW h, NEW r \in DOMAIN h, r # NULL, NEW x
    PROVE  /\ Visited(h, r, x) \subseteq DOMAIN h /\ r \in Visited(h, r, x)
           /\ \A p \in Visited(h, r, x), c \in DOMAIN h :
                 Sends(h, p, c, x) => c \in Visited(h, r, x)
<1>1. Visited(h, r, x) \subseteq DOMAIN h
  BY DEF Visited
<1>2. r \in Visited(h, r, x)
  BY VisitedLemma
<1>3. ASSUME NEW p \in Visited(h, r, x), NEW c \in DOMAIN h, Sends(h, p, c, x)
      PROVE  c \in Visited(h, r, x)
  <2>. SUFFICES ASSUME NEW nodes \in SUBSET DOMAIN h, r \in nodes,
                       \A q \in nodes : \A d : Sends(h, q, d, x) => d \in nodes
                PROVE  c \in nodes
    BY VisitedLemma
  <2>1. p \in nodes
    BY <1>1, VisitedLemma
  <2>. QED
    BY <2>1, <1>3
<1>. QED
  BY <1>1, <1>2, <1>3

\* There is one search for a key: it ends at one node.
LEMMA OneEndLemma ==
    ASSUME NEW h, NEW r \in DOMAIN h, NULL \notin DOMAIN h, NEW x,
           NEW a \in Visited(h, r, x), \A c : ~Sends(h, a, c, x),
           NEW b \in Visited(h, r, x), \A c : ~Sends(h, b, c, x),
           \A p, c : p \in DOMAIN h /\ Sends(h, p, c, x) => c \in DOMAIN h
    PROVE  a = b
<1>1. a \in DOMAIN h /\ b \in DOMAIN h /\ r # NULL
  BY VisitLemma
<1>. DEFINE ahead == {m \in DOMAIN h : a \in Visited(h, m, x)}
<1>2. r \in ahead
  OBVIOUS
<1>3. ASSUME NEW m \in ahead, NEW c, Sends(h, m, c, x)
      PROVE  c \in ahead
  <2>1. c \in DOMAIN h /\ m \in DOMAIN h /\ m # a /\ c # NULL /\ m # NULL
    BY <1>3
  <2>. SUFFICES ASSUME NEW nodes \in SUBSET DOMAIN h, c \in nodes,
                       \A q \in nodes : \A d : Sends(h, q, d, x) => d \in nodes
                PROVE  a \in nodes
    BY <1>1, <2>1, VisitedLemma
  <2>2. \A d : Sends(h, m, d, x) => d = c
    BY <1>3 DEF Sends
  <2>. DEFINE more == nodes \cup {m}
  <2>3. more \in SUBSET DOMAIN h /\ m \in more
    BY <2>1
  <2>4. \A q \in more : \A d : Sends(h, q, d, x) => d \in more
    BY <2>2
  <2>. HIDE DEF more
  <2>5. a \in more
    BY <1>1, <2>1, <2>3, <2>4, VisitedLemma
  <2>. QED
    BY <2>1, <2>5 DEF more
<1>4. b \in ahead
  <2>1. ahead \in SUBSET DOMAIN h
    OBVIOUS
  <2>. HIDE DEF ahead
  <2>. QED
    BY <1>1, <1>2, <1>3, <2>1, VisitedLemma
<1>5. a \in {b}
  <2>1. a \in Visited(h, b, x) /\ b # NULL
    BY <1>1, <1>4
  <2>. DEFINE nodes == {b}
  <2>2. nodes \in SUBSET DOMAIN h /\ b \in nodes
    BY <1>1
  <2>3. \A q \in nodes : \A d : Sends(h, q, d, x) => d \in nodes
    OBVIOUS
  <2>. HIDE DEF nodes
  <2>4. a \in nodes
    BY <1>1, <2>1, <2>2, <2>3, VisitedLemma
  <2>. QED
    BY <2>4 DEF nodes
<1>. QED
  BY <1>5

\* findNext ends a search at the node that holds the key, and at no other but
\* one that has no node behind it on the side of the key.
LEMMA StatusLemma ==
    ASSUME NEW h, IsHeap(h), NEW p \in DOMAIN h, NEW x \in Key
    PROVE  LET f == findNext(h, p, p, x)
           IN  /\ f.status \in Status
               /\ f.status = "FOUND" <=> h[p].key = x
               /\ f.status # "CONTINUE" <=> \A c : ~Sends(h, p, c, x)
<1>1. h[p].key \in Int /\ x \in Int
  BY DSAssumption, KeyAssumption
  DEF IsHeap, NodeFields, List!NodeFields, Tree!NodeFields
<1>2. CASE DS = "list"
  BY <1>1, <1>2 DEF Sends, findNext, List!findNext, Status
<1>3. CASE DS = "bst"
  BY <1>1, <1>3 DEF Sends, findNext, Tree!findNext, Status
<1>. QED
  BY <1>2, <1>3, DSAssumption

\* It goes from node to node along the pointers.
LEMMA SendsToChild ==
    ASSUME NEW h, IsHeap(h), Closed(h), NEW m \in DOMAIN h, NEW c, NEW x \in Key,
           Sends(h, m, c, x)
    PROVE  c \in DOMAIN h /\ c \in Children(h, m)
<1>. DEFINE f == findNext(h, m, m, x)
<1>1. f.status = "CONTINUE" => f.n \in DOMAIN h /\ f.n \in Children(h, m)
  BY FindNextLemma
<1>. HIDE DEF f
<1>2. f.status = "CONTINUE" /\ f.n = c
  BY DEF Sends, f
<1>. QED
  BY <1>1, <1>2

\* What it comes by is linked in.
LEMMA VisitedLinked ==
    ASSUME NEW h, IsHeap(h), Closed(h), NEW r \in DOMAIN h, NEW x \in Key
    PROVE  Visited(h, r, x) \subseteq Linked(h, r)
<1>1. r # NULL
  BY NullAssumption DEF IsHeap
<1>. DEFINE nodes == Linked(h, r)
<1>2. nodes \in SUBSET DOMAIN h /\ r \in nodes
  BY DEF Linked
<1>3. \A q \in nodes : \A d : Sends(h, q, d, x) => d \in nodes
  BY <1>2, SendsToChild DEF Linked
<1>. HIDE DEF nodes
<1>4. \A n \in Visited(h, r, x) : n \in DOMAIN h
  BY <1>1, VisitLemma
<1>5. \A n \in Visited(h, r, x) : n \in nodes
  BY <1>1, <1>2, <1>3, <1>4, VisitedLemma
<1>. QED
  BY <1>5 DEF nodes

\* A node on the way to x, or NULL, where a search for x does not go on is the
\* one where it ends.
LEMMA LandingLemma ==
    ASSUME NEW h, IsHeap(h), Closed(h), NEW r \in DOMAIN h \cup {NULL}, NEW x \in Key,
           NEW p \in Visited(h, r, x), p # NULL => \A c : ~Sends(h, p, c, x)
    PROVE  Landing(h, r, x) = {p} /\ (p = NULL <=> r = NULL)
<1>1. NULL \notin DOMAIN h
  BY NullAssumption DEF IsHeap
<1>2. CASE r = NULL
  BY <1>2 DEF Visited, Landing
<1>3. CASE r \in DOMAIN h
  <2>1. r # NULL /\ Visited(h, r, x) \subseteq DOMAIN h
    BY <1>1, <1>3, VisitLemma
  <2>2. \A n \in Visited(h, r, x) :
           n \in Landing(h, r, x) <=> \A c : ~Sends(h, n, c, x)
    BY <1>1, <2>1, StatusLemma DEF Landing
  <2>3. \A m, c : m \in DOMAIN h /\ Sends(h, m, c, x) => c \in DOMAIN h
    BY SendsToChild
  <2>4. \A n \in Visited(h, r, x) : (\A c : ~Sends(h, n, c, x)) => n = p
    BY <1>1, <1>3, <2>1, <2>3, OneEndLemma
  <2>5. Landing(h, r, x) \subseteq Visited(h, r, x)
    BY DEF Landing
  <2>. QED
    BY <1>1, <2>1, <2>2, <2>4, <2>5
<1>. QED
  BY <1>2, <1>3

\* A search for the key of a node of the structure comes by the node.
Findable(h, r) == \A n \in Linked(h, r) : n \in Visited(h, r, h[n].key)

LEMMA FindableLemma ==
    ASSUME NEW h, IsHeap(h), Closed(h), NEW r \in DOMAIN h \cup {NULL},
           r = NULL => Linked(h, r) = {}, Findable(h, r), NEW n \in Linked(h, r)
    PROVE  /\ Landing(h, r, h[n].key) = {n}
           /\ \A m \in Linked(h, r) : h[m].key = h[n].key => m = n
<1>1. \A m \in Linked(h, r) : /\ m \in DOMAIN h /\ h[m].key \in Key
                              /\ m \in Visited(h, r, h[m].key)
  BY DSAssumption
  DEF Linked, Findable, IsHeap, NodeFields, List!NodeFields, Tree!NodeFields
<1>2. \A m \in Linked(h, r) : \A c : ~Sends(h, m, c, h[m].key)
  BY <1>1, SendsLemma
<1>3. \A m \in Linked(h, r) : Landing(h, r, h[m].key) = {m}
  BY <1>1, <1>2, LandingLemma
<1>. QED
  BY <1>3

----------------------------------------------------------------------------
(* The map the structure holds.                                            *)

LEMMA ContentsLemma ==
    ASSUME NEW h, NEW r, NEW n \in Linked(h, r), h[n].key \in Key,
           \A m \in Linked(h, r) : h[m].key = h[n].key => m = n
    PROVE  Contents(h, r)[h[n].key] = h[n].value
<1>. DEFINE k == h[n].key
            c == CHOOSE m \in Linked(h, r) : h[m].key = k
<1>1. c \in Linked(h, r) /\ h[c].key = k
  OBVIOUS
<1>2. c = n
  BY <1>1
<1>3. Contents(h, r)[k] = IF \E m \in Linked(h, r) : h[m].key = k
                          THEN h[c].value ELSE NULL
  BY DEF Contents
<1>. HIDE DEF c
<1>. QED
  BY <1>2, <1>3

\* What a search that has come to its end reads is what the map holds.
LEMMA ReadLemma ==
    ASSUME NEW h, IsHeap(h), Closed(h), NEW r \in DOMAIN h \cup {NULL},
           r = NULL => Linked(h, r) = {}, Findable(h, r), NEW x \in Key,
           NEW p \in Visited(h, r, x), p # NULL => \A c : ~Sends(h, p, c, x)
    PROVE  /\ p # NULL /\ h[p].key = x => Contents(h, r)[x] = h[p].value
           /\ ~(p # NULL /\ h[p].key = x) => Contents(h, r)[x] = NULL
<1>1. Landing(h, r, x) = {p} /\ (p = NULL <=> r = NULL)
  BY LandingLemma
<1>2. ASSUME p # NULL, h[p].key = x
      PROVE  Contents(h, r)[x] = h[p].value
  <2>1. p \in Linked(h, r)
    BY <1>1, <1>2, VisitedLinked
  <2>2. \A m \in Linked(h, r) : h[m].key = h[p].key => m = p
    BY <2>1, FindableLemma
  <2>. QED
    BY <1>2, <2>1, <2>2, ContentsLemma
<1>3. ASSUME ~(p # NULL /\ h[p].key = x)
      PROVE  Contents(h, r)[x] = NULL
  <2>1. ASSUME NEW n \in Linked(h, r), h[n].key = x
        PROVE  FALSE
    <3>1. Landing(h, r, x) = {n}
      BY <2>1, FindableLemma
    <3>2. n = p /\ n # NULL
      BY <1>1, <3>1, NullAssumption DEF Linked, IsHeap
    <3>. QED
      BY <3>2, <2>1, <1>3
  <2>. QED
    BY <2>1 DEF Contents
<1>. QED
  BY <1>2, <1>3

----------------------------------------------------------------------------
(* What an insertion at the end of a search does to all searches.          *)

\* The heap h2 is h with x and v inserted at p: one of p and the new node n
\* holds them, the other what p held.  What is on n's side of p goes to n, and
\* every search still gets to where p sent it, through n if need be.
Inserts(h, h2, p, n, x, v) ==
    /\ \A m \in DOMAIN h \ {p} : h2[m] = h[m]
    /\ \/ /\ h2[p].key = h[p].key /\ h2[p].value = h[p].value
          /\ h2[n].key = x /\ h2[n].value = v
       \/ /\ h2[p].key = x /\ h2[p].value = v
          /\ h2[n].key = h[p].key /\ h2[n].value = h[p].value
    /\ \A y \in Key :
          (IF x < h2[p].key THEN y < h2[p].key ELSE y > h2[p].key) => Sends(h2, p, n, y)
    /\ Sends(h2, p, n, h2[n].key)
    /\ \A c, y : y \in Key /\ Sends(h, p, c, y) =>
          Sends(h2, p, c, y) \/ (Sends(h2, p, n, y) /\ Sends(h2, n, c, y))

LEMMA ListInserts ==
    ASSUME DS = "list", NEW h, IsHeap(h), NEW p \in DOMAIN h,
           NEW x \in Key, NEW v \in Value, h[p].key # x,
           \A c : ~Sends(h, p, c, x), NEW n \in Node \ DOMAIN h
    PROVE  Inserts(h, insertOp(h, p, x, v, n), p, n, x, v)
<1>. DEFINE h2 == insertOp(h, p, x, v, n)
<1>1. \A g, m, c, y : Sends(g, m, c, y) <=>
         y > g[m].key /\ g[m].next # NULL /\ c = g[m].next
  BY DEF Sends, findNext, List!findNext
<1>2. /\ h \in [DOMAIN h -> List!NodeFields] /\ p # NULL /\ n # NULL /\ n # p
      /\ x \in Int /\ h[p].key \in Int
  BY NullAssumption, KeyAssumption DEF IsHeap, NodeFields, List!NodeFields
<1>3. insertOp(h, p, x, v, n) = List!insertOp(h, p, x, v, n)
  BY DEF insertOp
<1>4. \A y \in Key : y \in Int
  BY KeyAssumption
<1>5. CASE x < h[p].key
  <2>1. h2 = [m \in DOMAIN h \cup {n} |->
                IF m = n THEN h[p]
                ELSE IF m = p THEN [key |-> x, value |-> v, next |-> n]
                ELSE h[m]]
    BY <1>2, <1>3, <1>5 DEF List!insertOp, List!Malloced
  <2>. HIDE DEF h2
  <2>2. h2[p].key = x /\ h2[p].value = v /\ h2[p].next = n /\ h2[n] = h[p]
    BY <1>2, <2>1
  <2>3. \A m \in DOMAIN h \ {p} : h2[m] = h[m]
    BY <2>1
  <2>4. \A y \in Key : Sends(h2, p, n, y) <=> y > h2[p].key
    BY <1>1, <1>2, <2>2
  <2>5. ASSUME NEW c, NEW y \in Key, Sends(h, p, c, y)
        PROVE  Sends(h2, p, n, y) /\ Sends(h2, n, c, y)
    BY <1>1, <1>2, <1>4, <1>5, <2>2, <2>5
  <2>6. Sends(h2, p, n, h2[n].key)
    BY <1>1, <1>2, <1>5, <2>2
  <2>7. ~(x < h2[p].key)
    BY <1>2, <2>2
  <2>. QED
    BY <2>2, <2>3, <2>4, <2>5, <2>6, <2>7 DEF Inserts, h2
<1>6. CASE ~(x < h[p].key)
  <2>1. h2 = [m \in DOMAIN h \cup {n} |->
                IF m = n THEN [key |-> x, value |-> v, next |-> h[p].next]
                ELSE IF m = p THEN [h[p] EXCEPT !.next = n]
                ELSE h[m]]
    BY <1>2, <1>3, <1>6 DEF List!insertOp, List!Malloced
  <2>. HIDE DEF h2
  <2>2. /\ h2[p].key = h[p].key /\ h2[p].value = h[p].value /\ h2[p].next = n
        /\ h2[n].key = x /\ h2[n].value = v
    BY <1>2, <2>1 DEF List!NodeFields
  <2>3. x > h[p].key /\ h[p].next = NULL
    <3>1. x > h[p].key
      BY <1>2, <1>6
    <3>2. ~Sends(h, p, h[p].next, x)
      OBVIOUS
    <3>. QED
      BY <1>1, <3>1, <3>2
  <2>4. \A m \in DOMAIN h \ {p} : h2[m] = h[m]
    BY <2>1
  <2>5. \A y \in Key : Sends(h2, p, n, y) <=> y > h2[p].key
    BY <1>1, <1>2, <2>2
  <2>6. \A c, y : ~Sends(h, p, c, y)
    BY <1>1, <2>3
  <2>7. Sends(h2, p, n, h2[n].key)
    BY <1>1, <1>2, <2>2, <2>3
  <2>8. ~(x < h2[p].key)
    BY <1>6, <2>2
  <2>. QED
    BY <2>2, <2>4, <2>5, <2>6, <2>7, <2>8 DEF Inserts, h2
<1>. QED
  BY <1>5, <1>6

LEMMA TreeInserts ==
    ASSUME DS = "bst", NEW h, IsHeap(h), NEW p \in DOMAIN h,
           NEW x \in Key, NEW v \in Value, h[p].key # x,
           \A c : ~Sends(h, p, c, x), NEW n \in Node \ DOMAIN h
    PROVE  Inserts(h, insertOp(h, p, x, v, n), p, n, x, v)
<1>. DEFINE h2 == insertOp(h, p, x, v, n)
            leaf == [key |-> x, value |-> v, left |-> NULL, right |-> NULL]
            Child(g, m, y) == IF y < g[m].key THEN g[m].left ELSE g[m].right
<1>1. \A g, m, c, y : Sends(g, m, c, y) <=>
         y # g[m].key /\ Child(g, m, y) # NULL /\ c = Child(g, m, y)
  BY DEF Sends, findNext, Tree!findNext
<1>2. /\ h \in [DOMAIN h -> Tree!NodeFields] /\ p # NULL /\ n # NULL /\ n # p
      /\ x \in Int /\ h[p].key \in Int
  BY NullAssumption, KeyAssumption DEF IsHeap, NodeFields, Tree!NodeFields
<1>3. insertOp(h, p, x, v, n) = Tree!insertOp(h, p, x, v, n)
  BY DEF insertOp
<1>4. Child(h, p, x) = NULL
  BY <1>1
<1>5. \A y \in Key : y \in Int
  BY KeyAssumption
<1>6. CASE x < h[p].key
  <2>1. h2 = [m \in DOMAIN h \cup {n} |->
                IF m = n THEN leaf
                ELSE IF m = p THEN [h[p] EXCEPT !.left = n]
                ELSE h[m]]
    BY <1>2, <1>3, <1>6 DEF Tree!insertOp, Tree!Malloced
  <2>. HIDE DEF h2
  <2>2. /\ h2[p].key = h[p].key /\ h2[p].value = h[p].value
        /\ h2[p].left = n /\ h2[p].right = h[p].right
        /\ h2[n].key = x /\ h2[n].value = v
    BY <1>2, <2>1 DEF Tree!NodeFields
  <2>3. \A m \in DOMAIN h \ {p} : h2[m] = h[m]
    BY <2>1
  <2>4. ASSUME NEW y \in Key, y < h2[p].key
        PROVE  Sends(h2, p, n, y)
    <3>1. y # h2[p].key
      BY <1>2, <1>5, <2>2, <2>4
    <3>. QED
      BY <1>1, <1>2, <2>2, <2>4, <3>1
  <2>5. ASSUME NEW c, NEW y \in Key, Sends(h, p, c, y)
        PROVE  Sends(h2, p, c, y)
    <3>1. y # h[p].key /\ Child(h, p, y) # NULL /\ c = Child(h, p, y)
      BY <1>1, <2>5
    <3>2. ~(y < h[p].key)
      BY <1>4, <1>6, <3>1
    <3>3. Child(h2, p, y) = c /\ c # NULL /\ y # h2[p].key
      BY <2>2, <3>1, <3>2
    <3>. QED
      BY <1>1, <3>3
  <2>. QED
    BY <1>6, <2>2, <2>3, <2>4, <2>5 DEF Inserts, h2
<1>7. CASE ~(x < h[p].key)
  <2>1. h2 = [m \in DOMAIN h \cup {n} |->
                IF m = n THEN leaf
                ELSE IF m = p THEN [h[p] EXCEPT !.right = n]
                ELSE h[m]]
    BY <1>2, <1>3, <1>7 DEF Tree!insertOp, Tree!Malloced
  <2>. HIDE DEF h2
  <2>2. /\ h2[p].key = h[p].key /\ h2[p].value = h[p].value
        /\ h2[p].left = h[p].left /\ h2[p].right = n
        /\ h2[n].key = x /\ h2[n].value = v
    BY <1>2, <2>1 DEF Tree!NodeFields
  <2>3. \A m \in DOMAIN h \ {p} : h2[m] = h[m]
    BY <2>1
  <2>4. ASSUME NEW y \in Key, y > h2[p].key
        PROVE  Sends(h2, p, n, y)
    <3>1. y # h2[p].key /\ ~(y < h2[p].key)
      BY <1>2, <1>5, <2>2, <2>4
    <3>. QED
      BY <1>1, <1>2, <2>2, <3>1
  <2>5. ASSUME NEW c, NEW y \in Key, Sends(h, p, c, y)
        PROVE  Sends(h2, p, c, y)
    <3>1. y # h[p].key /\ Child(h, p, y) # NULL /\ c = Child(h, p, y)
      BY <1>1, <2>5
    <3>2. y < h[p].key
      BY <1>4, <1>7, <3>1
    <3>3. Child(h2, p, y) = c /\ c # NULL /\ y # h2[p].key
      BY <2>2, <3>1, <3>2
    <3>. QED
      BY <1>1, <3>3
  <2>6. x > h2[p].key
    BY <1>2, <1>7, <2>2
  <2>. QED
    BY <1>7, <2>2, <2>3, <2>4, <2>5, <2>6 DEF Inserts, h2
<1>. QED
  BY <1>6, <1>7

\* So every search comes by the nodes it came by.
LEMMA MoreVisited ==
    ASSUME NEW h, IsHeap(h), Closed(h), NEW r \in DOMAIN h, NEW p \in DOMAIN h,
           NEW h2, NEW n \in Node \ DOMAIN h, DOMAIN h2 = DOMAIN h \cup {n},
           NEW x, NEW v, Inserts(h, h2, p, n, x, v), NEW y \in Key
    PROVE  Visited(h, r, y) \subseteq Visited(h2, r, y)
<1>1. r # NULL /\ r \in DOMAIN h2
  BY NullAssumption DEF IsHeap
<1>. SUFFICES ASSUME NEW m \in Visited(h, r, y)
              PROVE  m \in Visited(h2, r, y)
  OBVIOUS
<1>2. m \in DOMAIN h /\ m \in DOMAIN h2
  BY <1>1, VisitLemma
<1>. SUFFICES ASSUME NEW nodes2 \in SUBSET DOMAIN h2, r \in nodes2,
                     \A q \in nodes2 : \A c : Sends(h2, q, c, y) => c \in nodes2
              PROVE  m \in nodes2
  BY <1>1, <1>2, VisitedLemma
<1>. DEFINE nodes == nodes2 \cap DOMAIN h
<1>3. ASSUME NEW q \in nodes, NEW c, Sends(h, q, c, y)
      PROVE  c \in nodes
  <2>1. c \in DOMAIN h
    BY <1>3, SendsToChild
  <2>2. CASE q = p
    <3>1. Sends(h2, p, c, y) \/ (Sends(h2, p, n, y) /\ Sends(h2, n, c, y))
      BY <1>3, <2>2 DEF Inserts
    <3>. QED
      BY <2>1, <2>2, <3>1
  <2>3. CASE q # p
    <3>1. h2[q] = h[q]
      BY <2>3 DEF Inserts
    <3>2. Sends(h2, q, c, y)
      BY <1>3, <3>1, SameNodeLemma
    <3>. QED
      BY <2>1, <3>2
  <2>. QED
    BY <2>2, <2>3
<1>4. nodes \in SUBSET DOMAIN h /\ r \in nodes
  OBVIOUS
<1>. HIDE DEF nodes
<1>5. m \in nodes
  BY <1>1, <1>2, <1>3, <1>4, VisitedLemma
<1>. QED
  BY <1>5 DEF nodes

\* The map gets x, and searches find what they found, and x.
LEMMA InsertLemma ==
    ASSUME NEW h, IsHeap(h), Closed(h), NEW r \in DOMAIN h, Findable(h, r),
           NEW x \in Key, NEW v \in Value, NEW p \in Visited(h, r, x),
           h[p].key # x, \A c : ~Sends(h, p, c, x), NEW n \in Node \ DOMAIN h
    PROVE  LET h2 == insertOp(h, p, x, v, n)
           IN  /\ Inserts(h, h2, p, n, x, v)
               /\ \A y \in Key : Visited(h, r, y) \subseteq Visited(h2, r, y)
               /\ Findable(h2, r)
               /\ Contents(h2, r) = [Contents(h, r) EXCEPT ![x] = v]
<1>. DEFINE h2 == insertOp(h, p, x, v, n)
<1>1. r # NULL /\ p \in DOMAIN h /\ p # NULL /\ p \in Linked(h, r) /\ n # p
  BY NullAssumption, VisitLemma, VisitedLinked DEF IsHeap
<1>2. insertAllocates(h, p, x)
  BY <1>1 DEF insertAllocates, List!insertAllocates, Tree!insertAllocates
<1>3. /\ DOMAIN h2 = DOMAIN h \cup {n} /\ IsHeap(h2) /\ Closed(h2)
      /\ AddsPointer(h, h2, p, n)
  BY <1>1, <1>2, InsertNodeLemma
<1>4. Inserts(h, h2, p, n, x, v)
  BY <1>1, ListInserts, TreeInserts, DSAssumption
<1>. HIDE DEF h2
<1>5. \A y \in Key : Visited(h, r, y) \subseteq Visited(h2, r, y)
  BY <1>1, <1>3, <1>4, MoreVisited
<1>6. \A m \in Linked(h, r) : /\ m \in DOMAIN h /\ h[m].key \in Key
                              /\ m \in Visited(h, r, h[m].key)
  BY DSAssumption
  DEF Linked, Findable, IsHeap, NodeFields, List!NodeFields, Tree!NodeFields
<1>7. Linked(h2, r) = Linked(h, r) \cup {n}
  <2>1. Linked(h2, r) \subseteq Linked(h, r) \cup {n}
    BY <1>1, <1>3 DEF Linked, AddsPointer
  <2>2. ASSUME NEW m \in Linked(h, r)
        PROVE  m \in Linked(h2, r)
    <3>1. h[m].key \in Key /\ m \in Visited(h2, r, h[m].key)
      BY <1>5, <1>6
    <3>. QED
      BY <3>1, <1>3, VisitedLinked
  <2>3. n \in Linked(h2, r)
    <3>1. h2[n].key \in Key
      BY <1>3, DSAssumption
      DEF IsHeap, NodeFields, List!NodeFields, Tree!NodeFields
    <3>2. Sends(h2, p, n, h2[n].key)
      BY <1>4 DEF Inserts
    <3>3. n \in Children(h2, p)
      BY <1>1, <1>3, <3>1, <3>2, SendsToChild
    <3>. QED
      BY <1>1, <1>3, <3>3 DEF Linked
  <2>. QED
    BY <2>1, <2>2, <2>3
<1>8. /\ \A m \in Linked(h, r) \ {p} : h2[m] = h[m]
      /\ \/ /\ h2[p].key = h[p].key /\ h2[p].value = h[p].value
            /\ h2[n].key = x /\ h2[n].value = v
         \/ /\ h2[p].key = x /\ h2[p].value = v
            /\ h2[n].key = h[p].key /\ h2[n].value = h[p].value
      /\ Sends(h2, p, n, h2[n].key)
  BY <1>4, <1>6 DEF Inserts
<1>9. Findable(h2, r)
  <2>1. ASSUME NEW m \in Linked(h, r) \ {p}
        PROVE  m \in Visited(h2, r, h2[m].key)
    BY <1>5, <1>6, <1>8
  <2>2. \A y \in {h[p].key, x} : y \in Key /\ p \in Visited(h2, r, y)
    BY <1>1, <1>5, <1>6
  <2>3. p \in Visited(h2, r, h2[p].key)
    BY <1>8, <2>2
  <2>4. n \in Visited(h2, r, h2[n].key)
    <3>1. p \in Visited(h2, r, h2[n].key)
      BY <1>8, <2>2
    <3>. QED
      BY <3>1, <1>1, <1>3, <1>8, VisitLemma
  <2>. QED
    BY <1>7, <2>1, <2>3, <2>4 DEF Findable
<1>10. Contents(h2, r) = [Contents(h, r) EXCEPT ![x] = v]
  <2>1. \A m, k : m \in Linked(h2, r) /\ k = h2[m].key =>
                     k \in Key /\ Contents(h2, r)[k] = h2[m].value
    <3>. SUFFICES ASSUME NEW m \in Linked(h2, r)
                  PROVE  h2[m].key \in Key /\ Contents(h2, r)[h2[m].key] = h2[m].value
      OBVIOUS
    <3>1. r \in DOMAIN h2
      BY <1>3
    <3>2. \A q \in Linked(h2, r) : h2[q].key = h2[m].key => q = m
      BY <1>1, <1>3, <1>9, <3>1, FindableLemma
    <3>3. h2[m].key \in Key
      BY <1>3, DSAssumption
      DEF Linked, IsHeap, NodeFields, List!NodeFields, Tree!NodeFields
    <3>. QED
      BY <3>2, <3>3, ContentsLemma
  <2>2. \A m, k : m \in Linked(h, r) /\ k = h[m].key =>
                     k \in Key /\ Contents(h, r)[k] = h[m].value
    <3>. SUFFICES ASSUME NEW m \in Linked(h, r)
                  PROVE  h[m].key \in Key /\ Contents(h, r)[h[m].key] = h[m].value
      OBVIOUS
    <3>1. \A q \in Linked(h, r) : h[q].key = h[m].key => q = m
      BY <1>1, FindableLemma
    <3>. QED
      BY <3>1, <1>6, ContentsLemma
  <2>3. Contents(h2, r)[x] = v
    BY <1>1, <1>7, <1>8, <2>1
  <2>4. ASSUME NEW k \in Key, k # x
        PROVE  Contents(h2, r)[k] = Contents(h, r)[k]
    <3>1. CASE \E m \in Linked(h, r) : h[m].key = k
      <4>1. PICK m \in Linked(h, r) : h[m].key = k
        BY <3>1
      <4>2. \E q \in Linked(h2, r) : h2[q].key = k /\ h2[q].value = h[m].value
        BY <2>4, <4>1, <1>1, <1>7, <1>8
      <4>. QED
        BY <2>1, <2>2, <4>1, <4>2
    <3>2. CASE ~\E m \in Linked(h, r) : h[m].key = k
      <4>1. ~\E m \in Linked(h2, r) : h2[m].key = k
        BY <2>4, <3>2, <1>1, <1>7, <1>8
      <4>. QED
        BY <3>2, <4>1 DEF Contents
    <3>. QED
      BY <3>1, <3>2
  <2>5. /\ DOMAIN Contents(h2, r) = Key /\ DOMAIN Contents(h, r) = Key
        /\ Contents(h2, r) = [k \in Key |-> Contents(h2, r)[k]]
    BY DEF Contents
  <2>. QED
    BY <2>3, <2>4, <2>5
<1>. QED
  BY <1>4, <1>5, <1>9, <1>10 DEF h2

----------------------------------------------------------------------------
(* The other insertions: into a node that holds the key, and of a root.    *)

LEMMA SameVisited ==
    ASSUME NEW h, NEW h2, DOMAIN h2 = DOMAIN h, NULL \notin DOMAIN h,
           NEW r \in DOMAIN h \cup {NULL}, NEW y,
           \A m \in DOMAIN h : \A c : Sends(h2, m, c, y) <=> Sends(h, m, c, y)
    PROVE  Visited(h2, r, y) = Visited(h, r, y)
<1>1. CASE r = NULL
  BY <1>1 DEF Visited
<1>2. CASE r \in DOMAIN h
  <2>1. Visited(h2, r, y) \subseteq DOMAIN h /\ Visited(h, r, y) \subseteq DOMAIN h
    BY <1>2, VisitLemma
  <2>2. ASSUME NEW m \in DOMAIN h
        PROVE  m \in Visited(h2, r, y) <=> m \in Visited(h, r, y)
    <3>. DEFINE Stays(g, nodes) ==
                  /\ r \in nodes
                  /\ \A p \in nodes : \A c : Sends(g, p, c, y) => c \in nodes
    <3>1. \A nodes \in SUBSET DOMAIN h : Stays(h2, nodes) <=> Stays(h, nodes)
      OBVIOUS
    <3>2. m \in Visited(h, r, y) <=>
             \A nodes \in SUBSET DOMAIN h : Stays(h, nodes) => m \in nodes
      BY <1>2, VisitedLemma
    <3>3. m \in Visited(h2, r, y) <=>
             \A nodes \in SUBSET DOMAIN h : Stays(h2, nodes) => m \in nodes
      BY <1>2, VisitedLemma
    <3>. HIDE DEF Stays
    <3>. QED
      BY <3>1, <3>2, <3>3
  <2>. QED
    BY <2>1, <2>2
<1>. QED
  BY <1>1, <1>2

LEMMA ReplaceLemma ==
    ASSUME NEW h, IsHeap(h), Closed(h), NEW r \in DOMAIN h, Findable(h, r),
           NEW x \in Key, NEW v \in Value, NEW p \in Visited(h, r, x),
           h[p].key = x, NEW n
    PROVE  LET h2 == insertOp(h, p, x, v, n)
           IN  /\ \A y \in Key : Visited(h2, r, y) = Visited(h, r, y)
               /\ Findable(h2, r)
               /\ Contents(h2, r) = [Contents(h, r) EXCEPT ![x] = v]
               /\ \A m \in DOMAIN h \ {p} : h2[m] = h[m]
<1>. DEFINE h2 == insertOp(h, p, x, v, n)
<1>1. /\ NULL \notin DOMAIN h /\ r # NULL /\ p \in DOMAIN h /\ p # NULL
      /\ p \in Linked(h, r)
  BY NullAssumption, VisitLemma, VisitedLinked DEF IsHeap
<1>2. ~insertAllocates(h, p, x)
  BY <1>1, DSAssumption
  DEF insertAllocates, List!insertAllocates, Tree!insertAllocates
<1>3. /\ DOMAIN h2 = DOMAIN h /\ IsHeap(h2)
      /\ \A m \in DOMAIN h : Children(h2, m) = Children(h, m)
  BY <1>1, <1>2, InsertReplaceLemma
<1>4. ASSUME NEW m \in DOMAIN h, NEW c, NEW y \in Key
      PROVE  /\ h2[m].key = h[m].key
             /\ Sends(h2, m, c, y) <=> Sends(h, m, c, y)
  BY <1>1, <1>2, ReplaceSendsLemma
<1>5. (\A m \in DOMAIN h \ {p} : h2[m] = h[m]) /\ h2[p].value = v
  <2>1. h2 = [h EXCEPT ![p].value = v]
    BY <1>1, DSAssumption DEF insertOp, List!insertOp, Tree!insertOp
  <2>. HIDE DEF h2
  <2>. QED
    BY <1>1, <2>1, DSAssumption
    DEF IsHeap, NodeFields, List!NodeFields, Tree!NodeFields
<1>. HIDE DEF h2
<1>6. \A m \in DOMAIN h : h2[m].key = h[m].key /\ h2[m].key \in Key
  <2>1. \A m \in DOMAIN h : h2[m].key = h[m].key
    BY <1>4
  <2>. QED
    BY <2>1, DSAssumption
    DEF IsHeap, NodeFields, List!NodeFields, Tree!NodeFields
<1>7. \A y \in Key : Visited(h2, r, y) = Visited(h, r, y)
  BY <1>1, <1>3, <1>4, SameVisited
<1>8. Linked(h2, r) = Linked(h, r) /\ Linked(h, r) \subseteq DOMAIN h
  BY <1>3 DEF Linked
<1>9. Findable(h2, r) /\ Closed(h2)
  BY <1>3, <1>6, <1>7, <1>8 DEF Findable, Closed
<1>10. Contents(h2, r) = [Contents(h, r) EXCEPT ![x] = v]
  <2>1. ASSUME NEW m \in Linked(h, r)
        PROVE  /\ Contents(h2, r)[h[m].key] = h2[m].value
               /\ Contents(h, r)[h[m].key] = h[m].value
    <3>1. /\ \A q \in Linked(h2, r) : h2[q].key = h2[m].key => q = m
          /\ \A q \in Linked(h, r) : h[q].key = h[m].key => q = m
      BY <1>1, <1>3, <1>8, <1>9, FindableLemma
    <3>2. /\ m \in Linked(h2, r) /\ h2[m].key = h[m].key
          /\ h2[m].key \in Key /\ h[m].key \in Key
      BY <1>6, <1>8
    <3>. QED
      BY <3>1, <3>2, ContentsLemma
  <2>2. Contents(h2, r)[x] = v
    BY <1>1, <1>5, <2>1
  <2>3. ASSUME NEW k \in Key, k # x
        PROVE  Contents(h2, r)[k] = Contents(h, r)[k]
    <3>1. CASE \E m \in Linked(h, r) : h[m].key = k
      <4>1. PICK m \in Linked(h, r) : h[m].key = k
        BY <3>1
      <4>2. m # p /\ h2[m] = h[m]
        BY <2>3, <4>1, <1>5, <1>8
      <4>. QED
        BY <2>1, <4>1, <4>2
    <3>2. CASE ~\E m \in Linked(h, r) : h[m].key = k
      <4>1. ~\E m \in Linked(h2, r) : h2[m].key = k
        BY <3>2, <1>6, <1>8
      <4>. QED
        BY <3>2, <4>1 DEF Contents
    <3>. QED
      BY <3>1, <3>2
  <2>4. /\ DOMAIN Contents(h2, r) = Key /\ DOMAIN Contents(h, r) = Key
        /\ Contents(h2, r) = [k \in Key |-> Contents(h2, r)[k]]
    BY DEF Contents
  <2>. QED
    BY <2>2, <2>3, <2>4
<1>. QED
  BY <1>5, <1>7, <1>9, <1>10 DEF h2

\* A node without neighbours becomes the root: the map holds what it holds.
LEMMA RootLemma ==
    ASSUME NEW h, IsHeap(h), \A m \in DOMAIN h : Children(h, m) = {},
           NEW n \in DOMAIN h
    PROVE  /\ Linked(h, n) = {n} /\ Findable(h, n)
           /\ Contents(h, n) = [Contents(h, NULL) EXCEPT ![h[n].key] = h[n].value]
           /\ Linked(h, NULL) = {}
<1>1. n # NULL /\ NULL \notin DOMAIN h
  BY NullAssumption DEF IsHeap
<1>2. Linked(h, n) = {n} /\ Linked(h, NULL) = {}
  BY <1>1 DEF Linked
<1>3. Findable(h, n)
  BY <1>1, <1>2, VisitLemma DEF Findable
<1>4. h[n].key \in Key
  BY DSAssumption DEF IsHeap, NodeFields, List!NodeFields, Tree!NodeFields
<1>5. Contents(h, n)[h[n].key] = h[n].value
  BY <1>2, <1>4, ContentsLemma
<1>6. \A k \in Key : /\ Contents(h, NULL)[k] = NULL
                     /\ k # h[n].key => Contents(h, n)[k] = NULL
  BY <1>2 DEF Contents
<1>7. /\ DOMAIN Contents(h, n) = Key /\ DOMAIN Contents(h, NULL) = Key
      /\ Contents(h, n) = [k \in Key |-> Contents(h, n)[k]]
  BY DEF Contents
<1>. QED
  BY <1>2, <1>3, <1>4, <1>5, <1>6, <1>7
----------------------------------------------------------------------------
(* The pointers make a list or a tree of the nodes.                        *)

\* No two pointers lead to one node, and none leads to the root.
Forest(h, r) ==
    /\ \A m, q \in DOMAIN h : \A c \in Children(h, m) : c \in Children(h, q) => q = m
    /\ \A m \in DOMAIN h : r \notin Children(h, m)
    /\ DS = "bst" => \A m \in DOMAIN h : h[m].left = h[m].right => h[m].left = NULL

LEMMA ForestReplace ==
    ASSUME NEW h, IsHeap(h), Closed(h), NEW r, Forest(h, r),
           NEW p \in DOMAIN h \cup {NULL}, NEW x \in Key, NEW v \in Value, NEW n,
           ~insertAllocates(h, p, x)
    PROVE  Forest(insertOp(h, p, x, v, n), r)
<1>. DEFINE h2 == insertOp(h, p, x, v, n)
<1>1. /\ DOMAIN h2 = DOMAIN h
      /\ \A m \in DOMAIN h : Children(h2, m) = Children(h, m)
  BY InsertReplaceLemma
<1>2. ASSUME DS = "bst", NEW m \in DOMAIN h
      PROVE  h2[m].left = h[m].left /\ h2[m].right = h[m].right
  <2>1. h2 = [h EXCEPT ![p].value = v]
    BY <1>2 DEF insertOp, insertAllocates, Tree!insertOp, Tree!insertAllocates
  <2>2. h[m] \in Tree!NodeFields
    BY <1>2 DEF IsHeap, NodeFields
  <2>. HIDE DEF h2
  <2>. QED
    BY <2>1, <2>2 DEF Tree!NodeFields
<1>. HIDE DEF h2
<1>3. Forest(h2, r)
  BY <1>1, <1>2 DEF Forest
<1>. QED
  BY <1>3 DEF h2

\* insertOp points to the malloced node from p only, and in a list takes p's
\* pointer over.
LEMMA ForestInsert ==
    ASSUME NEW h, IsHeap(h), Closed(h), NEW r \in DOMAIN h \cup {NULL}, Forest(h, r),
           NEW p \in DOMAIN h \cup {NULL}, NEW x \in Key, NEW v \in Value,
           insertAllocates(h, p, x), NEW n \in Node \ DOMAIN h
    PROVE  Forest(insertOp(h, p, x, v, n), r)
<1>. DEFINE h2 == insertOp(h, p, x, v, n)
<1>1. /\ NULL \notin DOMAIN h /\ n # NULL /\ n # r
      /\ \A m \in DOMAIN h : Children(h, m) \subseteq DOMAIN h
  BY NullAssumption DEF IsHeap, Closed
<1>2. /\ DOMAIN h2 = DOMAIN h \cup {n} /\ IsHeap(h2) /\ Closed(h2)
      /\ AddsPointer(h, h2, p, n)
  BY InsertNodeLemma
<1>3. ASSUME DS = "list"
      PROVE  Forest(h2, r)
  <2>1. h \in [DOMAIN h -> List!NodeFields] /\ h2 = List!insertOp(h, p, x, v, n)
        /\ (p # NULL => h[p].key # x)
    BY <1>3 DEF IsHeap, NodeFields, insertOp, insertAllocates, List!insertAllocates
  <2>2. /\ h2[n].next = IF p = NULL THEN NULL ELSE h[p].next
        /\ p # NULL => h2[p].next = n
        /\ \A m \in DOMAIN h : m # p => h2[m].next = h[m].next
    <3>1. CASE p = NULL
      BY <2>1, <3>1, <1>1 DEF List!insertOp, List!Malloced
    <3>2. CASE p # NULL
      <4>1. CASE x < h[p].key
        BY <2>1, <3>2, <4>1 DEF List!insertOp, List!Malloced
      <4>2. CASE ~(x < h[p].key)
        BY <2>1, <3>2, <4>2 DEF List!insertOp, List!Malloced, List!NodeFields
      <4>. QED
        BY <4>1, <4>2
    <3>. QED
      BY <3>1, <3>2
  <2>. HIDE DEF h2
  <2>3. /\ Children(h2, n) = IF p = NULL THEN {} ELSE Children(h, p)
        /\ p # NULL => Children(h2, p) = {n}
        /\ \A m \in DOMAIN h : m # p => Children(h2, m) = Children(h, m)
    BY <1>1, <1>3, <2>2 DEF Children, List!Children
  <2>4. ASSUME NEW m \in DOMAIN h2, NEW q \in DOMAIN h2,
               NEW c \in Children(h2, m), c \in Children(h2, q)
        PROVE  q = m
    BY <1>1, <1>2, <2>3, <2>4 DEF Forest
  <2>5. \A m \in DOMAIN h2 : r \notin Children(h2, m)
    BY <1>1, <1>2, <2>3 DEF Forest
  <2>. QED
    BY <1>3, <2>4, <2>5 DEF Forest
<1>4. ASSUME DS = "bst"
      PROVE  Forest(h2, r)
  <2>1. h \in [DOMAIN h -> Tree!NodeFields] /\ h2 = Tree!insertOp(h, p, x, v, n)
        /\ (p # NULL => h[p].key # x)
    BY <1>4 DEF IsHeap, NodeFields, insertOp, insertAllocates, Tree!insertAllocates
  <2>2. /\ h2[n].left = NULL /\ h2[n].right = NULL
        /\ p # NULL => \/ h2[p].left = n /\ h2[p].right = h[p].right
                       \/ h2[p].right = n /\ h2[p].left = h[p].left
        /\ \A m \in DOMAIN h : m # p => h2[m].left = h[m].left /\ h2[m].right = h[m].right
    <3>1. CASE p = NULL
      BY <2>1, <3>1, <1>1 DEF Tree!insertOp, Tree!Malloced
    <3>2. CASE p # NULL
      <4>1. CASE x < h[p].key
        BY <2>1, <3>2, <4>1 DEF Tree!insertOp, Tree!Malloced, Tree!NodeFields
      <4>2. CASE ~(x < h[p].key)
        BY <2>1, <3>2, <4>2 DEF Tree!insertOp, Tree!Malloced, Tree!NodeFields
      <4>. QED
        BY <4>1, <4>2
    <3>. QED
      BY <3>1, <3>2
  <2>. HIDE DEF h2
  <2>3. /\ Children(h2, n) = {}
        /\ p # NULL => Children(h2, p) \subseteq Children(h, p) \cup {n}
        /\ \A m \in DOMAIN h : m # p => Children(h2, m) = Children(h, m)
    BY <1>4, <2>2 DEF Children, Tree!Children
  <2>4. ASSUME NEW m \in DOMAIN h2, NEW q \in DOMAIN h2,
               NEW c \in Children(h2, m), c \in Children(h2, q)
        PROVE  q = m
    BY <1>1, <1>2, <2>3, <2>4 DEF Forest
  <2>5. \A m \in DOMAIN h2 : r \notin Children(h2, m)
    BY <1>1, <1>2, <2>3 DEF Forest
  <2>6. ASSUME NEW m \in DOMAIN h2, h2[m].left = h2[m].right
        PROVE  h2[m].left = NULL
    <3>1. m \in DOMAIN h => h[m].left # n /\ h[m].right # n
      BY <1>1, <1>4 DEF Children, Tree!Children
    <3>2. ASSUME m \in DOMAIN h, h[m].left = h[m].right
          PROVE  h[m].left = NULL
      BY <1>4, <3>2 DEF Forest
    <3>3. CASE m = n
      BY <2>2, <3>3
    <3>4. CASE m # n /\ m = p
      <4>1. m \in DOMAIN h /\ p # NULL
        BY <1>1, <1>2, <3>4
      <4>. QED
        BY <2>2, <2>6, <3>1, <3>4, <4>1
    <3>5. CASE m # n /\ m # p
      BY <1>2, <2>2, <2>6, <3>2, <3>5
    <3>. QED
      BY <3>3, <3>4, <3>5
  <2>. QED
    BY <2>4, <2>5, <2>6 DEF Forest
<1>. QED
  BY <1>3, <1>4, DSAssumption DEF h2

\* A search that comes to a node has come by the node that points to it.
LEMMA ComesBy ==
    ASSUME NEW h, IsHeap(h), Closed(h), NEW r \in DOMAIN h, Forest(h, r),
           NEW x \in Key, NEW p \in DOMAIN h, NEW c \in Children(h, p),
           c \in Visited(h, r, x)
    PROVE  p \in Visited(h, r, x) /\ Sends(h, p, c, x)
<1>1. r # NULL /\ Visited(h, r, x) \subseteq DOMAIN h /\ r \in Visited(h, r, x)
  BY NullAssumption, VisitLemma DEF IsHeap
<1>. SUFFICES ASSUME ~(p \in Visited(h, r, x) /\ Sends(h, p, c, x))
              PROVE  FALSE
  OBVIOUS
<1>. DEFINE nodes == Visited(h, r, x) \ {c}
<1>2. nodes \in SUBSET DOMAIN h /\ r \in nodes
  BY <1>1 DEF Forest
<1>3. ASSUME NEW q \in nodes, NEW d, Sends(h, q, d, x)
      PROVE  d \in nodes
  <2>1. q \in DOMAIN h /\ d \in DOMAIN h /\ d \in Children(h, q)
    BY <1>1, <1>3, SendsToChild
  <2>2. d \in Visited(h, r, x)
    BY <1>1, <1>3, <2>1, VisitLemma
  <2>3. d # c
    BY <1>3, <2>1 DEF Forest
  <2>. QED
    BY <2>2, <2>3
<1>4. c \in DOMAIN h
  BY <1>1
<1>. HIDE DEF nodes
<1>5. c \in nodes
  BY <1>1, <1>2, <1>3, <1>4, VisitedLemma
<1>. QED
  BY <1>5 DEF nodes
============================================================================
