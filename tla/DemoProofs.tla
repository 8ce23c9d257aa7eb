----------------------------- MODULE DemoProofs -----------------------------
(***************************************************************************)
(* What main.c relies on and prints.  The join: a lock that is made taken, *)
(* passed to the second thread and released by it keeps main from the      *)
(* nodes until that thread is through with them.  printDS: its stack is    *)
(* large enough, and it prints every key once and in order.  The output:   *)
(* the calls are atomic, so the structure holds what main.c put there.     *)
(***************************************************************************)
EXTENDS Demo, CouplingProofs, FiniteSetTheorems

\* Where main calls the template, and where the second thread does.
CallLines(t) == IF t = main THEN 1 .. 6 \cup {13} ELSE {1}

LineInv ==
    /\ line \in [Thread -> 0 .. 14]
    /\ line[main] # 0 /\ line[thread_func] <= 3
    /\ pc = [t \in Thread |-> pc[t]]
    /\ \A t \in Thread : pc[t] # "idle" => line[t] \in CallLines(t)

\* The second thread does not run before it is spawned, and the lock that
\* main waits for is free only once it is at its return.
SpawnInv ==
    /\ line[main] <= 8 => line[thread_func] = 0
    /\ line[main] = 8 => t_lock = "taken"
    /\ line[main] = 9 => t_lock = "taken" \/ line[thread_func] = 3
    /\ line[main] >= 10 => line[thread_func] = 3

MainInv == LineInv /\ SpawnInv

\* The statement at each line.
LEMMA AtLemma ==
    ASSUME LineInv
    PROVE  /\ At(main) \in {"insert", "lookup"} <=> line[main] \in CallLines(main)
           /\ At(main) = "makelock" <=> line[main] = 7
           /\ At(main) = "spawn" <=> line[main] = 8
           /\ At(main) = "acquire" <=> line[main] = 9
           /\ At(main) = "freelock" <=> line[main] = 10
           /\ At(main) = "get_root" <=> line[main] = 11
           /\ At(main) = "printDS" <=> line[main] = 12
           /\ At(thread_func) \in {"insert", "lookup"} <=> line[thread_func] = 1
           /\ At(thread_func) = "release" <=> line[thread_func] = 2
           /\ At(thread_func) = "return" <=> line[thread_func] = 3
<1>. USE DEF LineInv, Program, Insert, Lookup, Do
<1>1. line[main] \in 1 .. 14 /\ line[thread_func] \in 0 .. 3
  BY ThreadAssumption
<1>2. At(main) = Program(main)[line[main]].op
  BY <1>1 DEF At
<1>3. At(thread_func) = IF line[thread_func] = 0 THEN "none"
                        ELSE Program(thread_func)[line[thread_func]].op
  BY DEF At
<1>. QED
  BY <1>1, <1>2, <1>3, ThreadAssumption DEF CallLines

LEMMA DemoInitLemma == DemoInit => MainInv
BY ThreadAssumption
DEF DemoInit, Init, TableInit, TemplateInit, MainInv, LineInv, SpawnInv

\* The template is called, and works, at these lines only.
LEMMA CallsLemma ==
    ASSUME MainInv, NEW t \in Thread, CallStep(t) \/ InCall(t) \/ ReturnStep(t)
    PROVE  line[t] \in CallLines(t)
<1>1. CASE CallStep(t)
  <2>1. At(t) \in {"insert", "lookup"}
    BY <1>1 DEF CallStep
  <2>2. CASE t = main
    BY <2>1, <2>2, AtLemma DEF MainInv
  <2>3. CASE t = thread_func
    BY <2>1, <2>3, AtLemma, ThreadAssumption DEF MainInv, CallLines
  <2>. QED
    BY <2>2, <2>3, ThreadAssumption
<1>2. CASE InCall(t) \/ ReturnStep(t)
  <2>1. pc[t] # "idle"
    BY <1>2
    DEF InCall, Work, GetRootAcquire, GetRootRead, TraverseAcquire, TraverseEmpty,
        TraverseStart, AcquireNode, FindNext, AcquireNext, ReleasePrev,
        InsertReplace, InsertNode, InsertMetadata, ReleaseNew, LookupValue,
        ReleaseP, End, Return, ReturnStep
  <2>. QED
    BY <2>1 DEF MainInv, LineInv
<1>. QED
  BY <1>1, <1>2

\* A step inside the template leaves line and t_lock alone.
LEMMA InsideLemma ==
    ASSUME MainInv, NEW t \in Thread, CallStep(t) \/ InCall(t)
    PROVE  MainInv'
<1>1. line[t] \in CallLines(t)
  BY CallsLemma
<1>2. \E label : pc' = [pc EXCEPT ![t] = label]
  <2>1. CASE CallStep(t)
    BY <2>1 DEF CallStep, Begin, Call, Goto
  <2>2. CASE InCall(t)
    BY <2>2
    DEF InCall, Work, GetRootAcquire, GetRootRead, TraverseAcquire, TraverseEmpty,
        TraverseStart, AcquireNode, FindNext, AcquireNext, ReleasePrev,
        InsertReplace, InsertNode, InsertMetadata, ReleaseNew, LookupValue,
        ReleaseP, End, Return, Goto
  <2>. QED
    BY <2>1, <2>2
<1>3. UNCHANGED <<line, t_lock>>
  BY DEF CallStep, InCall, demoVars
<1>. QED
  BY <1>1, <1>2, <1>3 DEF MainInv, LineInv, SpawnInv, CallLines

LEMMA ReturnsLemma ==
    ASSUME MainInv, NEW t \in Thread, ReturnStep(t)
    PROVE  MainInv'
<1>1. /\ pc[t] = "return" /\ pc' = [pc EXCEPT ![t] = "idle"]
      /\ line' = [line EXCEPT ![t] = line[t] + 1]
      /\ UNCHANGED t_lock
  BY DEF ReturnStep, End, Return, Goto, NextLine
<1>2. line[t] \in CallLines(t)
  BY <1>1 DEF MainInv, LineInv
<1>3. t \in {main, thread_func} /\ main # thread_func
  BY ThreadAssumption
<1>4. line'[t] \in 0 .. 14 /\ line'[t] = line[t] + 1
  BY <1>1, <1>2, <1>3 DEF MainInv, LineInv, CallLines
<1>5. LineInv'
  <2>1. line' \in [Thread -> 0 .. 14] /\ pc' = [u \in Thread |-> pc'[u]]
    BY <1>1, <1>4 DEF MainInv, LineInv
  <2>2. line'[main] # 0 /\ line'[thread_func] <= 3
    BY <1>1, <1>2, <1>3, <1>4, ThreadAssumption DEF MainInv, LineInv, CallLines
  <2>3. \A u \in Thread : pc'[u] # "idle" => line'[u] \in CallLines(u)
    BY <1>1 DEF MainInv, LineInv
  <2>. QED
    BY <2>1, <2>2, <2>3 DEF LineInv
<1>6. SpawnInv'
  <2>1. CASE t = main
    <3>1. line'[main] = line[main] + 1 /\ line'[thread_func] = line[thread_func]
      BY <1>1, <1>3, <2>1, ThreadAssumption DEF MainInv, LineInv
    <3>2. line[main] \in 1 .. 6 \cup {13}
      BY <1>2, <2>1 DEF CallLines
    <3>. QED
      BY <1>1, <3>1, <3>2 DEF MainInv, SpawnInv
  <2>2. CASE t = thread_func
    <3>1. line'[thread_func] = 2 /\ line[thread_func] = 1 /\ line'[main] = line[main]
      BY <1>1, <1>2, <1>3, <2>2, ThreadAssumption DEF MainInv, LineInv, CallLines
    <3>2. line[main] \in 0 .. 14
      BY ThreadAssumption DEF MainInv, LineInv
    <3>. QED
      BY <1>1, <3>1, <3>2 DEF MainInv, SpawnInv
  <2>. QED
    BY <1>3, <2>1, <2>2
<1>. QED
  BY <1>5, <1>6 DEF MainInv

LEMMA MainLemma ==
    ASSUME MainInv, MainStep
    PROVE  MainInv'
<1>1. UNCHANGED pc
  BY DEF MainStep, MakeLock, Spawn, Join, FreeLock, PrintRoot, Push, Pop, Printed,
         vars, tableVars, templateVars
<1>. USE ThreadAssumption DEF MainInv, LineInv, SpawnInv, CallLines
<1>2. CASE MakeLock
  BY <1>1, <1>2, AtLemma DEF MakeLock, NextLine
<1>3. CASE Spawn
  BY <1>1, <1>3, AtLemma DEF Spawn, demoVars
<1>4. CASE Join
  BY <1>1, <1>4, AtLemma DEF Join, NextLine
<1>5. CASE FreeLock
  BY <1>1, <1>5, AtLemma DEF FreeLock, NextLine
<1>6. CASE PrintRoot
  BY <1>1, <1>6, AtLemma DEF PrintRoot, NextLine
<1>7. CASE Push \/ Pop
  BY <1>1, <1>7 DEF Push, Pop
<1>8. CASE Printed
  BY <1>1, <1>8, AtLemma DEF Printed, NextLine, demoVars
<1>. QED
  BY <1>2, <1>3, <1>4, <1>5, <1>6, <1>7, <1>8 DEF MainStep

LEMMA ReleasesLemma ==
    ASSUME MainInv, ThreadRelease
    PROVE  MainInv'
<1>1. UNCHANGED pc
  BY DEF ThreadRelease, vars, tableVars, templateVars
<1>. QED
  BY <1>1, AtLemma, ThreadAssumption
  DEF ThreadRelease, NextLine, MainInv, LineInv, SpawnInv, CallLines

LEMMA DemoNextLemma == MainInv /\ [DemoNext]_allVars => MainInv'
<1>. SUFFICES ASSUME MainInv, [DemoNext]_allVars PROVE MainInv'
  OBVIOUS
<1>1. CASE UNCHANGED allVars
  BY <1>1
  DEF allVars, vars, tableVars, templateVars, demoVars, MainInv, LineInv, SpawnInv
<1>2. CASE DemoNext
  BY <1>2, InsideLemma, ReturnsLemma, MainLemma, ReleasesLemma DEF DemoNext, Step
<1>. QED
  BY <1>1, <1>2

\* While main frees the lock and prints the nodes without holding theirs, the
\* second thread is at its return, whatever the schedule, the data structure,
\* the addresses and the hash.
THEOREM JoinHolds == DemoSpec => []JoinInv
<1>1. DemoInit => MainInv
  BY DemoInitLemma
<1>2. MainInv /\ [DemoNext]_allVars => MainInv'
  BY DemoNextLemma
<1>3. MainInv => JoinInv
  BY AtLemma, ThreadAssumption DEF MainInv, LineInv, SpawnInv, JoinInv, CallLines
<1>. QED
  BY <1>1, <1>2, <1>3, PTL DEF DemoSpec
----------------------------------------------------------------------------
(* What printDS has printed and has yet to print.                          *)

\* The order in which printDS prints keys.
Precedes(j, k) == IF DS = "list" THEN j > k ELSE j < k

\* Ahead and After in a heap h.
AheadOf(h, p) == IF DS = "list" THEN h[p].next ELSE h[p].left
AfterOf(h, p) == IF DS = "list" THEN NULL ELSE h[p].right

\* What is out precedes what is on the stack, top first, and every key for
\* which a search comes by the node printDS goes to is between the two.  Each
\* node of the structure is out, or to be printed after or instead of one of
\* the nodes that a search for its key comes by.
Walk(h, r, cur, st, o) ==
    /\ cur \in Linked(h, r) \cup {NULL}
    /\ st \in Seq(Linked(h, r))
    /\ o \in Seq(Key \X Value)
    /\ \A i \in DOMAIN o :
          \E n \in Linked(h, r) : o[i][1] = h[n].key /\ o[i][2] = h[n].value
    /\ \A i, j \in DOMAIN o : i < j => Precedes(o[i][1], o[j][1])
    /\ \A i \in DOMAIN o, j \in DOMAIN st : Precedes(o[i][1], h[st[j]].key)
    /\ \A i, j \in DOMAIN st : i < j =>
          \A k \in Key : st[j] \in Visited(h, r, k) => Precedes(k, h[st[i]].key)
    /\ cur # NULL =>
          \A k \in Key : cur \in Visited(h, r, k) =>
              /\ \A i \in DOMAIN o : Precedes(o[i][1], k)
              /\ \A j \in DOMAIN st : Precedes(k, h[st[j]].key)
    /\ \A n \in Linked(h, r) :
          \/ \E i \in DOMAIN o : o[i][1] = h[n].key
          \/ cur # NULL /\ cur \in Visited(h, r, h[n].key)
          \/ \E j \in DOMAIN st :
                /\ st[j] \in Visited(h, r, h[n].key)
                /\ n = st[j] \/ Precedes(h[st[j]].key, h[n].key)

LEMMA PrecedesLemma ==
    /\ \A i, j, k \in Int : Precedes(i, j) /\ Precedes(j, k) => Precedes(i, k)
    /\ \A i, j \in Int : Precedes(i, j) => i # j /\ ~Precedes(j, i)
    /\ \A i, j \in Int : i = j \/ Precedes(i, j) \/ Precedes(j, i)
BY DEF Precedes

\* findNext goes the way of printDS's inner loop with the keys that are printed
\* before that of the node, and the way of the outer loop with the others.
LEMMA SideLemma ==
    ASSUME NEW h, IsHeap(h), Closed(h), NEW r, Forest(h, r),
           NEW p \in DOMAIN h, NEW k \in Key, NEW c, Sends(h, p, c, k)
    PROVE  /\ c = AheadOf(h, p) <=> Precedes(k, h[p].key)
           /\ c = AfterOf(h, p) <=> Precedes(h[p].key, k)
<1>1. c \in DOMAIN h /\ NULL \notin DOMAIN h
  BY SendsToChild, NullAssumption DEF IsHeap
<1>2. k # h[p].key /\ k \in Int /\ h[p].key \in Int
  BY SendsLemma
<1>3. CASE DS = "list"
  BY <1>1, <1>2, <1>3
  DEF Sends, findNext, List!findNext, AheadOf, AfterOf, Precedes
<1>4. CASE DS = "bst"
  <2>1. h[p].left = h[p].right => h[p].left = NULL
    BY <1>4 DEF Forest
  <2>2. c = IF k < h[p].key THEN h[p].left ELSE h[p].right
    BY <1>2, <1>4 DEF Sends, findNext, Tree!findNext
  <2>. QED
    BY <1>1, <1>2, <1>4, <2>1, <2>2 DEF AheadOf, AfterOf, Precedes
<1>. QED
  BY <1>3, <1>4, DSAssumption

\* A node that printDS goes to from p is in the structure, and a search that
\* comes by it came by p.
LEMMA GoesLemma ==
    ASSUME NEW h, IsHeap(h), Closed(h), NEW r \in DOMAIN h, Forest(h, r),
           NEW p \in Linked(h, r), NEW c, c # NULL, c \in {AheadOf(h, p), AfterOf(h, p)}
    PROVE  /\ c \in Linked(h, r)
           /\ \A k \in Key : c \in Visited(h, r, k) =>
                 /\ p \in Visited(h, r, k)
                 /\ c = AheadOf(h, p) => Precedes(k, h[p].key)
                 /\ c = AfterOf(h, p) => Precedes(h[p].key, k)
<1>1. p \in DOMAIN h
  BY DEF Linked
<1>2. c \in Children(h, p)
  <2>1. CASE DS = "list"
    BY <2>1 DEF AheadOf, AfterOf, Children, List!Children
  <2>2. CASE DS = "bst"
    BY <2>2 DEF AheadOf, AfterOf, Children, Tree!Children
  <2>. QED
    BY <2>1, <2>2, DSAssumption
<1>3. c \in Linked(h, r)
  BY <1>1, <1>2 DEF Linked, Closed
<1>4. ASSUME NEW k \in Key, c \in Visited(h, r, k)
      PROVE  p \in Visited(h, r, k) /\ Sends(h, p, c, k)
  BY <1>1, <1>2, <1>4, ComesBy
<1>. QED
  BY <1>1, <1>3, <1>4, SideLemma

\* From p, the search for the key of another node goes on where printDS gets
\* to that node's key.
LEMMA SearchGoes ==
    ASSUME NEW h, IsHeap(h), Closed(h), NEW r \in DOMAIN h, Forest(h, r),
           Findable(h, r), NEW p \in Linked(h, r), NEW n \in Linked(h, r), n # p,
           p \in Visited(h, r, h[n].key)
    PROVE  /\ Precedes(h[n].key, h[p].key) =>
                 /\ AheadOf(h, p) # NULL
                 /\ AheadOf(h, p) \in Visited(h, r, h[n].key)
           /\ Precedes(h[p].key, h[n].key) =>
                 /\ AfterOf(h, p) # NULL
                 /\ AfterOf(h, p) \in Visited(h, r, h[n].key)
           /\ Precedes(h[n].key, h[p].key) \/ Precedes(h[p].key, h[n].key)
<1>. DEFINE k == h[n].key
<1>1. /\ p \in DOMAIN h /\ n \in DOMAIN h /\ k \in Key /\ h[p].key \in Key
      /\ NULL \notin DOMAIN h /\ r # NULL
  BY NullAssumption, DSAssumption
  DEF Linked, IsHeap, NodeFields, List!NodeFields, Tree!NodeFields
<1>2. Landing(h, r, k) = {n}
  BY <1>1, FindableLemma
<1>. HIDE DEF k
<1>3. PICK c : Sends(h, p, c, k)
  <2>. SUFFICES ASSUME \A c : ~Sends(h, p, c, k) PROVE FALSE
    OBVIOUS
  <2>1. p \in Visited(h, r, k)
    BY DEF k
  <2>2. Landing(h, r, k) = {p}
    BY <1>1, <2>1, LandingLemma
  <2>. QED
    BY <1>2, <2>2
<1>4. c \in DOMAIN h /\ c # NULL
  BY <1>1, <1>3, SendsToChild
<1>5. c \in Visited(h, r, k)
  BY <1>1, <1>3, <1>4, VisitLemma DEF k
<1>6. k # h[p].key /\ k \in Int /\ h[p].key \in Int
  BY <1>1, <1>3, SendsLemma
<1>7. /\ c = AheadOf(h, p) <=> Precedes(k, h[p].key)
      /\ c = AfterOf(h, p) <=> Precedes(h[p].key, k)
  BY <1>1, <1>3, SideLemma
<1>. QED
  BY <1>4, <1>5, <1>6, <1>7, PrecedesLemma DEF k

\* The loops of printDS start at the root.
LEMMA WalkStart ==
    ASSUME NEW h, IsHeap(h), NEW r \in DOMAIN h \cup {NULL},
           r = NULL => Linked(h, r) = {}
    PROVE  Walk(h, r, r, << >>, << >>)
<1>1. r \in DOMAIN h => r # NULL /\ r \in Linked(h, r)
  BY NullAssumption DEF IsHeap, Linked
<1>2. \A n \in Linked(h, r) : r # NULL /\ r \in Visited(h, r, h[n].key)
  BY <1>1, VisitLemma
<1>. QED
  BY <1>1, <1>2 DEF Walk

\* The inner loop: the node goes on the stack, and what is ahead of it is next.
LEMMA WalkPush ==
    ASSUME NEW h, IsHeap(h), Closed(h), NEW r \in DOMAIN h, Forest(h, r),
           Findable(h, r), NEW cur, NEW st, NEW o, Walk(h, r, cur, st, o), cur # NULL
    PROVE  Walk(h, r, AheadOf(h, cur), Append(st, cur), o)
<1>. DEFINE c == AheadOf(h, cur)
            st2 == Append(st, cur)
<1>1. /\ cur \in Linked(h, r) /\ st \in Seq(Linked(h, r)) /\ o \in Seq(Key \X Value)
      /\ \A k \in Key : cur \in Visited(h, r, k) =>
            /\ \A i \in DOMAIN o : Precedes(o[i][1], k)
            /\ \A j \in DOMAIN st : Precedes(k, h[st[j]].key)
  BY DEF Walk
<1>2. /\ st2 \in Seq(Linked(h, r)) /\ Len(st2) = Len(st) + 1
      /\ DOMAIN st2 = DOMAIN st \cup {Len(st2)} /\ DOMAIN st = 1 .. Len(st)
      /\ st2[Len(st2)] = cur /\ \A j \in DOMAIN st : st2[j] = st[j]
      /\ Len(st) \in Nat
  BY <1>1
<1>. HIDE DEF st2
<1>3. \A n \in Linked(h, r) : /\ h[n].key \in Key /\ h[n].key \in Int
                              /\ n \in Visited(h, r, h[n].key)
  BY DSAssumption, KeyAssumption
  DEF Linked, Findable, IsHeap, NodeFields, List!NodeFields, Tree!NodeFields
<1>4. c # NULL => /\ c \in Linked(h, r)
                  /\ \A k \in Key : c \in Visited(h, r, k) =>
                        cur \in Visited(h, r, k) /\ Precedes(k, h[cur].key)
  BY <1>1, GoesLemma
<1>5. ASSUME NEW n \in Linked(h, r), n # cur, cur \in Visited(h, r, h[n].key)
      PROVE  \/ c # NULL /\ c \in Visited(h, r, h[n].key)
             \/ Precedes(h[cur].key, h[n].key)
  BY <1>1, <1>5, SearchGoes
<1>. HIDE DEF c
<1>6. \A i \in DOMAIN o :
          \E n \in Linked(h, r) : o[i][1] = h[n].key /\ o[i][2] = h[n].value
  BY DEF Walk
<1>7. \A i, j \in DOMAIN o : i < j => Precedes(o[i][1], o[j][1])
  BY DEF Walk
<1>8. \A i \in DOMAIN o, j \in DOMAIN st2 : Precedes(o[i][1], h[st2[j]].key)
  <2>1. \A i \in DOMAIN o, j \in DOMAIN st : Precedes(o[i][1], h[st[j]].key)
    BY DEF Walk
  <2>2. \A i \in DOMAIN o : Precedes(o[i][1], h[cur].key)
    BY <1>1, <1>3
  <2>. QED
    BY <1>2, <2>1, <2>2
<1>9. \A i, j \in DOMAIN st2 : i < j =>
          \A k \in Key : st2[j] \in Visited(h, r, k) => Precedes(k, h[st2[i]].key)
  <2>1. \A i, j \in DOMAIN st : i < j =>
          \A k \in Key : st[j] \in Visited(h, r, k) => Precedes(k, h[st[i]].key)
    BY DEF Walk
  <2>. SUFFICES ASSUME NEW i \in DOMAIN st2, NEW j \in DOMAIN st2, i < j, NEW k \in Key,
                       st2[j] \in Visited(h, r, k)
                PROVE  Precedes(k, h[st2[i]].key)
    OBVIOUS
  <2>2. i \in DOMAIN st
    BY <1>2
  <2>3. CASE j \in DOMAIN st
    BY <1>2, <2>1, <2>2, <2>3
  <2>4. CASE j = Len(st2)
    BY <1>1, <1>2, <2>2, <2>4
  <2>. QED
    BY <1>2, <2>3, <2>4
<1>10. c # NULL =>
          \A k \in Key : c \in Visited(h, r, k) =>
              /\ \A i \in DOMAIN o : Precedes(o[i][1], k)
              /\ \A j \in DOMAIN st2 : Precedes(k, h[st2[j]].key)
  BY <1>1, <1>2, <1>4
<1>11. ASSUME NEW n \in Linked(h, r)
       PROVE  \/ \E i \in DOMAIN o : o[i][1] = h[n].key
              \/ c # NULL /\ c \in Visited(h, r, h[n].key)
              \/ \E j \in DOMAIN st2 :
                    /\ st2[j] \in Visited(h, r, h[n].key)
                    /\ n = st2[j] \/ Precedes(h[st2[j]].key, h[n].key)
  <2>1. \/ \E i \in DOMAIN o : o[i][1] = h[n].key
        \/ cur \in Visited(h, r, h[n].key)
        \/ \E j \in DOMAIN st :
              /\ st[j] \in Visited(h, r, h[n].key)
              /\ n = st[j] \/ Precedes(h[st[j]].key, h[n].key)
    BY DEF Walk
  <2>2. CASE cur \in Visited(h, r, h[n].key)
    BY <1>2, <1>3, <1>5, <2>2
  <2>3. CASE \E j \in DOMAIN st :
              /\ st[j] \in Visited(h, r, h[n].key)
              /\ n = st[j] \/ Precedes(h[st[j]].key, h[n].key)
    <3>1. PICK j \in DOMAIN st :
              /\ st[j] \in Visited(h, r, h[n].key)
              /\ n = st[j] \/ Precedes(h[st[j]].key, h[n].key)
      BY <2>3
    <3>2. j \in DOMAIN st2 /\ st2[j] = st[j]
      BY <1>2
    <3>. QED
      BY <3>1, <3>2
  <2>. QED
    BY <2>1, <2>2, <2>3
<1>12. c \in Linked(h, r) \cup {NULL}
  BY <1>4
<1>13. Walk(h, r, c, st2, o)
  BY <1>1, <1>2, <1>6, <1>7, <1>8, <1>9, <1>10, <1>11, <1>12 DEF Walk
<1>. QED
  BY <1>13 DEF c, st2

\* The outer loop: the top of the stack is printed, and what is after it is next.
LEMMA WalkPop ==
    ASSUME NEW h, IsHeap(h), Closed(h), NEW r \in DOMAIN h, Forest(h, r),
           Findable(h, r), NEW st, NEW o, Walk(h, r, NULL, st, o), st # << >>
    PROVE  LET p == st[Len(st)]
           IN  Walk(h, r, AfterOf(h, p), SubSeq(st, 1, Len(st) - 1),
                    Append(o, <<h[p].key, h[p].value>>))
<1>. DEFINE p == st[Len(st)]
            c == AfterOf(h, p)
            st2 == SubSeq(st, 1, Len(st) - 1)
            o2 == Append(o, <<h[p].key, h[p].value>>)
<1>1. /\ st \in Seq(Linked(h, r)) /\ o \in Seq(Key \X Value)
      /\ Len(st) \in Nat /\ Len(st) # 0 /\ DOMAIN st = 1 .. Len(st)
      /\ Len(st) \in DOMAIN st /\ p \in Linked(h, r)
  <2>1. st \in Seq(Linked(h, r)) /\ o \in Seq(Key \X Value)
    BY DEF Walk
  <2>2. Len(st) \in Nat /\ Len(st) # 0 /\ DOMAIN st = 1 .. Len(st)
    BY <2>1
  <2>. QED
    BY <2>1, <2>2
<1>2. /\ st2 \in Seq(Linked(h, r)) /\ DOMAIN st2 = 1 .. Len(st) - 1
      /\ \A j \in DOMAIN st2 : j \in DOMAIN st /\ j < Len(st) /\ st2[j] = st[j]
  BY <1>1
<1>3. \A n \in Linked(h, r) : /\ h[n].key \in Key /\ h[n].key \in Int
                              /\ h[n].value \in Value
                              /\ n \in Visited(h, r, h[n].key)
  BY DSAssumption, KeyAssumption
  DEF Linked, Findable, IsHeap, NodeFields, List!NodeFields, Tree!NodeFields
<1>4. /\ o2 \in Seq(Key \X Value) /\ Len(o2) = Len(o) + 1 /\ Len(o) \in Nat
      /\ DOMAIN o = 1 .. Len(o) /\ DOMAIN o2 = DOMAIN o \cup {Len(o2)}
      /\ o2[Len(o2)][1] = h[p].key /\ o2[Len(o2)][2] = h[p].value
      /\ \A i \in DOMAIN o : o2[i] = o[i]
  <2>1. <<h[p].key, h[p].value>> \in Key \X Value
    BY <1>1, <1>3
  <2>. HIDE DEF p
  <2>. QED
    BY <1>1, <2>1
<1>5. c # NULL => /\ c \in Linked(h, r)
                  /\ \A k \in Key : c \in Visited(h, r, k) =>
                        p \in Visited(h, r, k) /\ Precedes(h[p].key, k)
  BY <1>1, GoesLemma
<1>6. ASSUME NEW n \in Linked(h, r), n # p, p \in Visited(h, r, h[n].key),
             Precedes(h[p].key, h[n].key)
      PROVE  c # NULL /\ c \in Visited(h, r, h[n].key)
  BY <1>1, <1>6, SearchGoes
<1>. HIDE DEF c, st2, o2, p
<1>7. /\ \A i \in DOMAIN o, j \in DOMAIN st : Precedes(o[i][1], h[st[j]].key)
      /\ \A i, j \in DOMAIN st : i < j =>
            \A k \in Key : st[j] \in Visited(h, r, k) => Precedes(k, h[st[i]].key)
      /\ \A i, j \in DOMAIN o : i < j => Precedes(o[i][1], o[j][1])
      /\ \A i \in DOMAIN o :
            \E n \in Linked(h, r) : o[i][1] = h[n].key /\ o[i][2] = h[n].value
  BY DEF Walk
<1>8. /\ \A i \in DOMAIN o : Precedes(o[i][1], h[p].key) /\ o[i][1] \in Int
      /\ \A j \in DOMAIN st2, k \in Key : p \in Visited(h, r, k) =>
            Precedes(k, h[st2[j]].key)
  <2>1. \A i \in DOMAIN o : Precedes(o[i][1], h[p].key)
    BY <1>1, <1>7 DEF p
  <2>2. \A i \in DOMAIN o : o[i][1] \in Int
    BY <1>3, <1>7
  <2>3. \A j \in DOMAIN st2, k \in Key : p \in Visited(h, r, k) =>
            Precedes(k, h[st2[j]].key)
    BY <1>1, <1>2, <1>7 DEF p
  <2>. QED
    BY <2>1, <2>2, <2>3
<1>9. \A i \in DOMAIN o2 :
          \E n \in Linked(h, r) : o2[i][1] = h[n].key /\ o2[i][2] = h[n].value
  BY <1>1, <1>4, <1>7
<1>10. \A i, j \in DOMAIN o2 : i < j => Precedes(o2[i][1], o2[j][1])
  <2>. SUFFICES ASSUME NEW i \in DOMAIN o2, NEW j \in DOMAIN o2, i < j
                PROVE  Precedes(o2[i][1], o2[j][1])
    OBVIOUS
  <2>1. i \in DOMAIN o
    BY <1>4
  <2>2. CASE j \in DOMAIN o
    BY <1>4, <1>7, <2>1, <2>2
  <2>3. CASE j = Len(o2)
    BY <1>4, <1>8, <2>1, <2>3
  <2>. QED
    BY <1>4, <2>2, <2>3
<1>11. \A i \in DOMAIN o2, j \in DOMAIN st2 : Precedes(o2[i][1], h[st2[j]].key)
  <2>1. \A j \in DOMAIN st2 : Precedes(h[p].key, h[st2[j]].key)
    BY <1>1, <1>3, <1>8
  <2>2. \A i \in DOMAIN o, j \in DOMAIN st2 : Precedes(o[i][1], h[st2[j]].key)
    BY <1>2, <1>7
  <2>. QED
    BY <1>4, <2>1, <2>2
<1>12. \A i, j \in DOMAIN st2 : i < j =>
          \A k \in Key : st2[j] \in Visited(h, r, k) => Precedes(k, h[st2[i]].key)
  BY <1>2, <1>7
<1>13. ASSUME c # NULL, NEW k \in Key, c \in Visited(h, r, k)
       PROVE  /\ \A i \in DOMAIN o2 : Precedes(o2[i][1], k)
              /\ \A j \in DOMAIN st2 : Precedes(k, h[st2[j]].key)
  <2>1. p \in Visited(h, r, k) /\ Precedes(h[p].key, k)
    BY <1>5, <1>13
  <2>2. k \in Int /\ h[p].key \in Int
    BY <1>1, <1>3, KeyAssumption
  <2>3. \A i \in DOMAIN o : Precedes(o[i][1], k)
    BY <1>8, <2>1, <2>2, PrecedesLemma
  <2>. QED
    BY <1>4, <1>8, <2>1, <2>3
<1>14. ASSUME NEW n \in Linked(h, r)
       PROVE  \/ \E i \in DOMAIN o2 : o2[i][1] = h[n].key
              \/ c # NULL /\ c \in Visited(h, r, h[n].key)
              \/ \E j \in DOMAIN st2 :
                    /\ st2[j] \in Visited(h, r, h[n].key)
                    /\ n = st2[j] \/ Precedes(h[st2[j]].key, h[n].key)
  <2>1. \/ \E i \in DOMAIN o : o[i][1] = h[n].key
        \/ \E j \in DOMAIN st :
              /\ st[j] \in Visited(h, r, h[n].key)
              /\ n = st[j] \/ Precedes(h[st[j]].key, h[n].key)
    BY DEF Walk
  <2>2. CASE \E i \in DOMAIN o : o[i][1] = h[n].key
    BY <1>4, <2>2
  <2>3. ASSUME NEW j \in DOMAIN st, st[j] \in Visited(h, r, h[n].key),
               n = st[j] \/ Precedes(h[st[j]].key, h[n].key)
        PROVE  \/ \E i \in DOMAIN o2 : o2[i][1] = h[n].key
               \/ c # NULL /\ c \in Visited(h, r, h[n].key)
               \/ \E i \in DOMAIN st2 :
                     /\ st2[i] \in Visited(h, r, h[n].key)
                     /\ n = st2[i] \/ Precedes(h[st2[i]].key, h[n].key)
    <3>1. CASE j = Len(st) /\ n = p
      BY <1>4, <3>1
    <3>2. CASE j = Len(st) /\ n # p
      BY <1>6, <2>3, <3>2 DEF p
    <3>3. CASE j # Len(st)
      <4>1. j \in DOMAIN st2 /\ st2[j] = st[j]
        BY <1>1, <1>2, <3>3
      <4>. QED
        BY <2>3, <4>1
    <3>. QED
      BY <3>1, <3>2, <3>3
  <2>. QED
    BY <2>1, <2>2, <2>3
<1>15. Walk(h, r, c, st2, o2)
  BY <1>2, <1>4, <1>5, <1>9, <1>10, <1>11, <1>12, <1>13, <1>14 DEF Walk
<1>. QED
  BY <1>15 DEF c, st2, o2, p

\* No node is on the stack twice, or on it and printed.
OnceEach(h, st, o) ==
    /\ Len(st) \in Nat /\ Len(o) \in Nat
    /\ Len(st) + Len(o) <= Cardinality(DOMAIN h)

LEMMA WalkCount ==
    ASSUME NEW h, IsHeap(h), IsFiniteSet(DOMAIN h), NEW r, Findable(h, r),
           NEW cur, NEW st, NEW o, Walk(h, r, cur, st, o)
    PROVE  OnceEach(h, st, o)
<1>1. /\ Len(st) \in Nat /\ Len(o) \in Nat
      /\ DOMAIN st = 1 .. Len(st) /\ DOMAIN o = 1 .. Len(o)
      /\ \A j \in DOMAIN st : st[j] \in Linked(h, r)
      /\ \A i \in DOMAIN o :
            \E n \in Linked(h, r) : o[i][1] = h[n].key
  <2>1. st \in Seq(Linked(h, r)) /\ o \in Seq(Key \X Value)
    BY DEF Walk
  <2>2. \A i \in DOMAIN o : \E n \in Linked(h, r) : o[i][1] = h[n].key
    BY DEF Walk
  <2>. QED
    BY <2>1, <2>2
<1>2. \A n \in Linked(h, r) : /\ n \in DOMAIN h
                              /\ h[n].key \in Int /\ h[n].key \in Key
                              /\ n \in Visited(h, r, h[n].key)
  BY DSAssumption, KeyAssumption
  DEF Linked, Findable, IsHeap, NodeFields, List!NodeFields, Tree!NodeFields
<1>. DEFINE N == Len(st) + Len(o)
            NodeOf(i) == CHOOSE n \in Linked(h, r) : o[i][1] = h[n].key
            f == [i \in 1 .. N |-> IF i <= Len(st) THEN st[i] ELSE NodeOf(i - Len(st))]
<1>3. /\ IsFiniteSet(1 .. N) /\ Cardinality(1 .. N) = N
  <2>1. N \in Nat /\ (1 > N => N = 0)
    BY <1>1
  <2>. HIDE DEF N
  <2>. QED
    BY <2>1, FS_Interval
<1>4. \A i \in DOMAIN o : NodeOf(i) \in Linked(h, r) /\ h[NodeOf(i)].key = o[i][1]
  BY <1>1
<1>. HIDE DEF NodeOf
<1>5. ASSUME NEW i \in 1 .. N
      PROVE  /\ i <= Len(st) => i \in DOMAIN st /\ f[i] = st[i]
             /\ i > Len(st) => /\ i - Len(st) \in DOMAIN o
                               /\ f[i] = NodeOf(i - Len(st))
             /\ f[i] \in Linked(h, r) /\ f[i] \in DOMAIN h
  <2>1. i <= Len(st) => i \in DOMAIN st /\ f[i] = st[i]
    BY <1>1
  <2>2. i > Len(st) => i - Len(st) \in DOMAIN o /\ f[i] = NodeOf(i - Len(st))
    BY <1>1
  <2>3. i <= Len(st) \/ i > Len(st)
    BY <1>1
  <2>. HIDE DEF f
  <2>4. f[i] \in Linked(h, r)
    BY <1>1, <1>4, <2>1, <2>2, <2>3
  <2>. QED
    BY <1>2, <2>1, <2>2, <2>4
<1>6. f \in [1 .. N -> DOMAIN h]
  BY <1>5
<1>. HIDE DEF f
<1>7. ASSUME NEW i \in 1 .. N, NEW j \in 1 .. N, i < j, f[i] = f[j]
      PROVE  FALSE
  <2>. USE PrecedesLemma
  <2>1. CASE j <= Len(st)
    <3>1. i \in DOMAIN st /\ j \in DOMAIN st /\ st[i] = st[j]
      BY <1>1, <1>5, <1>7, <2>1
    <3>2. Precedes(h[st[j]].key, h[st[i]].key)
      BY <1>1, <1>2, <1>7, <3>1 DEF Walk
    <3>. QED
      BY <1>1, <1>2, <3>1, <3>2
  <2>2. CASE i > Len(st)
    <3>1. /\ i - Len(st) \in DOMAIN o /\ j - Len(st) \in DOMAIN o
          /\ i - Len(st) < j - Len(st)
          /\ o[i - Len(st)][1] = h[f[i]].key /\ o[j - Len(st)][1] = h[f[j]].key
      BY <1>1, <1>4, <1>5, <1>7, <2>2
    <3>2. Precedes(o[i - Len(st)][1], o[j - Len(st)][1])
      BY <3>1 DEF Walk
    <3>. QED
      BY <1>2, <1>5, <1>7, <3>1, <3>2
  <2>3. CASE i <= Len(st) /\ j > Len(st)
    <3>1. /\ i \in DOMAIN st /\ j - Len(st) \in DOMAIN o /\ f[i] = st[i]
          /\ o[j - Len(st)][1] = h[f[j]].key
      BY <1>1, <1>4, <1>5, <2>3
    <3>2. Precedes(o[j - Len(st)][1], h[st[i]].key)
      BY <3>1 DEF Walk
    <3>3. Precedes(h[f[i]].key, h[f[i]].key) /\ h[f[i]].key \in Int
      BY <1>2, <1>5, <1>7, <3>1, <3>2
    <3>. QED
      BY <3>3
  <2>. QED
    BY <1>1, <1>7, <2>1, <2>2, <2>3
<1>8. Cardinality(DOMAIN h) \in Nat
  BY FS_CardinalityType
<1>9. ~(Cardinality(DOMAIN h) < Cardinality(1 .. N))
  <2>. SUFFICES ASSUME Cardinality(DOMAIN h) < Cardinality(1 .. N) PROVE FALSE
    OBVIOUS
  <2>1. \E i, j \in 1 .. N : i # j /\ f[i] = f[j]
    BY <1>3, <1>6, FS_PigeonHole
  <2>2. PICK i \in 1 .. N, j \in 1 .. N : i # j /\ f[i] = f[j]
    BY <2>1
  <2>3. i < j \/ j < i
    BY <2>2, <1>1
  <2>. QED
    BY <1>7, <2>2, <2>3
<1>. QED
  BY <1>1, <1>3, <1>8, <1>9 DEF OnceEach

\* What is out is the beginning of what there is to print: a key of the
\* structure that precedes one that is out is out.
LEMMA WalkPrefix ==
    ASSUME NEW h, IsHeap(h), NEW r, NEW cur, NEW st, NEW o, Walk(h, r, cur, st, o),
           NEW i \in DOMAIN o, NEW n \in Linked(h, r), Precedes(h[n].key, o[i][1])
    PROVE  \E j \in DOMAIN o : o[j][1] = h[n].key
<1>1. \A m \in Linked(h, r) : h[m].key \in Int /\ h[m].key \in Key
  BY DSAssumption, KeyAssumption
  DEF Linked, IsHeap, NodeFields, List!NodeFields, Tree!NodeFields
<1>2. o[i][1] \in Int /\ DOMAIN st = 1 .. Len(st)
      /\ \A j \in DOMAIN st : st[j] \in Linked(h, r)
  <2>1. st \in Seq(Linked(h, r))
    BY DEF Walk
  <2>2. PICK m \in Linked(h, r) : o[i][1] = h[m].key
    BY DEF Walk
  <2>. QED
    BY <1>1, <2>1, <2>2
<1>3. ~Precedes(o[i][1], h[n].key)
  BY <1>1, <1>2, PrecedesLemma
<1>4. ~(cur # NULL /\ cur \in Visited(h, r, h[n].key))
  BY <1>1, <1>3 DEF Walk
<1>5. ASSUME NEW j \in DOMAIN st, n = st[j] \/ Precedes(h[st[j]].key, h[n].key)
      PROVE  FALSE
  <2>1. Precedes(o[i][1], h[st[j]].key)
    BY <1>5 DEF Walk
  <2>. QED
    BY <1>1, <1>2, <1>3, <1>5, <2>1, PrecedesLemma
<1>6. \/ \E j \in DOMAIN o : o[j][1] = h[n].key
      \/ cur # NULL /\ cur \in Visited(h, r, h[n].key)
      \/ \E j \in DOMAIN st :
            /\ st[j] \in Visited(h, r, h[n].key)
            /\ n = st[j] \/ Precedes(h[st[j]].key, h[n].key)
  BY DEF Walk
<1>. QED
  BY <1>4, <1>5, <1>6

----------------------------------------------------------------------------
(* The template under main.c.                                              *)

\* A step of main.c is one of the template, or leaves its state alone.
LEMMA StepLemma ==
    ASSUME NEW t \in Thread, Step(t)
    PROVE  Begin(t) \/ Work(t) \/ UNCHANGED vars
<1>1. CASE CallStep(t) \/ InCall(t) \/ ReturnStep(t)
  BY <1>1 DEF CallStep, InCall, ReturnStep, Work
<1>2. CASE MainStep \/ ThreadRelease
  BY <1>2
  DEF MainStep, MakeLock, Spawn, Join, FreeLock, PrintRoot, Push, Pop, Printed,
      ThreadRelease
<1>. QED
  BY <1>1, <1>2 DEF Step

LEMMA StepsLemma == [DemoNext]_allVars => [Next]_vars
BY StepLemma DEF DemoNext, Next, allVars

\* main.c uses the template as any client may: what is proved of coupling.c
\* holds under it.
LEMMA UsesTemplate == DemoSpec => Spec
<1>1. DemoInit => Init
  BY DEF DemoInit
<1>. QED
  BY <1>1, StepsLemma, PTL DEF DemoSpec, Spec

\* The nodes are finitely many, and make a list or a tree.
ShapeInv == IsFiniteSet(DOMAIN heap) /\ Forest(heap, root)

LEMMA ShapeStep ==
    ASSUME SearchInv, ShapeInv, NEW t \in Thread, Begin(t) \/ Work(t)
    PROVE  ShapeInv' /\ DOMAIN heap \subseteq DOMAIN heap'
<1>. DEFINE p == pn[t].p
            x == req[t].key
            v == req[t].value
<1>1. IInv /\ TraversalInv(t) /\ NewInv(t) /\ OnWay(t)
  BY DEF SearchInv, IInv, ThreadInv
<1>2. ASSUME pc[t] = "insert"
      PROVE  p \in DOMAIN heap \cup {NULL} /\ x \in Key /\ v \in Value
  BY <1>1, <1>2 DEF TraversalInv, Reference, Request
<1>3. CASE InsertReplace(t)
  <2>1. /\ pc[t] = "insert" /\ ~insertAllocates(heap, p, x) /\ root' = root
        /\ heap' = insertOp(heap, p, x, v, NULL)
    BY <1>3 DEF InsertReplace
  <2>. DEFINE h2 == insertOp(heap, p, x, v, NULL)
  <2>2. /\ DOMAIN h2 = DOMAIN heap /\ IsHeap(h2)
        /\ \A m \in DOMAIN heap : Children(h2, m) = Children(heap, m)
    BY <1>2, <2>1, HeapFacts, InsertReplaceLemma
  <2>3. Forest(h2, root)
    BY <1>2, <2>1, HeapFacts, ForestReplace DEF ShapeInv
  <2>. HIDE DEF h2
  <2>4. heap' = h2
    BY <2>1 DEF h2
  <2>. QED
    BY <2>1, <2>2, <2>3, <2>4 DEF ShapeInv
<1>4. CASE InsertNode(t)
  <2>1. pc[t] = "insert" /\ insertAllocates(heap, p, x) /\ root' = root
    BY <1>4 DEF InsertNode
  <2>2. PICK n \in Node \ DOMAIN heap : heap' = insertOp(heap, p, x, v, n)
    BY <1>4 DEF InsertNode
  <2>. DEFINE h2 == insertOp(heap, p, x, v, n)
  <2>3. /\ DOMAIN h2 = DOMAIN heap \cup {n} /\ IsHeap(h2) /\ Closed(h2)
        /\ AddsPointer(heap, h2, p, n)
    BY <1>2, <2>1, HeapFacts, InsertNodeLemma
  <2>4. Forest(h2, root)
    BY <1>2, <2>1, HeapFacts, ForestInsert DEF ShapeInv
  <2>. HIDE DEF h2
  <2>5. heap' = h2
    BY <2>2 DEF h2
  <2>6. IsFiniteSet(DOMAIN heap \cup {n})
    BY FS_AddElement DEF ShapeInv
  <2>. QED
    BY <2>1, <2>3, <2>4, <2>5, <2>6 DEF ShapeInv
<1>5. CASE InsertMetadata(t)
  <2>1. /\ heap' = heap /\ pc[t] = "metadata"
        /\ root' = IF p = NULL THEN new[t] ELSE root
    BY <1>5 DEF InsertMetadata
  <2>2. p = NULL => \A m \in DOMAIN heap : Children(heap, m) = {}
    BY <1>1, <2>1 DEF SearchInv, OnWay
  <2>. QED
    BY <2>1, <2>2 DEF ShapeInv, Forest
<1>6. CASE UNCHANGED <<heap, root>>
  BY <1>6 DEF ShapeInv
<1>7. \/ InsertReplace(t) \/ InsertNode(t) \/ InsertMetadata(t)
      \/ UNCHANGED <<heap, root>>
  BY DEF Begin, Call, Work, GetRootAcquire, GetRootRead, TraverseAcquire,
         TraverseEmpty, TraverseStart, AcquireNode, FindNext, AcquireNext,
         ReleasePrev, ReleaseNew, LookupValue, ReleaseP, End, Return
<1>. QED
  BY <1>3, <1>4, <1>5, <1>6, <1>7

----------------------------------------------------------------------------
(* The stack of printDS.                                                   *)

PrintInv ==
    /\ line[main] <= 11 => current = NULL /\ s = << >> /\ out = << >>
    /\ line[main] = 12 => Walk(heap, root, current, s, out)
    /\ line[main] >= 12 => OnceEach(heap, s, out)

TreeInv == MainInv /\ SearchInv /\ ShapeInv

\* While main prints, nobody is in a call.
LEMMA NoCallLemma ==
    ASSUME MainInv, NEW t \in Thread, CallStep(t) \/ InCall(t) \/ ReturnStep(t)
    PROVE  line[main] # 12 /\ line[t] \in CallLines(t)
<1>1. line[t] \in CallLines(t)
  BY CallsLemma
<1>2. line[main] = 12 => line[thread_func] = 3
  BY DEF MainInv, SpawnInv
<1>. QED
  BY <1>1, <1>2, ThreadAssumption DEF CallLines

\* A structure that has a node has a root.
LEMMA RootedLemma ==
    ASSUME TreeInv
    PROVE  /\ IsHeap(heap) /\ Closed(heap) /\ root \in DOMAIN heap \cup {NULL}
           /\ root = NULL => Linked(heap, root) = {}
           /\ Findable(heap, root) /\ Forest(heap, root) /\ IsFiniteSet(DOMAIN heap)
           /\ Linked(heap, root) # {} => root \in DOMAIN heap
BY HeapFacts DEF TreeInv, SearchInv, ShapeInv

LEMMA PrintCall ==
    ASSUME TreeInv, TreeInv', PrintInv, NEW t \in Thread,
           CallStep(t) \/ InCall(t) \/ ReturnStep(t)
    PROVE  PrintInv'
<1>1. line[main] # 12 /\ line[t] \in CallLines(t) /\ line \in [Thread -> 0 .. 14]
  BY NoCallLemma DEF TreeInv, MainInv, LineInv
<1>2. UNCHANGED <<s, out, current>>
  BY DEF CallStep, InCall, ReturnStep, demoVars
<1>3. /\ line'[main] # 12 /\ line'[main] \in Int
      /\ line'[main] <= 11 => line[main] <= 11
      /\ line'[main] >= 12 => line[main] >= 12
  <2>1. line' = line \/ line' = [line EXCEPT ![t] = line[t] + 1]
    BY DEF CallStep, InCall, ReturnStep, NextLine
  <2>. QED
    BY <1>1, <2>1, ThreadAssumption DEF CallLines
<1>4. DOMAIN heap \subseteq DOMAIN heap' /\ IsFiniteSet(DOMAIN heap')
  <2>1. Begin(t) \/ Work(t)
    BY DEF CallStep, InCall, ReturnStep, Work
  <2>. QED
    BY <2>1, ShapeStep DEF TreeInv, ShapeInv
<1>5. line[main] >= 12 => OnceEach(heap', s, out)
  <2>1. /\ Cardinality(DOMAIN heap) <= Cardinality(DOMAIN heap')
        /\ Cardinality(DOMAIN heap) \in Nat /\ Cardinality(DOMAIN heap') \in Nat
    BY <1>4, FS_Subset, FS_CardinalityType DEF TreeInv, ShapeInv
  <2>2. ASSUME line[main] >= 12
        PROVE  OnceEach(heap', s, out)
    <3>1. OnceEach(heap, s, out)
      BY <2>2 DEF PrintInv
    <3>. QED
      BY <2>1, <3>1 DEF OnceEach
  <2>. QED
    BY <2>2
<1>. QED
  BY <1>2, <1>3, <1>5 DEF PrintInv

LEMMA PrintStep ==
    ASSUME TreeInv, TreeInv', PrintInv, MainStep \/ ThreadRelease
    PROVE  PrintInv'
<1>1. line \in [Thread -> 0 .. 14] /\ line[main] \in 0 .. 14 /\ LineInv
      /\ main # thread_func /\ main \in Thread /\ thread_func \in Thread
  BY ThreadAssumption DEF TreeInv, MainInv, LineInv
<1>2. UNCHANGED <<heap, root>>
  BY DEF MainStep, MakeLock, Spawn, Join, FreeLock, PrintRoot, Push, Pop, Printed,
         ThreadRelease, vars, tableVars, templateVars
<1>3. CASE MakeLock \/ Spawn \/ Join \/ FreeLock
  <2>1. line[main] \in 7 .. 10
    BY <1>1, <1>3, AtLemma DEF MakeLock, Spawn, Join, FreeLock
  <2>2. line'[main] = line[main] + 1 /\ UNCHANGED <<s, out, current>>
    BY <1>1, <1>3 DEF MakeLock, Spawn, Join, FreeLock, NextLine, demoVars
  <2>. QED
    BY <2>1, <2>2 DEF PrintInv
<1>4. CASE ThreadRelease
  <2>1. line'[main] = line[main] /\ UNCHANGED <<s, out, current>>
    BY <1>1, <1>4 DEF ThreadRelease, NextLine
  <2>. QED
    BY <1>2, <2>1 DEF PrintInv
<1>5. CASE PrintRoot
  <2>1. line[main] = 11 /\ line'[main] = 12
    BY <1>1, <1>5, AtLemma DEF PrintRoot, NextLine
  <2>2. current' = root /\ s' = << >> /\ out' = << >>
    BY <1>5, <2>1 DEF PrintRoot, initStack, PrintInv
  <2>3. Walk(heap, root, root, << >>, << >>)
    BY RootedLemma, WalkStart
  <2>4. OnceEach(heap, << >>, << >>)
    BY <2>3, RootedLemma, WalkCount
  <2>. QED
    BY <1>2, <2>1, <2>2, <2>3, <2>4 DEF PrintInv
<1>6. CASE Push
  <2>1. line[main] = 12 /\ line'[main] = 12 /\ current # NULL
    BY <1>1, <1>6, AtLemma DEF Push
  <2>2. /\ current' = AheadOf(heap, current) /\ s' = Append(s, current)
        /\ out' = out
    BY <1>6 DEF Push, Ahead, AheadOf
  <2>3. Walk(heap, root, current, s, out)
    BY <2>1 DEF PrintInv
  <2>4. root \in DOMAIN heap
    BY <2>1, <2>3, RootedLemma DEF Walk
  <2>5. Walk(heap, root, AheadOf(heap, current), Append(s, current), out)
    BY <2>1, <2>3, <2>4, RootedLemma, WalkPush
  <2>6. Walk(heap, root, current', s', out')
    BY <2>2, <2>5
  <2>7. OnceEach(heap, s', out')
    BY <2>6, RootedLemma, WalkCount
  <2>. QED
    BY <1>2, <2>1, <2>6, <2>7 DEF PrintInv
<1>7. CASE Pop
  <2>. DEFINE p == s[Len(s)]
  <2>1. line[main] = 12 /\ line'[main] = 12 /\ current = NULL /\ s # << >>
    BY <1>1, <1>7, AtLemma DEF Pop
  <2>2. /\ current' = AfterOf(heap, p) /\ s' = SubSeq(s, 1, Len(s) - 1)
        /\ out' = Append(out, <<heap[p].key, heap[p].value>>)
    BY <1>7 DEF Pop, After, AfterOf
  <2>3. Walk(heap, root, NULL, s, out)
    BY <2>1 DEF PrintInv
  <2>4. root \in DOMAIN heap
    <3>1. s \in Seq(Linked(heap, root))
      BY <2>3 DEF Walk
    <3>2. s[1] \in Linked(heap, root)
      BY <2>1, <3>1
    <3>. QED
      BY <3>2, RootedLemma
  <2>5. Walk(heap, root, AfterOf(heap, p), SubSeq(s, 1, Len(s) - 1),
             Append(out, <<heap[p].key, heap[p].value>>))
    BY <2>1, <2>3, <2>4, RootedLemma, WalkPop
  <2>6. Walk(heap, root, current', s', out')
    BY <2>2, <2>5
  <2>7. OnceEach(heap, s', out')
    BY <2>6, RootedLemma, WalkCount
  <2>. QED
    BY <1>2, <2>1, <2>6, <2>7 DEF PrintInv
<1>8. CASE Printed
  <2>1. line[main] = 12 /\ line'[main] = 13 /\ UNCHANGED <<s, out, current>>
    BY <1>1, <1>8, AtLemma DEF Printed, NextLine, demoVars
  <2>. QED
    BY <1>2, <2>1 DEF PrintInv
<1>. QED
  BY <1>3, <1>4, <1>5, <1>6, <1>7, <1>8 DEF MainStep

LEMMA TreeInvLemma == HashInjective /\ DemoSpec => []TreeInv
<1>. SUFFICES ASSUME HashInjective PROVE DemoSpec => []TreeInv
  OBVIOUS
<1>1. DemoInit => MainInv /\ ShapeInv
  <2>1. DemoInit => DOMAIN heap = {}
    BY DEF DemoInit, Init, TableInit, TemplateInit
  <2>. QED
    BY <2>1, DemoInitLemma, FS_EmptySet DEF ShapeInv, Forest
<1>2. SearchInv /\ ShapeInv /\ [DemoNext]_allVars => ShapeInv'
  <2>. SUFFICES ASSUME SearchInv, ShapeInv, [DemoNext]_allVars PROVE ShapeInv'
    OBVIOUS
  <2>1. [Next]_vars
    BY StepsLemma
  <2>2. CASE UNCHANGED vars
    BY <2>2 DEF vars, tableVars, templateVars, ShapeInv
  <2>3. CASE Next
    BY <2>3, ShapeStep DEF Next
  <2>. QED
    BY <2>1, <2>2, <2>3
<1>3. DemoSpec => []SearchInv
  BY UsesTemplate, SearchInvLemma, PTL
<1>. QED
  BY <1>1, <1>2, <1>3, DemoNextLemma, PTL DEF DemoSpec, TreeInv

LEMMA PrintNext == TreeInv /\ TreeInv' /\ PrintInv /\ [DemoNext]_allVars => PrintInv'
<1>. SUFFICES ASSUME TreeInv, TreeInv', PrintInv, [DemoNext]_allVars PROVE PrintInv'
  OBVIOUS
<1>1. CASE UNCHANGED allVars
  BY <1>1
  DEF allVars, vars, tableVars, templateVars, demoVars, PrintInv
<1>2. CASE DemoNext
  BY <1>2, PrintCall, PrintStep DEF DemoNext, Step
<1>. QED
  BY <1>1, <1>2

LEMMA PrintInvLemma == HashInjective /\ DemoSpec => [](TreeInv /\ PrintInv)
<1>1. DemoInit => PrintInv
  BY ThreadAssumption DEF DemoInit, PrintInv
<1>. QED
  BY <1>1, PrintNext, TreeInvLemma, PTL DEF DemoSpec

\* Whatever the schedule, the addresses and the data structure, printDS stays
\* within the items of its stack if there are no more nodes than items.
THEOREM StackSuffices == HashInjective /\ DemoSpec => []StackBound
<1>1. TreeInv /\ PrintInv => StackBound
  <2>. SUFFICES ASSUME TreeInv, PrintInv PROVE StackBound
    OBVIOUS
  <2>1. line[main] \in Int
    BY ThreadAssumption DEF TreeInv, MainInv, LineInv
  <2>2. Cardinality(DOMAIN heap) \in Nat
    BY FS_CardinalityType DEF TreeInv, ShapeInv
  <2>3. CASE line[main] <= 11
    BY <2>3, ItemsAssumption DEF PrintInv, StackBound
  <2>4. CASE line[main] >= 12
    BY <2>2, <2>4, ItemsAssumption DEF PrintInv, OnceEach, StackBound
  <2>. QED
    BY <2>1, <2>3, <2>4
<1>. QED
  BY <1>1, PrintInvLemma, PTL

----------------------------------------------------------------------------
(* The output.                                                             *)

\* How many statements of t have taken effect.
Done(t) == IF Phase(t) = "done" THEN line[t] ELSE line[t] - 1

\* The map after i statements of main and j of the second thread.
MapAfter(i, j) ==
    [k \in Key |->
        CASE k = 5 /\ i >= 1 -> "five"
          [] k = 7 /\ i >= 2 -> "seven"
          [] k = 6 /\ i >= 3 -> "six"
          [] k = 4 /\ i >= 6 -> "ten"
          [] k = 4 /\ i \in 4 .. 5 -> "four"
          [] k = 8 /\ i >= 5 -> "eight"
          [] k = 10 /\ j >= 1 -> "ten"
          [] OTHER -> NULL]

\* The structure holds what the calls have put there, and main's lookup reads
\* it.
CallsInv ==
    /\ \A t \in Thread : pc[t] # "idle" => req[t] = Program(t)[line[t]]
    /\ Contents(heap, root) = MapAfter(Done(main), Done(thread_func))
    /\ line[main] = 13 /\ Phase(main) = "done" => ret[main] = "ten"
    /\ line[main] = 14 => found = "ten"

\* A step inside a call is its effect on the map, or none: coupling.c's calls
\* are atomic.
LEMMA EffectOfCall ==
    ASSUME HashInjective, SearchInv, NEW t \in Thread, InCall(t)
    PROVE  /\ pc[t] # "idle" /\ pc'[t] # "idle" /\ req' = req
           /\ \A u \in Thread \ {t} : pc'[u] = pc[u] /\ Phase(u)' = Phase(u)
           /\ \/ /\ req[t].op = "insert"
                 /\ Phase(t) = "called" /\ Phase(t)' = "done" /\ ret' = ret
                 /\ Contents(heap, root)' =
                       [Contents(heap, root) EXCEPT ![req[t].key] = req[t].value]
              \/ /\ req[t].op = "lookup"
                 /\ Phase(t) = "called" /\ Phase(t)' = "done"
                 /\ ret' = [ret EXCEPT ![t] = Contents(heap, root)[req[t].key]]
                 /\ Contents(heap, root)' = Contents(heap, root)
              \/ /\ Phase(t)' = Phase(t) /\ ret' = ret
                 /\ Contents(heap, root)' = Contents(heap, root)
<1>1. /\ pc[t] # "idle" /\ pc'[t] # "idle" /\ req' = req
      /\ \A u \in Thread \ {t} : pc'[u] = pc[u] /\ pn'[u] = pn[u]
  <2>1. /\ IInv /\ TraversalInv(t)
        /\ pc[t] # "idle" => req[t].op \in {"insert", "lookup"}
    BY DEF SearchInv, IInv, ThreadInv, TraversalInv, Request
  <2>. QED
    BY <2>1
    DEF InCall, Work, GetRootAcquire, GetRootRead, TraverseAcquire, TraverseEmpty,
        TraverseStart, AcquireNode, FindNext, AcquireNext, ReleasePrev,
        InsertReplace, InsertNode, InsertMetadata, ReleaseNew, LookupValue,
        ReleaseP, End, Return, Goto, Helper, IInv, TypeOK, TemplateTypeOK
<1>2. /\ \A u \in Thread \ {t} : Phase(u)' = Phase(u)
      /\ Phase(t) # "idle" /\ Phase(t)' # "idle"
  BY <1>1 DEF Phase
<1>3. Map!Next \/ MapUnchanged
  <2>1. [Map!Next]_(Map!vars)
    BY RefineLemma DEF InCall, Next
  <2>. QED
    BY <2>1 DEF Map!vars, MapUnchanged, MapPhase
<1>4. \A u \in Thread : MapPhase[u] = Phase(u) /\ MapPhase'[u] = Phase(u)'
  BY DEF MapPhase
<1>5. CASE MapUnchanged
  <2>1. Phase(t)' = Phase(t)
    BY <1>4, <1>5 DEF MapUnchanged
  <2>. QED
    BY <1>1, <1>2, <1>5, <2>1 DEF MapUnchanged
<1>6. CASE Map!Next
  <2>1. PICK u \in Thread : \/ Map!Call(u) \/ Map!Insert(u)
                            \/ Map!Lookup(u) \/ Map!Return(u)
    BY <1>6 DEF Map!Next
  <2>2. /\ Map!Call(u) => MapPhase[u] = "idle" /\ MapPhase'[u] = "called"
        /\ Map!Insert(u) => MapPhase[u] = "called" /\ MapPhase'[u] = "done"
        /\ Map!Lookup(u) => MapPhase[u] = "called" /\ MapPhase'[u] = "done"
        /\ Map!Return(u) => MapPhase[u] = "done" /\ MapPhase'[u] = "idle"
    BY DEF Map!Call, Map!Insert, Map!Lookup, Map!Return, MapPhase
  <2>3. u = t /\ (Map!Insert(t) \/ Map!Lookup(t))
    BY <1>2, <1>4, <2>1, <2>2
  <2>4. Phase(t) = "called" /\ Phase(t)' = "done"
    BY <1>4, <2>2, <2>3
  <2>. QED
    BY <1>1, <1>2, <2>3, <2>4 DEF Map!Insert, Map!Lookup
<1>. QED
  BY <1>3, <1>5, <1>6

\* What the inserts of main.c do to the map, and that nothing else changes it.
LEMMA MapAfterLemma ==
    ASSUME NEW i \in Int, NEW j \in Int
    PROVE  /\ i \in 1 .. 6 =>
                 MapAfter(i, j) = [MapAfter(i - 1, j) EXCEPT
                    ![Program(main)[i].key] = Program(main)[i].value]
           /\ MapAfter(i, 1) = [MapAfter(i, 0) EXCEPT ![10] = "ten"]
           /\ \A m \in Int : i >= 6 /\ m >= 6 => MapAfter(m, j) = MapAfter(i, j)
           /\ \A m \in Int : (j >= 1 <=> m >= 1) => MapAfter(i, m) = MapAfter(i, j)
<1>. DEFINE Value1(k, a, b) ==
               CASE k = 5 /\ a >= 1 -> "five"
                 [] k = 7 /\ a >= 2 -> "seven"
                 [] k = 6 /\ a >= 3 -> "six"
                 [] k = 4 /\ a >= 6 -> "ten"
                 [] k = 4 /\ a \in 4 .. 5 -> "four"
                 [] k = 8 /\ a >= 5 -> "eight"
                 [] k = 10 /\ b >= 1 -> "ten"
                 [] OTHER -> NULL
<1>1. \A a, b \in Int : MapAfter(a, b) = [k \in Key |-> Value1(k, a, b)]
  BY DEF MapAfter
<1>2. ASSUME i \in 1 .. 6
      PROVE  MapAfter(i, j) = [MapAfter(i - 1, j) EXCEPT
                    ![Program(main)[i].key] = Program(main)[i].value]
  <2>. DEFINE r == Program(main)[i]
  <2>1. r = CASE i = 1 -> Insert(5, "five") [] i = 2 -> Insert(7, "seven")
              [] i = 3 -> Insert(6, "six") [] i = 4 -> Insert(4, "four")
              [] i = 5 -> Insert(8, "eight") [] i = 6 -> Insert(4, "ten")
    BY <1>2 DEF Program
  <2>2. /\ r.key = CASE i = 1 -> 5 [] i = 2 -> 7 [] i = 3 -> 6
                      [] i = 4 -> 4 [] i = 5 -> 8 [] i = 6 -> 4
        /\ r.value = CASE i = 1 -> "five" [] i = 2 -> "seven" [] i = 3 -> "six"
                        [] i = 4 -> "four" [] i = 5 -> "eight" [] i = 6 -> "ten"
    BY <1>2, <2>1 DEF Insert
  <2>. HIDE DEF r
  <2>3. \A k \in Key : Value1(k, i, j) = IF k = r.key THEN r.value
                                         ELSE Value1(k, i - 1, j)
    BY <1>2, <2>2, KeyAssumption
  <2>. HIDE DEF Value1
  <2>4. [k \in Key |-> Value1(k, i, j)] =
           [[k \in Key |-> Value1(k, i - 1, j)] EXCEPT ![r.key] = r.value]
    BY <2>3
  <2>. QED
    BY <1>1, <2>4 DEF r
<1>3. MapAfter(i, 1) = [MapAfter(i, 0) EXCEPT ![10] = "ten"]
  <2>1. \A k \in Key : Value1(k, i, 1) = IF k = 10 THEN "ten" ELSE Value1(k, i, 0)
    BY KeyAssumption
  <2>. HIDE DEF Value1
  <2>. QED
    BY <1>1, <2>1
<1>4. ASSUME NEW m \in Int, i >= 6, m >= 6
      PROVE  MapAfter(m, j) = MapAfter(i, j)
  <2>1. \A k \in Key : Value1(k, m, j) = Value1(k, i, j)
    BY <1>4, KeyAssumption
  <2>. HIDE DEF Value1
  <2>. QED
    BY <1>1, <2>1
<1>5. ASSUME NEW m \in Int, j >= 1 <=> m >= 1
      PROVE  MapAfter(i, m) = MapAfter(i, j)
  <2>1. \A k \in Key : Value1(k, i, m) = Value1(k, i, j)
    BY <1>5, KeyAssumption
  <2>. HIDE DEF Value1
  <2>. QED
    BY <1>1, <2>1
<1>. QED
  BY <1>2, <1>3, <1>4, <1>5

\* The calls of main.c.
LEMMA ProgramLemma ==
    /\ \A i \in 1 .. 6 : Program(main)[i].op = "insert"
    /\ Program(main)[13] = Lookup(4)
    /\ Program(thread_func)[1] = Insert(10, "ten")
BY ThreadAssumption DEF Program, Insert, Lookup

\* What is known of the lines.
LEMMA LineFacts ==
    ASSUME MainInv
    PROVE  /\ line[main] \in 1 .. 14 /\ line[thread_func] \in 0 .. 3
           /\ Thread = {main, thread_func} /\ main # thread_func
           /\ \A t \in Thread : pc[t] # "idle" => line[t] \in CallLines(t)
           /\ \A t \in Thread : Phase(t) = "idle" <=> pc[t] = "idle"
           /\ Done(main) \in Int /\ Done(thread_func) \in Int
  BY ThreadAssumption DEF MainInv, LineInv, Phase, Done

LEMMA CallsInit == DemoInit => CallsInv
<1>. SUFFICES ASSUME DemoInit PROVE CallsInv
  OBVIOUS
<1>1. /\ Linked(heap, root) = {} /\ \A t \in Thread : pc[t] = "idle"
      /\ line[main] = 1 /\ line[thread_func] = 0
  BY ThreadAssumption DEF DemoInit, Init, TableInit, TemplateInit, Linked
<1>2. Done(main) = 0 /\ Done(thread_func) = -1
  BY <1>1, ThreadAssumption DEF Done, Phase
<1>3. \A k \in Key : MapAfter(0, -1)[k] = NULL
  BY DEF MapAfter
<1>4. Contents(heap, root) = MapAfter(0, -1)
  BY <1>1, <1>3 DEF Contents, MapAfter
<1>. QED
  BY <1>1, <1>2, <1>4 DEF CallsInv

\* A call is made.
LEMMA CallsBegin ==
    ASSUME TreeInv, CallsInv, NEW t \in Thread, CallStep(t)
    PROVE  CallsInv'
<1>1. /\ pc[t] = "idle" /\ pc' = [pc EXCEPT ![t] = "get_root"]
      /\ pc \in [Thread -> Labels] /\ req \in [Thread -> Request \cup {NoRequest}]
      /\ \E r \in Request : req' = [req EXCEPT ![t] = r]
      /\ req'[t] = Program(t)[line[t]] /\ pn' = [pn EXCEPT ![t] = NoPn]
      /\ UNCHANGED <<line, heap, root, ret, found>>
  BY DEF CallStep, Begin, Call, Goto, demoVars, TreeInv, SearchInv, IInv, TypeOK,
         TemplateTypeOK
<1>2. /\ Phase(t) = "idle" /\ Phase(t)' = "called"
      /\ \A u \in Thread \ {t} : Phase(u)' = Phase(u)
  BY <1>1 DEF Phase
<1>3. \A u \in Thread : Done(u)' = Done(u)
  BY <1>1, <1>2 DEF Done
<1>4. \A u \in Thread : pc'[u] # "idle" => req'[u] = Program(u)[line'[u]]
  BY <1>1 DEF CallsInv
<1>5. line'[main] = 13 /\ Phase(main)' = "done" => ret'[main] = "ten"
  BY <1>1, <1>2, ThreadAssumption DEF CallsInv
<1>6. Contents(heap, root)' = MapAfter(Done(main), Done(thread_func))'
  <2>1. MapAfter(Done(main), Done(thread_func))' = MapAfter(Done(main), Done(thread_func))
    BY <1>3, ThreadAssumption DEF MapAfter
  <2>. QED
    BY <1>1, <2>1 DEF CallsInv
<1>. QED
  BY <1>1, <1>4, <1>5, <1>6 DEF CallsInv

\* A call takes effect, or moves.
LEMMA CallsInside ==
    ASSUME HashInjective, TreeInv, CallsInv, NEW t \in Thread, InCall(t)
    PROVE  CallsInv'
<1>. DEFINE map == Contents(heap, root)
            i == Done(main)
            j == Done(thread_func)
<1>1. /\ pc[t] # "idle" /\ pc'[t] # "idle" /\ req' = req
      /\ \A u \in Thread \ {t} : pc'[u] = pc[u] /\ Phase(u)' = Phase(u)
      /\ \/ /\ req[t].op = "insert"
            /\ Phase(t) = "called" /\ Phase(t)' = "done" /\ ret' = ret
            /\ map' = [map EXCEPT ![req[t].key] = req[t].value]
         \/ /\ req[t].op = "lookup"
            /\ Phase(t) = "called" /\ Phase(t)' = "done"
            /\ ret' = [ret EXCEPT ![t] = map[req[t].key]] /\ map' = map
         \/ Phase(t)' = Phase(t) /\ ret' = ret /\ map' = map
  BY EffectOfCall DEF TreeInv
<1>2. line' = line /\ found' = found /\ ret \in [Thread -> Value \cup {NULL}]
  BY DEF InCall, demoVars, TreeInv, SearchInv, IInv, TypeOK, TemplateTypeOK
<1>3. /\ line[main] \in 1 .. 14 /\ line[thread_func] \in 0 .. 3
      /\ Thread = {main, thread_func} /\ main # thread_func
      /\ line[t] \in CallLines(t) /\ i \in Int /\ j \in Int
  BY <1>1, LineFacts DEF TreeInv
<1>4. req[t] = Program(t)[line[t]] /\ map = MapAfter(i, j)
  BY <1>1 DEF CallsInv
<1>5. \A u \in Thread : pc'[u] # "idle" => req'[u] = Program(u)[line'[u]]
  BY <1>1, <1>2 DEF CallsInv
<1>6. \A u \in Thread : Phase(u)' = Phase(u) => Done(u)' = Done(u)
  BY <1>2 DEF Done
<1>7. Phase(t) = "called" /\ Phase(t)' = "done" =>
         Done(t) = line[t] - 1 /\ Done(t)' = line[t]
  BY <1>2 DEF Done
<1>. HIDE DEF map, i, j
<1>8. MapAfter(Done(main), Done(thread_func))' = MapAfter(i', j')
  BY DEF MapAfter, i, j
<1>9. CASE Phase(t)' = Phase(t) /\ ret' = ret /\ map' = map
  <2>1. i' = i /\ j' = j
    BY <1>1, <1>3, <1>6, <1>9 DEF i, j
  <2>2. \A u \in Thread : Phase(u)' = Phase(u)
    BY <1>1, <1>9
  <2>. QED
    BY <1>2, <1>3, <1>4, <1>5, <1>8, <1>9, <2>1, <2>2 DEF CallsInv, map
<1>10. CASE /\ req[t].op = "insert" /\ Phase(t) = "called" /\ Phase(t)' = "done"
            /\ ret' = ret /\ map' = [map EXCEPT ![req[t].key] = req[t].value]
  <2>1. line[t] # 13
    BY <1>3, <1>4, <1>10, ProgramLemma DEF Lookup, CallLines
  <2>2. map' = MapAfter(i', j')
    <3>1. CASE t = main
      <4>1. i' \in 1 .. 6 /\ i = i' - 1 /\ i' = line[main] /\ j' = j
        BY <1>1, <1>3, <1>6, <1>7, <1>10, <2>1, <3>1 DEF i, j, CallLines
      <4>2. MapAfter(i', j) = [MapAfter(i' - 1, j) EXCEPT
               ![Program(main)[i'].key] = Program(main)[i'].value]
        BY <1>3, <4>1, MapAfterLemma
      <4>3. req[t] = Program(main)[i']
        BY <1>4, <3>1, <4>1
      <4>. QED
        BY <1>4, <1>10, <4>1, <4>2, <4>3
    <3>2. CASE t = thread_func
      <4>1. i' = i /\ j = 0 /\ j' = 1 /\ line[t] = 1
        BY <1>1, <1>3, <1>6, <1>7, <1>10, <3>2 DEF i, j, CallLines
      <4>2. req[t].key = 10 /\ req[t].value = "ten"
        BY <1>4, <3>2, <4>1, ProgramLemma DEF Insert
      <4>. QED
        BY <1>3, <1>4, <1>10, <4>1, <4>2, MapAfterLemma
    <3>. QED
      BY <1>3, <3>1, <3>2
  <2>3. line'[main] = 13 /\ Phase(main)' = "done" => ret'[main] = "ten"
    BY <1>1, <1>2, <1>3, <1>10, <2>1 DEF CallsInv
  <2>. QED
    BY <1>2, <1>5, <1>8, <2>2, <2>3 DEF CallsInv, map
<1>11. CASE /\ req[t].op = "lookup" /\ Phase(t) = "called" /\ Phase(t)' = "done"
            /\ ret' = [ret EXCEPT ![t] = map[req[t].key]] /\ map' = map
  <2>1. t = main /\ line[t] = 13
    BY <1>3, <1>4, <1>11, ProgramLemma DEF Insert, CallLines
  <2>2. i = 12 /\ i' = 13 /\ j' = j /\ req[t].key = 4
    BY <1>1, <1>3, <1>4, <1>6, <1>7, <1>11, <2>1, ProgramLemma DEF i, j, Lookup
  <2>3. MapAfter(13, j) = MapAfter(12, j) /\ MapAfter(12, j)[4] = "ten"
    BY <1>3, MapAfterLemma, DataAssumption DEF MapAfter
  <2>4. ret'[main] = "ten"
    BY <1>2, <1>3, <1>4, <1>11, <2>1, <2>2, <2>3
  <2>. QED
    BY <1>2, <1>4, <1>5, <1>8, <1>11, <2>1, <2>2, <2>3, <2>4 DEF CallsInv, map
<1>. QED
  BY <1>1, <1>9, <1>10, <1>11

\* A call returns.
LEMMA CallsReturn ==
    ASSUME TreeInv, CallsInv, NEW t \in Thread, ReturnStep(t)
    PROVE  CallsInv'
<1>1. /\ pc[t] = "return" /\ pc' = [pc EXCEPT ![t] = "idle"]
      /\ pc \in [Thread -> Labels] /\ req \in [Thread -> Request \cup {NoRequest}]
      /\ req' = [req EXCEPT ![t] = NoRequest] /\ pn' = [pn EXCEPT ![t] = NoPn]
      /\ line' = [line EXCEPT ![t] = line[t] + 1] /\ line \in [Thread -> 0 .. 14]
      /\ found' = IF At(t) = "lookup" THEN ret[t] ELSE found
      /\ UNCHANGED <<heap, root>>
  BY DEF ReturnStep, End, Return, Goto, NextLine, TreeInv, MainInv, LineInv,
         SearchInv, IInv, TypeOK, TemplateTypeOK
<1>2. /\ line[main] \in 1 .. 14 /\ line[thread_func] \in 0 .. 3
      /\ Thread = {main, thread_func} /\ main # thread_func
      /\ line[t] \in CallLines(t)
  BY <1>1, LineFacts DEF TreeInv
<1>3. /\ Phase(t) = "done" /\ Phase(t)' = "idle"
      /\ \A u \in Thread \ {t} : Phase(u)' = Phase(u) /\ line'[u] = line[u]
  BY <1>1 DEF Phase
<1>4. \A u \in Thread : Done(u)' = Done(u)
  BY <1>1, <1>2, <1>3 DEF Done
<1>5. \A u \in Thread : pc'[u] # "idle" => req'[u] = Program(u)[line'[u]]
  BY <1>1 DEF CallsInv
<1>6. Contents(heap, root)' = MapAfter(Done(main), Done(thread_func))'
  <2>1. MapAfter(Done(main), Done(thread_func))' = MapAfter(Done(main), Done(thread_func))
    BY <1>2, <1>4 DEF MapAfter
  <2>. QED
    BY <1>1, <2>1 DEF CallsInv
<1>7. line'[main] = 14 => found' = "ten"
  <2>. SUFFICES ASSUME line'[main] = 14 PROVE found' = "ten"
    OBVIOUS
  <2>1. CASE t = main
    <3>1. line[main] = 13
      BY <1>1, <1>2, <2>1
    <3>2. At(main) = "lookup"
      BY <3>1, ProgramLemma DEF At, Lookup
    <3>. QED
      BY <1>1, <1>3, <2>1, <3>1, <3>2 DEF CallsInv
  <2>2. CASE t = thread_func
    <3>1. line[t] = 1 /\ line[main] = 14
      BY <1>2, <1>3, <2>2 DEF CallLines
    <3>2. At(t) = "insert"
      BY <2>2, <3>1, ProgramLemma DEF At, Insert
    <3>. QED
      BY <1>1, <3>1, <3>2 DEF CallsInv
  <2>. QED
    BY <1>2, <2>1, <2>2
<1>8. line'[main] = 13 /\ Phase(main)' = "done" => ret'[main] = "ten"
  <2>. SUFFICES ASSUME line'[main] = 13, Phase(main)' = "done" PROVE ret'[main] = "ten"
    OBVIOUS
  <2>1. t # main
    BY <1>3
  <2>2. ret'[main] = ret[main]
    BY <1>2, <2>1
    DEF ReturnStep, End, Return, TreeInv, SearchInv, IInv, TypeOK, TemplateTypeOK
  <2>. QED
    BY <1>2, <1>3, <2>1, <2>2 DEF CallsInv
<1>. QED
  BY <1>5, <1>6, <1>7, <1>8 DEF CallsInv

\* The other statements leave the structure alone.
LEMMA CallsOutside ==
    ASSUME TreeInv, CallsInv, MainStep \/ ThreadRelease
    PROVE  CallsInv'
<1>. DEFINE i == Done(main)
            j == Done(thread_func)
<1>1. UNCHANGED <<pc, req, pn, heap, root, ret, found>>
  BY DEF MainStep, MakeLock, Spawn, Join, FreeLock, PrintRoot, Push, Pop, Printed,
         ThreadRelease, vars, tableVars, templateVars, demoVars
<1>2. /\ line[main] \in 1 .. 14 /\ line[thread_func] \in 0 .. 3 /\ LineInv
      /\ Thread = {main, thread_func} /\ main # thread_func
      /\ \A t \in Thread : pc[t] # "idle" => line[t] \in CallLines(t)
      /\ \A t \in Thread : Phase(t) = "idle" <=> pc[t] = "idle"
      /\ i \in Int /\ j \in Int
  BY LineFacts DEF TreeInv, MainInv
<1>3. \A t \in Thread : Phase(t)' = Phase(t)
  BY <1>1 DEF Phase
<1>4. \/ line' = line
      \/ /\ line[main] \in 7 .. 12 /\ line'[main] = line[main] + 1
         /\ \/ line'[thread_func] = line[thread_func]
            \/ line[thread_func] = 0 /\ line'[thread_func] = 1
      \/ /\ line'[main] = line[main]
         /\ line[thread_func] = 2 /\ line'[thread_func] = 3
  <2>. USE <1>2, AtLemma DEF LineInv, NextLine
  <2>1. CASE MakeLock \/ Join \/ FreeLock \/ PrintRoot \/ Printed
    BY <2>1 DEF MakeLock, Join, FreeLock, PrintRoot, Printed
  <2>2. CASE Spawn
    <3>1. line[main] = 8 /\ line[thread_func] = 0
      BY <2>2 DEF Spawn, TreeInv, MainInv, SpawnInv
    <3>. QED
      BY <2>2, <3>1 DEF Spawn
  <2>3. CASE Push \/ Pop
    BY <2>3 DEF Push, Pop
  <2>4. CASE ThreadRelease
    BY <2>4 DEF ThreadRelease
  <2>. QED
    BY <2>1, <2>2, <2>3, <2>4 DEF MainStep
<1>5. MapAfter(Done(main), Done(thread_func))' = MapAfter(i', j')
  BY DEF MapAfter
<1>6. MapAfter(i', j') = MapAfter(i, j)
  <2>1. CASE line' = line
    BY <1>2, <1>3, <2>1 DEF Done
  <2>2. CASE /\ line[main] \in 7 .. 12 /\ line'[main] = line[main] + 1
             /\ \/ line'[thread_func] = line[thread_func]
                \/ line[thread_func] = 0 /\ line'[thread_func] = 1
    <3>1. Phase(main) = "idle"
      BY <1>2, <2>2 DEF CallLines
    <3>2. line[thread_func] = 0 => Phase(thread_func) = "idle"
      BY <1>2 DEF CallLines
    <3>3. i \in Int /\ i' \in Int /\ i >= 6 /\ i' >= 6
      BY <1>2, <1>3, <2>2, <3>1 DEF Done
    <3>4. j \in Int /\ j' \in Int /\ (j >= 1 <=> j' >= 1)
      BY <1>2, <1>3, <2>2, <3>2 DEF Done
    <3>. HIDE DEF i, j
    <3>5. MapAfter(i', j') = MapAfter(i, j') /\ MapAfter(i, j') = MapAfter(i, j)
      BY <3>3, <3>4, MapAfterLemma
    <3>. QED
      BY <3>5
  <2>3. CASE /\ line'[main] = line[main]
             /\ line[thread_func] = 2 /\ line'[thread_func] = 3
    <3>1. Phase(thread_func) = "idle"
      BY <1>2, <2>3 DEF CallLines
    <3>2. i' = i /\ j \in Int /\ j' \in Int /\ (j >= 1 <=> j' >= 1)
      BY <1>2, <1>3, <2>3, <3>1 DEF Done
    <3>. HIDE DEF i, j
    <3>. QED
      BY <1>2, <3>2, MapAfterLemma DEF i
  <2>. QED
    BY <1>4, <2>1, <2>2, <2>3
<1>7. Contents(heap, root)' = MapAfter(Done(main), Done(thread_func))'
  BY <1>1, <1>5, <1>6 DEF CallsInv
<1>8. \A t \in Thread : pc'[t] # "idle" => line'[t] = line[t]
  BY <1>1, <1>2, <1>4 DEF CallLines, LineInv
<1>9. \A t \in Thread : pc'[t] # "idle" => req'[t] = Program(t)[line'[t]]
  BY <1>1, <1>8 DEF CallsInv
<1>10. line'[main] = 13 /\ Phase(main)' = "done" => ret'[main] = "ten"
  <2>. SUFFICES ASSUME line'[main] = 13, Phase(main)' = "done" PROVE ret'[main] = "ten"
    OBVIOUS
  <2>1. pc'[main] # "idle"
    BY <1>1, <1>2, <1>3
  <2>. QED
    BY <1>1, <1>2, <1>3, <1>8, <2>1 DEF CallsInv
<1>11. line'[main] = 14 => found' = "ten"
  BY <1>1, <1>4, <1>2 DEF CallsInv
<1>. QED
  BY <1>7, <1>9, <1>10, <1>11 DEF CallsInv

LEMMA CallsNext ==
    HashInjective /\ TreeInv /\ CallsInv /\ [DemoNext]_allVars => CallsInv'
<1>. SUFFICES ASSUME HashInjective, TreeInv, CallsInv, [DemoNext]_allVars
              PROVE  CallsInv'
  OBVIOUS
<1>1. CASE UNCHANGED allVars
  BY <1>1
  DEF allVars, vars, tableVars, templateVars, demoVars, CallsInv, Done, Phase, MapAfter
<1>2. CASE DemoNext
  BY <1>2, CallsBegin, CallsInside, CallsReturn, CallsOutside DEF DemoNext, Step
<1>. QED
  BY <1>1, <1>2

\* The keys of main.c, and when printDS prints each: a list from its end, a
\* tree in ascending order.
Keys == {4, 5, 6, 7, 8, 10}
Rank(k) == IF k <= 8 THEN k - 3 ELSE 6
Place(k) == IF DS = "list" THEN 7 - Rank(k) ELSE Rank(k)

LEMMA PlaceLemma ==
    /\ \A k \in Keys : Place(k) \in 1 .. 6 /\ Rank(k) \in 1 .. 6
    /\ \A k \in Keys : Rank(k) = IF DS = "list" THEN 7 - Place(k) ELSE Place(k)
    /\ \A j, k \in Keys : Precedes(j, k) <=> Place(j) < Place(k)
    /\ \A j \in 1 .. 6 : \E k \in Keys : Place(k) = j
<1>1. \A k \in Keys : Rank(k) \in 1 .. 6 /\ Place(k) \in 1 .. 6
  BY DEF Keys, Rank, Place
<1>2. \A j, k \in Keys : Precedes(j, k) <=> Place(j) < Place(k)
  BY DEF Keys, Rank, Place, Precedes
<1>3. \A k \in Keys : Rank(k) = IF DS = "list" THEN 7 - Place(k) ELSE Place(k)
  BY <1>1 DEF Place
<1>4. ASSUME NEW j \in 1 .. 6
      PROVE  \E k \in Keys : Place(k) = j
  <2>. DEFINE r == IF DS = "list" THEN 7 - j ELSE j
              k == IF r = 6 THEN 10 ELSE r + 3
  <2>1. k \in Keys /\ Rank(k) = r
    BY DEF Keys, Rank
  <2>2. Place(k) = j
    BY <2>1 DEF Place
  <2>. QED
    BY <2>1, <2>2
<1>. QED
  BY <1>1, <1>2, <1>3, <1>4

\* An ascending sequence of numbers from 1 to 6 that skips none counts.
LEMMA CountsLemma ==
    ASSUME NEW N \in Nat, NEW g \in [1 .. N -> 1 .. 6],
           \A i, j \in 1 .. N : i < j => g[i] < g[j],
           \A i \in 1 .. N, p \in 1 .. 6 : p < g[i] => \E j \in 1 .. N : g[j] = p
    PROVE  N <= 6 /\ \A i \in 1 .. N : g[i] = i
<1>1. ASSUME NEW i \in 1 .. N, \A j \in 1 .. N : j < i => g[j] = j, i <= 6
      PROVE  g[i] = i
  <2>1. g[i] >= i
    <3>1. CASE i = 1
      BY <3>1
    <3>2. CASE i # 1
      <4>1. i - 1 \in 1 .. N /\ i - 1 < i
        BY <3>2
      <4>2. g[i - 1] = i - 1 /\ g[i - 1] < g[i]
        BY <1>1, <4>1
      <4>. QED
        BY <4>2
    <3>. QED
      BY <3>1, <3>2
  <2>2. ASSUME g[i] > i
        PROVE  FALSE
    <3>1. PICK j \in 1 .. N : g[j] = i
      BY <1>1, <2>2
    <3>2. j < i \/ j = i \/ i < j
      OBVIOUS
    <3>3. j < i => g[j] = j
      BY <1>1
    <3>4. i < j => g[i] < g[j]
      OBVIOUS
    <3>5. g[i] \in Int /\ g[j] \in Int
      OBVIOUS
    <3>. QED
      BY <2>2, <3>1, <3>2, <3>3, <3>4, <3>5
  <2>. QED
    BY <2>1, <2>2
<1>2. 1 \in 1 .. N => g[1] = 1
  BY <1>1
<1>3. 2 \in 1 .. N => g[2] = 2
  BY <1>1, <1>2
<1>4. 3 \in 1 .. N => g[3] = 3
  BY <1>1, <1>2, <1>3
<1>5. 4 \in 1 .. N => g[4] = 4
  BY <1>1, <1>2, <1>3, <1>4
<1>6. 5 \in 1 .. N => g[5] = 5
  BY <1>1, <1>2, <1>3, <1>4, <1>5
<1>7. 6 \in 1 .. N => g[6] = 6
  BY <1>1, <1>2, <1>3, <1>4, <1>5, <1>6
<1>8. 7 \notin 1 .. N
  <2>1. 7 \in 1 .. N => 6 \in 1 .. N /\ g[6] < g[7] /\ g[7] <= 6
    OBVIOUS
  <2>. QED
    BY <1>7, <2>1
<1>9. N <= 6
  BY <1>8
<1>. QED
  BY <1>2, <1>3, <1>4, <1>5, <1>6, <1>7, <1>9

\* What the nodes hold after all inserts.
LEMMA NodesHold ==
    ASSUME TreeInv, NEW i \in Int, NEW j \in Int, i >= 6, j >= 1,
           Contents(heap, root) = MapAfter(i, j)
    PROVE  /\ \A n \in Linked(heap, root) :
                 /\ heap[n].key \in Keys
                 /\ Final[Rank(heap[n].key)] = <<heap[n].key, heap[n].value>>
           /\ \A k \in Keys : \E n \in Linked(heap, root) : heap[n].key = k
<1>1. ASSUME NEW n \in Linked(heap, root)
      PROVE  /\ heap[n].key \in Keys
             /\ Final[Rank(heap[n].key)] = <<heap[n].key, heap[n].value>>
  <2>. DEFINE k == heap[n].key
              v == heap[n].value
  <2>1. k \in Key /\ v \in Value
    BY RootedLemma, DSAssumption
    DEF Linked, IsHeap, NodeFields, List!NodeFields, Tree!NodeFields
  <2>2. MapAfter(i, j)[k] = v
    BY <2>1, RootedLemma, FindableLemma, ContentsLemma
  <2>. HIDE DEF k, v
  <2>3. v # NULL
    BY <2>1, DataAssumption
  <2>4. <<k, v>> \in {<<4, "ten">>, <<5, "five">>, <<6, "six">>, <<7, "seven">>,
                      <<8, "eight">>, <<10, "ten">>}
    BY <2>1, <2>2, <2>3 DEF MapAfter
  <2>5. k \in Keys /\ Final[Rank(k)] = <<k, v>>
    BY <2>4 DEF Keys, Final, Rank
  <2>. QED
    BY <2>5 DEF k, v
<1>2. ASSUME NEW k \in Keys
      PROVE  \E n \in Linked(heap, root) : heap[n].key = k
  <2>1. k \in Key
    BY DataAssumption DEF Keys
  <2>2. MapAfter(i, j)[k] \in {"ten", "five", "six", "seven", "eight"}
    BY <2>1 DEF MapAfter, Keys
  <2>3. MapAfter(i, j)[k] # NULL
    BY <2>2, DataAssumption
  <2>. QED
    BY <2>1, <2>3 DEF Contents
<1>. QED
  BY <1>1, <1>2

\* What printDS has printed of them, in order.
Printout(o) ==
    /\ Len(o) <= Len(Final)
    /\ \A i \in 1 .. Len(o) :
          o[i] = Final[IF DS = "list" THEN Len(Final) + 1 - i ELSE i]

LEMMA WalkPrints ==
    ASSUME TreeInv, NEW i \in Int, NEW j \in Int, i >= 6, j >= 1,
           Contents(heap, root) = MapAfter(i, j),
           NEW cur, NEW st, NEW o, Walk(heap, root, cur, st, o)
    PROVE  /\ Printout(o)
           /\ cur = NULL /\ st = << >> => Len(o) = Len(Final)
<1>. DEFINE L == Linked(heap, root)
            N == Len(o)
            g == [a \in 1 .. N |-> Place(o[a][1])]
<1>1. /\ o \in Seq(Key \X Value) /\ N \in Nat /\ DOMAIN o = 1 .. N
      /\ \A a \in 1 .. N : o[a] = <<o[a][1], o[a][2]>>
  <2>1. o \in Seq(Key \X Value)
    BY DEF Walk
  <2>. QED
    BY <2>1
<1>2. ASSUME NEW a \in 1 .. N
      PROVE  o[a][1] \in Keys /\ o[a] = Final[Rank(o[a][1])]
  <2>1. PICK n \in L : o[a][1] = heap[n].key /\ o[a][2] = heap[n].value
    BY <1>1 DEF Walk
  <2>2. heap[n].key \in Keys /\ Final[Rank(heap[n].key)] = <<heap[n].key, heap[n].value>>
    BY <2>1, NodesHold
  <2>. QED
    BY <1>1, <2>1, <2>2
<1>3. \A k \in Keys : \E n \in L : heap[n].key = k
  BY NodesHold
<1>4. g \in [1 .. N -> 1 .. 6] /\ \A a \in 1 .. N : g[a] = Place(o[a][1])
  BY <1>2, PlaceLemma
<1>. HIDE DEF g, L
<1>5. \A a, b \in 1 .. N : a < b => g[a] < g[b]
  <2>1. \A a, b \in 1 .. N : a < b => Precedes(o[a][1], o[b][1])
    BY <1>1 DEF Walk
  <2>. QED
    BY <1>2, <1>4, <2>1, PlaceLemma
<1>6. ASSUME NEW a \in 1 .. N, NEW p \in 1 .. 6, p < g[a]
      PROVE  \E b \in 1 .. N : g[b] = p
  <2>1. PICK k \in Keys : Place(k) = p
    BY PlaceLemma
  <2>2. Precedes(k, o[a][1])
    BY <1>2, <1>4, <1>6, <2>1, PlaceLemma
  <2>3. PICK n \in Linked(heap, root) : heap[n].key = k
    BY <1>3 DEF L
  <2>4. \E b \in DOMAIN o : o[b][1] = heap[n].key
    <3>1. a \in DOMAIN o /\ Precedes(heap[n].key, o[a][1])
      BY <1>1, <2>2, <2>3
    <3>2. IsHeap(heap)
      BY RootedLemma
    <3>. QED
      BY <3>1, <3>2, WalkPrefix
  <2>. QED
    BY <1>1, <1>4, <2>1, <2>3, <2>4
<1>7. N <= 6 /\ \A a \in 1 .. N : g[a] = a
  <2>. HIDE DEF N
  <2>. QED
    BY <1>1, <1>4, <1>5, <1>6, CountsLemma
<1>8. Len(Final) = 6
  BY DEF Final
<1>9. Printout(o)
  <2>1. ASSUME NEW a \in 1 .. N
        PROVE  o[a] = Final[IF DS = "list" THEN 7 - a ELSE a]
    <3>1. Place(o[a][1]) = a /\ o[a][1] \in Keys /\ o[a] = Final[Rank(o[a][1])]
      BY <1>2, <1>4, <1>7
    <3>2. Rank(o[a][1]) = IF DS = "list" THEN 7 - a ELSE a
      BY <3>1, PlaceLemma
    <3>. QED
      BY <3>1, <3>2
  <2>2. Len(Final) + 1 = 7
    BY <1>8
  <2>. QED
    BY <1>7, <1>8, <2>1, <2>2 DEF Printout
<1>10. ASSUME cur = NULL, st = << >>
       PROVE  N = 6
  <2>1. PICK k \in Keys : Place(k) = 6
    BY PlaceLemma
  <2>2. PICK n \in Linked(heap, root) : heap[n].key = k
    BY <1>3 DEF L
  <2>3. \E a \in DOMAIN o : o[a][1] = heap[n].key
    BY <1>10, <2>2 DEF Walk
  <2>4. PICK a \in 1 .. N : g[a] = 6
    BY <1>1, <1>4, <2>1, <2>2, <2>3
  <2>. QED
    BY <1>1, <1>7, <2>4
<1>. QED
  BY <1>8, <1>9, <1>10

\* While main prints, all inserts have taken effect.
LEMMA AllInserted ==
    ASSUME TreeInv, CallsInv, line[main] = 12
    PROVE  \E i, j \in Int : /\ i >= 6 /\ j >= 1
                            /\ Contents(heap, root) = MapAfter(i, j)
<1>1. /\ Thread = {main, thread_func}
      /\ \A t \in Thread : pc[t] # "idle" => line[t] \in CallLines(t)
      /\ \A t \in Thread : Phase(t) = "idle" <=> pc[t] = "idle"
      /\ main # thread_func /\ line[thread_func] = 3
  BY LineFacts DEF TreeInv, MainInv, SpawnInv
<1>2. Phase(main) = "idle" /\ Phase(thread_func) = "idle"
  BY <1>1 DEF CallLines
<1>3. Done(main) = 11 /\ Done(thread_func) = 2
  BY <1>1, <1>2 DEF Done
<1>. QED
  BY <1>3 DEF CallsInv

\* Once printDS has returned, everything is out.
PrintedInv == line[main] >= 13 => Printout(out) /\ Len(out) = Len(Final)

LEMMA PrintedNext ==
    TreeInv /\ CallsInv /\ PrintInv /\ PrintedInv /\ [DemoNext]_allVars => PrintedInv'
<1>. SUFFICES ASSUME TreeInv, CallsInv, PrintInv, PrintedInv, [DemoNext]_allVars
              PROVE  PrintedInv'
  OBVIOUS
<1>1. CASE out' = out /\ (line'[main] >= 13 => line[main] >= 13)
  BY <1>1 DEF PrintedInv, Printout
<1>2. CASE Printed
  <2>1. /\ line[main] = 12 /\ out' = out /\ current = NULL /\ s = << >>
        /\ Walk(heap, root, current, s, out)
    BY <1>2, AtLemma DEF Printed, demoVars, PrintInv, TreeInv, MainInv
  <2>2. PICK i \in Int, j \in Int : /\ i >= 6 /\ j >= 1
                                   /\ Contents(heap, root) = MapAfter(i, j)
    BY <2>1, AllInserted
  <2>3. Printout(out) /\ Len(out) = Len(Final)
    BY <2>1, <2>2, WalkPrints
  <2>. QED
    BY <2>1, <2>3 DEF PrintedInv, Printout
<1>3. CASE DemoNext /\ ~Printed
  <2>1. PICK t \in Thread : Step(t)
    BY <1>3 DEF DemoNext
  <2>2. /\ line[main] \in 1 .. 14 /\ line[thread_func] \in 0 .. 3 /\ LineInv
        /\ Thread = {main, thread_func} /\ main # thread_func
    BY LineFacts DEF TreeInv, MainInv
  <2>3. CASE CallStep(t) \/ InCall(t) \/ ReturnStep(t)
    <3>1. out' = out /\ (line' = line \/ line' = [line EXCEPT ![t] = line[t] + 1])
      BY <2>3 DEF CallStep, InCall, ReturnStep, NextLine, demoVars
    <3>2. line[main] # 12
      BY <2>3, NoCallLemma DEF TreeInv
    <3>3. line'[main] >= 13 => line[main] >= 13
      BY <2>2, <3>1, <3>2 DEF LineInv
    <3>. QED
      BY <1>1, <3>1, <3>3
  <2>4. CASE MakeLock \/ Spawn \/ Join \/ FreeLock \/ PrintRoot \/ ThreadRelease
    <3>1. out' = out /\ (line'[main] >= 13 => line[main] >= 13)
      BY <2>2, <2>4, AtLemma
      DEF MakeLock, Spawn, Join, FreeLock, PrintRoot, ThreadRelease, NextLine,
          demoVars, LineInv
    <3>. QED
      BY <1>1, <3>1
  <2>5. CASE Push \/ Pop
    <3>1. line[main] = 12 /\ line' = line
      BY <2>2, <2>5, AtLemma DEF Push, Pop
    <3>. QED
      BY <3>1 DEF PrintedInv
  <2>. QED
    BY <1>3, <2>1, <2>3, <2>4, <2>5 DEF Step, MainStep
<1>. QED
  BY <1>1, <1>2, <1>3 DEF allVars, demoVars

\* Whatever the schedule, the addresses and the data structure, printDS prints
\* the same keys and values in order, and the lookup finds what was written last.
THEOREM OutputRight == HashInjective /\ DemoSpec => []Output
<1>. SUFFICES ASSUME HashInjective PROVE DemoSpec => []Output
  OBVIOUS
<1>1. DemoSpec => [](TreeInv /\ PrintInv)
  BY PrintInvLemma
<1>2. DemoInit => CallsInv /\ PrintedInv
  <2>1. DemoInit => line[main] = 1
    BY ThreadAssumption DEF DemoInit
  <2>. QED
    BY <2>1, CallsInit DEF PrintedInv
<1>3. TreeInv /\ PrintInv /\ CallsInv /\ PrintedInv /\ [DemoNext]_allVars =>
         CallsInv' /\ PrintedInv'
  BY CallsNext, PrintedNext
<1>4. TreeInv /\ PrintInv /\ CallsInv /\ PrintedInv => Output
  <2>. SUFFICES ASSUME TreeInv, PrintInv, CallsInv, PrintedInv PROVE Output
    OBVIOUS
  <2>1. line[main] \in 1 .. 14
    BY LineFacts DEF TreeInv
  <2>2. Printout(out)
    <3>1. CASE line[main] <= 11
      BY <3>1 DEF PrintInv, Printout, Final
    <3>2. CASE line[main] = 12
      <4>1. PICK i \in Int, j \in Int : /\ i >= 6 /\ j >= 1
                                       /\ Contents(heap, root) = MapAfter(i, j)
        BY <3>2, AllInserted
      <4>2. Walk(heap, root, current, s, out)
        BY <3>2 DEF PrintInv
      <4>. QED
        BY <4>1, <4>2, WalkPrints
    <3>3. CASE line[main] >= 13
      BY <3>3 DEF PrintedInv
    <3>. QED
      BY <2>1, <3>1, <3>2, <3>3
  <2>3. /\ At(main) \in {"lookup", "return"} => line[main] >= 13
        /\ At(main) = "return" => line[main] = 14
    BY <2>1, ThreadAssumption DEF At, Program, Insert, Lookup, Do
  <2>4. At(main) \in {"lookup", "return"} => Len(out) = Len(Final)
    BY <2>3 DEF PrintedInv
  <2>5. At(main) = "return" => found = "ten"
    BY <2>3 DEF CallsInv
  <2>. QED
    BY <2>2, <2>4, <2>5 DEF Output, Printout
<1>. QED
  BY <1>1, <1>2, <1>3, <1>4, PTL DEF DemoSpec
=============================================================================
