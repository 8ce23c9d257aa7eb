-------------------------------- MODULE Demo --------------------------------
(***************************************************************************)
(* main.c, linked with coupling.c: main inserts six times, has a second    *)
(* thread insert once more, waits for it, prints the structure with        *)
(* printDS_helper, which walks the nodes without a lock, and looks up a    *)
(* key.  The wait is an acquire of a lock that is made taken and that the  *)
(* second thread releases.                                                 *)
(***************************************************************************)
EXTENDS Coupling, Sequences, FiniteSets

CONSTANTS
    main, thread_func,  \* the two threads
    ITEMS               \* the items of struct stack, 100 in data_structure.h

ASSUME ThreadAssumption == Thread = {main, thread_func} /\ main # thread_func

ASSUME ItemsAssumption == ITEMS \in Nat

\* The keys and strings of main.c; a string is not a null pointer.
ASSUME DataAssumption ==
    /\ {4, 5, 6, 7, 8, 10} \subseteq Key
    /\ {"four", "five", "six", "seven", "eight", "ten"} \subseteq Value
    /\ NULL \notin Value

VARIABLES
    line,     \* per thread, the statement it executes; 0 before the spawn
    t_lock,   \* "unmade", "taken", "free" or "freed"
    current,  \* printDS: the node it goes to
    s,        \* printDS: the stack of nodes it has yet to print
    out,      \* the keys and values print_key_value printed
    found     \* what the lookup printed

demoVars == <<t_lock, current, s, out, found>>
allVars == <<vars, line, demoVars>>

Insert(k, v) == [op |-> "insert", key |-> k, value |-> v]
Lookup(k) == [op |-> "lookup", key |-> k, value |-> NULL]
Do(name) == [op |-> name]

\* A mutant: the second thread releases the lock before it inserts.
Program_ReleaseFirst(t) ==
    IF t = main
    THEN << Insert(5, "five"), Insert(7, "seven"), Insert(6, "six"),
            Insert(4, "four"), Insert(8, "eight"), Insert(4, "ten"),
            Do("makelock"), Do("spawn"), Do("acquire"), Do("freelock"),
            Do("get_root"), Do("printDS"), Lookup(4), Do("return") >>
    ELSE << Do("release"), Insert(10, "ten"), Do("return") >>

\* The statements of main and of thread_func.
Program(t) ==
    IF t = main
    THEN << Insert(5, "five"), Insert(7, "seven"), Insert(6, "six"),
            Insert(4, "four"), Insert(8, "eight"), Insert(4, "ten"),
            Do("makelock"), Do("spawn"), Do("acquire"), Do("freelock"),
            Do("get_root"), Do("printDS"), Lookup(4), Do("return") >>
    ELSE << Insert(10, "ten"), Do("release"), Do("return") >>

\* The operation thread t executes.
At(t) == IF line[t] = 0 THEN "none" ELSE Program(t)[line[t]].op

DemoInit ==
    /\ Init
    /\ line = [t \in Thread |-> IF t = main THEN 1 ELSE 0]
    /\ t_lock = "unmade"
    /\ current = NULL
    /\ s = << >>
    /\ out = << >>
    /\ found = NULL

NextLine(t) == line' = [line EXCEPT ![t] = @ + 1]

\* insert or lookup is called.
CallStep(t) ==
    /\ At(t) \in {"insert", "lookup"}
    /\ Begin(t)
    /\ req'[t] = Program(t)[line[t]]
    /\ UNCHANGED <<line, demoVars>>

\* A step of the template inside the call.
InCall(t) ==
    /\ Work(t)
    /\ pc[t] # "return"
    /\ UNCHANGED <<line, demoVars>>

\* The call returns; main prints what lookup found.
ReturnStep(t) ==
    /\ End(t)
    /\ NextLine(t)
    /\ found' = IF At(t) = "lookup" THEN ret[t] ELSE found
    /\ UNCHANGED <<t_lock, current, s, out>>

\* makelock: the lock is taken.
MakeLock ==
    /\ At(main) = "makelock"
    /\ t_lock' = "taken"
    /\ NextLine(main)
    /\ UNCHANGED <<vars, current, s, out, found>>

Spawn ==
    /\ At(main) = "spawn"
    /\ line' = [line EXCEPT ![main] = @ + 1, ![thread_func] = 1]
    /\ UNCHANGED <<vars, demoVars>>

\* A mutant: main does not wait.
Join_NoWait ==
    /\ At(main) = "acquire"
    /\ t_lock' = "taken"
    /\ NextLine(main)
    /\ UNCHANGED <<vars, current, s, out, found>>

\* acquire(t_lock), the iteration whose CAS succeeds.
Join ==
    /\ At(main) = "acquire"
    /\ t_lock = "free"
    /\ t_lock' = "taken"
    /\ NextLine(main)
    /\ UNCHANGED <<vars, current, s, out, found>>

FreeLock ==
    /\ At(main) = "freelock"
    /\ t_lock' = "freed"
    /\ NextLine(main)
    /\ UNCHANGED <<vars, current, s, out, found>>

\* A mutant: the second thread forgets the release.
ThreadRelease_Forgotten ==
    /\ At(thread_func) = "release"
    /\ NextLine(thread_func)
    /\ UNCHANGED <<vars, demoVars>>

\* release(l) in thread_func.
ThreadRelease ==
    /\ At(thread_func) = "release"
    /\ t_lock' = "free"
    /\ NextLine(thread_func)
    /\ UNCHANGED <<vars, current, s, out, found>>

\* A mutant: top starts at 0, above an item that nobody pushed.
initStack_TopZero == s' = <<NULL>>

initStack == s' = << >>

\* get_root in printDS_helper: the root is read between an acquire and a
\* release of the lock of NULL.  printDS starts there with an empty stack.
PrintRoot ==
    /\ At(main) = "get_root"
    /\ lookup_md(NULL) \in Pointer /\ lock[lookup_md(NULL)] = 0
    /\ current' = root
    /\ initStack
    /\ NextLine(main)
    /\ UNCHANGED <<vars, t_lock, out, found>>

\* Where the inner loop of printDS goes from p, and where the outer one goes
\* on after it has printed p.
Ahead(p) == IF DS = "list" THEN heap[p].next ELSE heap[p].left
After(p) == IF DS = "list" THEN NULL ELSE heap[p].right

\* push(&s, current); StackBound says that there is an item left for it.
Push ==
    /\ At(main) = "printDS"
    /\ current # NULL
    /\ s' = Append(s, current)
    /\ current' = Ahead(current)
    /\ UNCHANGED <<vars, line, t_lock, out, found>>

\* pop(&s) and print_key_value.
Pop ==
    /\ At(main) = "printDS"
    /\ current = NULL
    /\ s # << >>
    /\ LET p == s[Len(s)]
       IN  /\ out' = Append(out, <<heap[p].key, heap[p].value>>)
           /\ current' = After(p)
    /\ s' = SubSeq(s, 1, Len(s) - 1)
    /\ UNCHANGED <<vars, line, t_lock, found>>

\* printDS returns.
Printed ==
    /\ At(main) = "printDS"
    /\ current = NULL
    /\ s = << >>
    /\ NextLine(main)
    /\ UNCHANGED <<vars, demoVars>>

MainStep ==
    \/ MakeLock \/ Spawn \/ Join \/ FreeLock
    \/ PrintRoot \/ Push \/ Pop \/ Printed

Step(t) ==
    \/ CallStep(t) \/ InCall(t) \/ ReturnStep(t)
    \/ t = main /\ MainStep
    \/ t = thread_func /\ ThreadRelease

DemoNext == \E t \in Thread : Step(t)

\* Both threads are scheduled again and again.
DemoSpec ==
    /\ DemoInit
    /\ [][DemoNext]_allVars
    /\ \A t \in Thread : WF_allVars(Step(t))

----------------------------------------------------------------------------
(* Properties                                                              *)

\* The second thread is through with its insert, and with the lock, before
\* main frees the lock and walks the nodes without holding theirs.
JoinInv ==
    At(main) \in {"freelock", "get_root", "printDS"} =>
        pc[thread_func] = "idle" /\ At(thread_func) = "return"

\* The values a demo leaves behind: that of 4 was overwritten.
Final == << <<4, "ten">>, <<5, "five">>, <<6, "six">>, <<7, "seven">>,
            <<8, "eight">>, <<10, "ten">> >>

\* Whatever the schedule and the addresses, the output is the same: a list is
\* printed from its end, a tree in ascending order, and the lookup says "ten"
\* (README.md:80).
Output ==
    /\ Len(out) <= Len(Final)
    /\ \A i \in 1 .. Len(out) :
          out[i] = Final[IF DS = "list" THEN Len(Final) + 1 - i ELSE i]
    /\ At(main) \in {"lookup", "return"} => Len(out) = Len(Final)
    /\ At(main) = "return" => found = "ten"

\* "Assuming a maximum of 100 nodes" (data_structure.h:24): if there are no more
\* nodes than the stack has items, printDS never pushes beyond the last item,
\* although push does not look at top, and a list has all nodes on the stack.
StackBound == Cardinality(DOMAIN heap) <= ITEMS => Len(s) <= ITEMS

\* The program terminates (README.md:79): main gets to its return.
Terminates == <>(At(main) = "return")
=============================================================================
