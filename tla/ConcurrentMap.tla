--------------------------- MODULE ConcurrentMap ---------------------------
(***************************************************************************)
(* What template.c promises, whatever template and data structure it is    *)
(* linked with: the logically atomic triples insert_spec and lookup_spec   *)
(* of verif_template.v.  Each call takes effect on the map in one step     *)
(* between its invocation and its return.                                  *)
(***************************************************************************)
CONSTANTS Thread, Key, Value, NULL

VARIABLES
    map,     \* C, the contents of the structure; NULL for an absent key
    req,     \* the call a thread is executing
    phase,   \* how far the call is
    ret      \* the pointer the call returns, once it took effect

vars == <<map, req, phase, ret>>

Request == [op : {"insert"}, key : Key, value : Value]
             \cup [op : {"lookup"}, key : Key, value : {NULL}]

\* The req of a thread outside insert and lookup.
NoRequest == [op |-> "none"]

Init ==
    /\ map = [k \in Key |-> NULL]
    /\ req = [t \in Thread |-> NoRequest]
    /\ phase = [t \in Thread |-> "idle"]
    /\ ret = [t \in Thread |-> NULL]

Call(t) ==
    /\ phase[t] = "idle"
    /\ \E r \in Request : req' = [req EXCEPT ![t] = r]
    /\ phase' = [phase EXCEPT ![t] = "called"]
    /\ UNCHANGED <<map, ret>>

\* insert_spec: CSS C becomes CSS (<[x := v]> C).
Insert(t) ==
    /\ phase[t] = "called"
    /\ req[t].op = "insert"
    /\ map' = [map EXCEPT ![req[t].key] = req[t].value]
    /\ phase' = [phase EXCEPT ![t] = "done"]
    /\ UNCHANGED <<req, ret>>

\* lookup_spec: C is unchanged and the value returned is C !! x, NULL for a
\* key that is not in C.
Lookup(t) ==
    /\ phase[t] = "called"
    /\ req[t].op = "lookup"
    /\ ret' = [ret EXCEPT ![t] = map[req[t].key]]
    /\ phase' = [phase EXCEPT ![t] = "done"]
    /\ UNCHANGED <<map, req>>

Return(t) ==
    /\ phase[t] = "done"
    /\ phase' = [phase EXCEPT ![t] = "idle"]
    /\ req' = [req EXCEPT ![t] = NoRequest]
    /\ ret' = [ret EXCEPT ![t] = NULL]
    /\ UNCHANGED map

Next == \E t \in Thread : Call(t) \/ Insert(t) \/ Lookup(t) \/ Return(t)

Spec == Init /\ [][Next]_vars
============================================================================
