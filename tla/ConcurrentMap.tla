--------------------------- MODULE ConcurrentMap ----------------------------
(***************************************************************************)
(* What BzTree promises its callers (src/bztree/bztree.h): a linearizable  *)
(* map.  insert, update and erase take effect in one step, the one in      *)
(* which they succeed.  A call that changes nothing returns what was true  *)
(* at some moment between its start and its end: seen is the set of        *)
(* bindings that the call's key has had since it began.                    *)
(***************************************************************************)
CONSTANTS Threads, Keys, Vals, None

VARIABLES
  map,     \* [Keys -> Vals \cup {None}]
  calls,   \* [Threads -> call], op is "none" between calls
  seen,    \* [Threads -> SUBSET (Vals \cup {None})]
  result   \* [Threads -> what the thread's last call returned, until the next one]

vars == <<map, calls, seen, result>>

Call == [op : {"insert", "update", "erase", "lookup"}, key : Keys, val : Vals \cup {None}]
Idle == [op |-> "none", key |-> None, val |-> None]

Init ==
  /\ map = [k \in Keys |-> None]
  /\ calls = [t \in Threads |-> Idle]
  /\ seen = [t \in Threads |-> {}]
  /\ result = [t \in Threads |-> None]

\* Every pending call sees the binding of its key after every step.
Observe ==
  seen' = [t \in Threads |-> IF calls'[t] = Idle THEN {}
                             ELSE seen[t] \cup {map'[calls'[t].key]}]

Begin(t) ==
  /\ calls[t] = Idle
  /\ calls'[t] \in Call
  /\ calls' = [calls EXCEPT ![t] = calls'[t]]
  /\ result' = [result EXCEPT ![t] = None]
  /\ UNCHANGED map

Bind(t, v) == map' = [map EXCEPT ![calls[t].key] = v]

\* The call of t returns r.
Outcome(t, r) ==
  LET c == calls[t]
      before == map[c.key]
  IN
  \/ c.op = "insert" /\ r = TRUE  /\ before = None  /\ Bind(t, c.val)
  \/ c.op = "update" /\ r = TRUE  /\ before # None  /\ Bind(t, c.val)
  \/ c.op = "erase"  /\ r = TRUE  /\ before # None  /\ Bind(t, None)
  \/ c.op = "insert" /\ r = FALSE /\ seen[t] # {None} /\ UNCHANGED map
  \/ c.op \in {"update", "erase"} /\ r = FALSE /\ None \in seen[t] /\ UNCHANGED map
  \/ c.op = "lookup" /\ r \in seen[t] /\ UNCHANGED map

Return(t) ==
  /\ calls[t] # Idle
  /\ calls' = [calls EXCEPT ![t] = Idle]
  /\ result'[t] \in Vals \cup {None} \cup BOOLEAN
  /\ result' = [result EXCEPT ![t] = result'[t]]
  /\ Outcome(t, result'[t])

Next == (\E t \in Threads : Begin(t) \/ Return(t)) /\ Observe

Spec == Init /\ [][Next]_vars
=============================================================================
