---------------------------- MODULE OrderedList -----------------------------
(***************************************************************************)
(* What a doubly linked list promises (IDList in                           *)
(* src/double-linked-list/doubly_linked_list.h): insertions and deletions  *)
(* take effect in one step between their call and their return, next to    *)
(* the node they name as long as that node is in the list, and the other   *)
(* nodes keep their order.  "[node] might end up before another node in    *)
(* case [prev] is being deleted".                                          *)
(***************************************************************************)
EXTENDS Naturals, SequencesExt

CONSTANTS
  Threads, Nodes,
  head_, tail_,   \* the sentinels
  FirstLists,     \* sequences of nodes that it may hold at first
  Null, NoCall

VARIABLES
  list,      \* the nodes in the list, with the sentinels
  inserted,  \* the nodes that have been in the list
  call       \* [Threads -> call or NoCall]

vars == <<list, inserted, call>>

Init ==
  /\ \E first \in FirstLists :
       /\ list = <<head_>> \o first \o <<tail_>>
       /\ inserted = ToSet(first)
  /\ call = [t \in Threads |-> NoCall]

Call(t) ==
  /\ call[t] = NoCall
  /\ \E r \in inserted \cup {head_, tail_} :
       \E c \in [op : {"InsertBefore", "InsertAfter"}, ref : {r}, node : Nodes]
               \cup [op : {"Delete"}, ref : {r}, node : {Null}] :
         call' = [call EXCEPT ![t] = c]
  /\ UNCHANGED <<list, inserted>>

\* The node goes next to ref, on the side the operation names; there is no
\* place before the head and none after the tail.
RightPlace(l, c) ==
  LET i == CHOOSE j \in DOMAIN l : l[j] = c.node
      before == c.ref = tail_ \/ (c.op = "InsertBefore" /\ c.ref # head_)
  IN  c.ref \in ToSet(l) => IF before THEN l[i + 1] = c.ref ELSE l[i - 1] = c.ref

Insert(t) ==
  /\ call[t] # NoCall
  /\ call[t].op # "Delete"
  /\ call[t].node \notin inserted
  /\ \E i \in 2 .. Len(list) : list' = InsertAt(list, i, call[t].node)
  /\ RightPlace(list', call[t])
  /\ inserted' = inserted \cup {call[t].node}
  /\ UNCHANGED call

Delete(t) ==
  /\ call[t] # NoCall
  /\ call[t].op = "Delete"
  /\ call[t].ref \notin {head_, tail_}
  /\ \E i \in DOMAIN list : list[i] = call[t].ref /\ list' = RemoveAt(list, i)
  /\ UNCHANGED <<inserted, call>>

\* A call returns once it has taken effect.
Return(t) ==
  /\ call[t] # NoCall
  /\ IF call[t].op = "Delete"
     THEN call[t].ref \in {head_, tail_} \/ call[t].ref \notin ToSet(list)
     ELSE call[t].node \in inserted
  /\ call' = [call EXCEPT ![t] = NoCall]
  /\ UNCHANGED <<list, inserted>>

Next == \E t \in Threads : Call(t) \/ Insert(t) \/ Delete(t) \/ Return(t)

Spec == Init /\ [][Next]_vars
=============================================================================
