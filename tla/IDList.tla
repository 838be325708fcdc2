------------------------------- MODULE IDList -------------------------------
(***************************************************************************)
(* What the two lists of src/double-linked-list share: the nodes with      *)
(* their links, the sentinels, and the calls of the threads.               *)
(*                                                                         *)
(* A link is a pointer with the bit kNodeDeleted.  Nodes are not given     *)
(* back to the allocator by either list; a node that has been in the list  *)
(* is not inserted again.                                                  *)
(***************************************************************************)
EXTENDS Naturals, Sequences, FiniteSets

CONSTANTS
  Threads,
  Nodes,        \* what NewNode returns
  head_, tail_, \* the sentinels
  Null,         \* nullptr
  FirstLists,   \* what the list may hold when the threads start: sequences of nodes
  NewNode,      \* [Threads -> SUBSET Nodes]: the nodes a thread inserts
  Methods,      \* subset of {"kSyncMwCAS", "kSyncCAS"}
  Movers,       \* the threads that call GetNext and GetPrev
  MaxCalls,     \* [Threads -> Nat]: bound on the calls of a thread
  NoCall

ASSUME SentinelsAssumption ==
  /\ head_ \notin Nodes /\ tail_ \notin Nodes /\ Null \notin Nodes
  /\ head_ # tail_ /\ Null \notin {head_, tail_}
ASSUME NodesAssumption ==
  /\ IsFiniteSet(Nodes)
  /\ \A first \in FirstLists :
       first \in Seq(Nodes) /\ \A i, j \in DOMAIN first : i # j => first[i] # first[j]
ASSUME CallsAssumption ==
  /\ NewNode \in [Threads -> SUBSET Nodes]
  /\ \A t, u \in Threads : t # u => NewNode[t] \cap NewNode[u] = {}
  /\ Movers \subseteq Threads
  /\ MaxCalls \in [Threads -> Nat]
  /\ Methods \subseteq {"kSyncMwCAS", "kSyncCAS"}
  /\ NoCall \notin [op : {"InsertBefore", "InsertAfter", "Delete", "GetNext", "GetPrev"},
                    ref : Nodes \cup {head_, tail_}, node : Nodes \cup {Null}]

VARIABLES
  sync_method,  \* IDList::sync_method_
  next, prev,   \* [AllNodes -> Link]: DListNode::next and prev
  pc,           \* where each thread is in a call
  call,         \* [Threads -> the call or NoCall]: op, ref and node
  cur,          \* the local next of InsertBefore, prev of InsertAfter, node of Get...
  lp, ln,       \* the local links read from a prev and from a next
  gn,           \* the frame of CASDList::GetNext
  cp,           \* the frame of CASDList::CorrectPrev
  gone,         \* history: nodes deleted before a GetNext or GetPrev began
  inserted,     \* history: nodes that have been in the list
  left          \* [Threads -> Nat]: calls left

linkVars == <<sync_method, next, prev>>
localVars == <<cur, lp, ln, gn, cp>>
historyVars == <<gone, inserted, left>>
vars == <<sync_method, next, prev, pc, call, cur, lp, ln, gn, cp, gone, inserted, left>>

AllNodes == Nodes \cup {head_, tail_}
Link == [to : AllNodes \cup {Null}, del : BOOLEAN]
To(n) == [to |-> n, del |-> FALSE]
Marked(link) == [to |-> link.to, del |-> TRUE]
NoLink == To(Null)

NoGetNext == [node |-> Null, next |-> Null, nn |-> NoLink, ret |-> "return"]
NoCorrect == [prev |-> NoLink, node |-> Null, last |-> Null, link |-> NoLink,
              pn |-> NoLink, ret |-> "return"]

\* The constructor links the sentinels; nodes have been inserted since.
FirstState(first) ==
  LET all == <<head_>> \o first \o <<tail_>>
      In(n) == \E i \in DOMAIN all : all[i] = n
      Pos(n) == CHOOSE i \in DOMAIN all : all[i] = n
  IN  /\ next = [n \in AllNodes |-> IF In(n) /\ n # tail_ THEN To(all[Pos(n) + 1]) ELSE NoLink]
      /\ prev = [n \in AllNodes |-> IF In(n) /\ n # head_ THEN To(all[Pos(n) - 1]) ELSE NoLink]
      /\ inserted = {n \in Nodes : In(n)}

Init ==
  /\ sync_method \in Methods
  /\ \E first \in FirstLists : FirstState(first)
  /\ pc = [t \in Threads |-> "idle"]
  /\ call = [t \in Threads |-> NoCall]
  /\ cur = [t \in Threads |-> Null]
  /\ lp = [t \in Threads |-> NoLink]
  /\ ln = [t \in Threads |-> NoLink]
  /\ gn = [t \in Threads |-> NoGetNext]
  /\ cp = [t \in Threads |-> NoCorrect]
  /\ gone = [t \in Threads |-> {}]
  /\ left = MaxCalls

At(t, label) == pc[t] = label
GoTo(t, label) == pc' = [pc EXCEPT ![t] = label]
Put(f, t, v) == [f EXCEPT ![t] = v]

-----------------------------------------------------------------------------
(***************************************************************************)
(* Calls.  A caller names nodes that are or have been in the list, and     *)
(* inserts nodes of its own.                                               *)
(***************************************************************************)

Deleted(n) == n \in inserted /\ next[n].del

\* The label an operation starts at.  InsertBefore the head is InsertAfter it,
\* InsertAfter the tail is InsertBefore it.
Entry(o, r) ==
  CASE o = "InsertBefore" -> IF r = head_ THEN "ia_next" ELSE "ib_prev"
    [] o = "InsertAfter"  -> IF r = tail_ THEN "ib_prev" ELSE "ia_next"
    [] o = "Delete"       -> "d_next"
    [] o = "GetNext"      -> "gn_next"
    [] o = "GetPrev"      -> "gp_prev"

Begin(t, o, r, n) ==
  /\ At(t, "idle")
  /\ left[t] > 0
  /\ GoTo(t, Entry(o, r))
  /\ call' = Put(call, t, [op |-> o, ref |-> r, node |-> n])
  /\ cur' = Put(cur, t, r)
  /\ left' = [left EXCEPT ![t] = @ - 1]

CallInsert(t) ==
  /\ \E o \in {"InsertBefore", "InsertAfter"}, r \in inserted \cup {head_, tail_},
        n \in NewNode[t] \ inserted : Begin(t, o, r, n)
  /\ UNCHANGED <<linkVars, lp, ln, gn, cp, gone, inserted>>

CallDelete(t) ==
  /\ \E r \in inserted \cup {head_, tail_} : Begin(t, "Delete", r, Null)
  /\ UNCHANGED <<linkVars, lp, ln, gn, cp, gone, inserted>>

\* GetNext and GetPrev, by a DListCursor too: its whole state is the node it
\* stands on, the head after Reset() and later any node it was led to.
CallMove(t) ==
  /\ t \in Movers
  /\ \E o \in {"GetNext", "GetPrev"}, r \in inserted \cup {head_, tail_} :
       /\ Begin(t, o, r, Null)
       /\ gn' = Put(gn, t, [NoGetNext EXCEPT !.node = r])
  /\ gone' = Put(gone, t, {n \in AllNodes : Deleted(n)})
  /\ UNCHANGED <<linkVars, lp, ln, cp, inserted>>

\* GetNext and GetPrev leave their result in cur.
Return(t) ==
  /\ At(t, "return")
  /\ GoTo(t, "idle")
  /\ call' = Put(call, t, NoCall)
  /\ cur' = Put(cur, t, Null)
  /\ lp' = Put(lp, t, NoLink)
  /\ ln' = Put(ln, t, NoLink)
  /\ gn' = Put(gn, t, NoGetNext)
  /\ cp' = Put(cp, t, NoCorrect)
  /\ gone' = Put(gone, t, {})
  /\ UNCHANGED <<linkVars, inserted, left>>

Calls(t) == CallInsert(t) \/ CallDelete(t) \/ CallMove(t) \/ Return(t)
=============================================================================
