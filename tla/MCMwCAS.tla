------------------------------ MODULE MCMwCAS -------------------------------
(***************************************************************************)
(* Small instances of PersistentMwCAS: two words, three operations.        *)
(***************************************************************************)
EXTENDS PersistentMwCAS, TLC

CONSTANTS t1, t2, t3, d1, d2, d3

Swing(words, from, to) == [a \in words |-> [old |-> from, new |-> to]]
Both == {1, 2}

\* d1 is the first of the pool.
MCIndex == [d \in Descs |-> CASE d = d1 -> 0 [] d = d2 -> 1 [] OTHER -> 2]

\* t3 owns no descriptor: it only reads, and helps when it meets one.
MCOwner == [d \in Descs |-> IF d = d1 THEN t1 ELSE t2]

\* t2 reads, too, when there is no t3.
MCReads == [t \in Threads |-> IF t = (IF t3 \in Threads THEN t3 ELSE t2) THEN 1 ELSE 0]

\* The operations that tests make fail.
MCInjects == [d \in Descs |-> IF d = d2 THEN {"undecided", "decided"} ELSE {}]
NoInjects == [d \in Descs |-> {}]

\* d1 sets both words; d2 and d3 conflict with it or follow it, on one word or
\* on both, or name a word that they do not change (as publishing a record in
\* bztree.cc does).  No word ever gets a value back that it had before.
MonotoneOps == [d \in Descs |->
  CASE d = d1 -> {Swing(Both, 0, 1)}
    [] d = d2 -> {Swing(Both, 1, 2), Swing({1}, 0, 0) @@ Swing({2}, 0, 1)}
    [] OTHER  -> {Swing({1}, 0, 1), Swing({2}, 0, 1), Swing({2}, 1, 2)}]

\* That is, the operations follow the order of the numbers.
Ascending == [a \in Words |-> {<<v, w>> \in Values \X Values : v <= w}]
ASSUME AscendingAssumption ==
  Ops = MonotoneOps => ValuesOrdered(Ascending)

\* The same, except that d2 may undo what d1 has done.
RecurringOps == [d \in Descs |->
  CASE d = d1 -> {Swing(Both, 0, 1)}
    [] d = d2 -> {Swing(Both, 1, 0), Swing({2}, 1, 0)}
    [] OTHER  -> {Swing({2}, 0, 1)}]
=============================================================================
