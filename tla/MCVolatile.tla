----------------------------- MODULE MCVolatile ------------------------------
(***************************************************************************)
(* Small instances of VolatileMwCAS: two words, two operations.            *)
(***************************************************************************)
EXTENDS VolatileMwCAS

CONSTANTS t1, t2, t3, d1, d2

Swing(a, from, to) == [addr |-> a, old |-> from, new |-> to]

MCOwner == [d \in Descs |-> IF d = d1 THEN t1 ELSE t2]
MCReads == [t \in Threads |-> IF t = t3 THEN 1 ELSE 0]
MCInjects == [d \in Descs |-> IF d = d1 THEN {"no", "undecided", "decided"} ELSE {"no"}]

\* Callers that add the words in address order.
OrderedOps == [d \in Descs |->
  CASE d = d1 -> {<<Swing(1, 0, 1), Swing(Null, 0, 0), Swing(2, 0, 1)>>,
                  <<Swing(1, 0, 1), Swing(2, 2, 3)>>}
    [] OTHER  -> {<<Swing(1, 0, 1), Swing(2, 0, 2)>>, <<Swing(1, 1, 2), Swing(2, 1, 2)>>,
                  <<Swing(2, 0, 2)>>}]

\* They do so, and the values of the words do not recur.
ASSUME OrderedOpsAreOrdered ==
  Ops = OrderedOps =>
    /\ WordsOrdered({<<1, 2>>})
    /\ ValuesOrdered([a \in Words |-> {p \in Values \X Values : p[1] <= p[2]}])
=============================================================================
