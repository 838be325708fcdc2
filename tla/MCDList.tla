------------------------------ MODULE MCDList -------------------------------
EXTENDS DList

CONSTANTS t1, t2, a, b, c

\* t1 inserts b when it is not in the list at first.
MCFirstLists == {<<a>>, <<a, b>>}
MCNewNode == [t \in Threads |-> IF t = t1 THEN {b} ELSE {c}]
MCMaxCalls == [t \in Threads |-> IF t = t1 THEN 2 ELSE 1]
=============================================================================
