------------------------------ MODULE MCEpoch -------------------------------
(***************************************************************************)
(* Small instances of EpochManager.                                        *)
(***************************************************************************)
EXTENDS EpochManager, TLC

\* The first manager guards every item, unless there is a second one: then the
\* second does.
MCHome == [i \in Items |-> IF Cardinality(Managers) = 1
                           THEN CHOOSE m \in Managers : TRUE ELSE "pool"]

\* Every thread starts its search at the last entry: all of them collide, and
\* the search has to wrap round.
MCStartIndex == [t \in Threads |-> Size - 1]
=============================================================================
