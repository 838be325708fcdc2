---------------------------- MODULE MCBzTreeLeaf ----------------------------
(***************************************************************************)
(* Small instances of BzTreeLeaf.                                          *)
(***************************************************************************)
EXTENDS BzTreeLeaf, TLC

Operations == {"insert", "update", "erase", "lookup"}

\* {o} stands for two calls of the same operation.
AllPairs == {{o, p} : o, p \in Operations}

\* All but the overlaps in which a record is taken that another insert reserved.
SafePairs == AllPairs \ {{"insert"}, {"insert", "update"}}

ASSUME SafePairsAssumption == Overlap = SafePairs => SafeOverlap

MCMaxCalls == [t \in Threads |-> 2]

MCSymmetry == Permutations(Threads) \cup Permutations(Vals)
=============================================================================
