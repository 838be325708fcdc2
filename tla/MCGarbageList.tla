--------------------------- MODULE MCGarbageList ----------------------------
(***************************************************************************)
(* A small instance of GarbageList.                                        *)
(***************************************************************************)
EXTENDS GarbageList, TLC

MCHome == [i \in Items |-> ListManager]
MCStartIndex == [t \in Threads |-> 0]
MCSymmetry == Permutations(Threads) \cup Permutations(Items)
=============================================================================
