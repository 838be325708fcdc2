------------------------------ MODULE MCBzTree ------------------------------
(***************************************************************************)
(* Small instances of BzTree.                                              *)
(***************************************************************************)
EXTENDS BzTree

CONSTANTS t1, t2, v

\* One thread inserts, the other updates.
InsertAndUpdate == {{"insert", "update"}}

Writes(o, ks) == {[op |-> o, key |-> k, val |-> v] : k \in ks}
Others(o, ks) == {[op |-> o, key |-> k, val |-> None] : k \in ks}

\* Keys inserted one after the other.
Fill(ks) == [n \in DOMAIN ks |-> Writes("insert", {ks[n]})]
Multiples(m, n) == [i \in 1 .. n |-> m * i]

-----------------------------------------------------------------------------
(***************************************************************************)
(* Two threads and a tree of height 2, whose last leaf is full: t1 splits  *)
(* it with the insert of 14.  t2 looks for 1, which is not there, in the   *)
(* first leaf: it writes nothing unless it performs an SMO.                *)
(***************************************************************************)

Pair ==
  [load |-> 6,
   calls |-> t1 :> Fill(Multiples(2, 7)) @@ t2 :> <<Writes("update", {1})>>]

PairPrograms == {Pair}
PairKeys == {1} \cup Range(Multiples(2, 7))
PairObjects == 0 .. 20

-----------------------------------------------------------------------------
(***************************************************************************)
(* One thread, and the sizes of the tests: records of 24 bytes, of which   *)
(* 10 fill a node.  The first 45 inserts make a tree of height 3 in which  *)
(* 250 is the largest key of the first subtree.  It is erased, the last    *)
(* leaf of that subtree is split, and 245 is inserted above the limit that *)
(* the split has left; then the other leaves are split until the subtree's *)
(* root is full and has to be split itself.                                *)
(***************************************************************************)

From(a, n) == [i \in 1 .. n |-> a + i]
Deep ==
  [load |-> 0,
   calls |-> t1 :> Fill(Multiples(10, 45)) \o <<Others("erase", {250})>>
                   \o Fill(From(210, 5) \o <<245>> \o From(10, 5) \o From(60, 5) \o From(110, 5))]

DeepPrograms == {Deep}
DeepKeys == UNION {{c.key : c \in Deep.calls[t1][n]} : n \in DOMAIN Deep.calls[t1]}
DeepObjects == 0 .. 30
=============================================================================
