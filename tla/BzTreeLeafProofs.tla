-------------------------- MODULE BzTreeLeafProofs --------------------------
(***************************************************************************)
(* Proofs about BzTreeLeaf, for any number of threads, keys, values, nodes *)
(* and calls and any sizes, if no two inserts overlap and no insert and    *)
(* update (SafeOverlap).                                                   *)
(*                                                                         *)
(* A leaf changes under the calls that work on it.  What a call knows of   *)
(* it (CallInv) therefore says only what the steps of the calls that may   *)
(* overlap with it leave true: those that Gently describes.                *)
(***************************************************************************)
EXTENDS BzTreeLeaf, NumberLemmas, FiniteSetTheorems

Operations == {"insert", "update", "erase", "lookup"}
Call == [op : Operations, key : Keys, val : Vals \cup {None}]

InsertLabels == {"reserve", "readback", "write", "publish"}
UpdateLabels == {"allocate", "rewrite", "install"}
EraseLabels == {"recheck", "erase"}
CompactLabels == {"freeze", "compact", "swing"}
Labels == {"idle", "traverse", "scan", "fetch"} \cup InsertLabels \cup UpdateLabels
            \cup EraseLabels \cup CompactLabels \cup Settled

\* The call of t is at work on a leaf.
Active(t) == pc[t] \notin {"idle", "traverse"}
Leaf(t) == node[leaf[t]]

-----------------------------------------------------------------------------
(***************************************************************************)
(* The invariant.                                                          *)
(***************************************************************************)

\* The operations and the variables of the calls.
Types ==
  /\ root \in Nodes /\ allocated \subseteq Nodes
  /\ node \in [Nodes -> Node]
  /\ pc \in [Threads -> Labels]
  /\ calls \in [Threads -> Call \cup {Idle}]
  /\ leaf \in [Threads -> Nodes]
  /\ index \in [Threads -> Nat]
  /\ sw \in [Threads -> StatusWord]
  /\ md \in [Threads -> Metadata]
  /\ new_root \in [Threads -> Nodes]
  /\ protected \in [Threads -> BOOLEAN]
  /\ left \in [Threads -> Nat]
  /\ result \in [Threads -> Vals \cup {None, Garbage} \cup BOOLEAN]
  /\ aborted \in BOOLEAN

\* Which operation is where, and which overlap.
OpInv ==
  /\ \A t \in Threads :
       /\ calls[t] = Idle <=> pc[t] \in {"idle"} \cup Settled
       /\ calls[t].op \in {"insert", "update"} => calls[t].val \in Vals
       /\ pc[t] \in InsertLabels => calls[t].op = "insert"
       /\ pc[t] \in UpdateLabels => calls[t].op = "update"
       /\ pc[t] \in EraseLabels => calls[t].op = "erase"
       /\ pc[t] = "fetch" => calls[t].op = "lookup"
       /\ pc[t] \in CompactLabels => calls[t].op \in {"insert", "update"}
  /\ \A t, u \in Threads : t # u /\ pc[t] # "idle" /\ pc[u] # "idle" =>
       {Operation(t), Operation(u)} \in Overlap

\* A node: its entries and records fit, entries that are not counted are zero,
\* and a visible entry points to a record.
WellFormed(n) ==
  /\ n.sw.count <= n.sw.block
  /\ n.sw.count * MdSize + n.sw.block * RecSize <= BodySize
  /\ \A i \in Slots : i > n.sw.count => n.md[i] = ZeroMetadata
  /\ \A i \in Visible(n) : n.md[i].at \in 1 .. n.sw.block
                           /\ Record(n, i) \in [key : Keys, val : Vals]

NodeInv == \A n \in Nodes : WellFormed(node[n])

\* A leaf that is not the root any more is frozen; a node that is to become
\* the root is known to one thread only.
LeafInv ==
  /\ {0, root} \subseteq allocated
  /\ \A t \in Threads :
       /\ leaf[t] \in allocated /\ new_root[t] \in allocated
       /\ Active(t) /\ leaf[t] # root => Leaf(t).sw.frozen
       /\ pc[t] \in {"compact", "swing"} => Leaf(t).sw.frozen
       /\ pc[t] # "swing" => new_root[t] = 0
       /\ pc[t] = "swing" =>
            /\ new_root[t] \notin {0, root}
            /\ \A u \in Threads : new_root[t] # leaf[u]
            /\ \A u \in Threads \ {t} : new_root[t] # new_root[u]

-----------------------------------------------------------------------------
\* The entry that t has found can be seen, until it is erased.
IndexInv(t) ==
  pc[t] \in {"fetch"} \cup UpdateLabels \cup EraseLabels =>
    /\ index[t] \in 1 .. Leaf(t).sw.count
    /\ index[t] \in Visible(Leaf(t)) \/ Leaf(t).md[index[t]] = ZeroMetadata
    /\ pc[t] \in {"rewrite", "install", "erase"} => md[t].visible /\ ~sw[t].frozen

\* The entry and the record of an insert are its own.
InsertInv(t) ==
  /\ pc[t] \in InsertLabels \ {"reserve"} =>
       /\ Leaf(t).sw.count >= 1
       /\ ~Leaf(t).md[Leaf(t).sw.count].visible /\ Leaf(t).md[Leaf(t).sw.count].at = Reserved
       /\ \A i \in Visible(Leaf(t)) : Leaf(t).md[i].at # Leaf(t).sw.block
  /\ pc[t] \in {"write", "publish"} =>
       sw[t].count = Leaf(t).sw.count /\ sw[t].block = Leaf(t).sw.block
  /\ pc[t] = "publish" =>
       /\ ~sw[t].frozen
       /\ Leaf(t).body[sw[t].block] = [key |-> calls[t].key, val |-> calls[t].val]

\* The record that an update has taken is not visible,
UpdateInv(t) ==
  /\ pc[t] \in {"rewrite", "install"} =>
       /\ sw[t].block \in 1 .. Leaf(t).sw.block
       /\ \A i \in Visible(Leaf(t)) : Leaf(t).md[i].at # sw[t].block
  /\ pc[t] = "install" =>
       Leaf(t).body[sw[t].block] = [key |-> calls[t].key, val |-> calls[t].val]

\* and not that of another update.
ApartInv ==
  \A t, u \in Threads :
    /\ pc[t] \in {"rewrite", "install"} /\ pc[u] \in {"rewrite", "install"}
    /\ leaf[t] = leaf[u] /\ t # u
    => sw[t].block # sw[u].block

CallInv(t) == IndexInv(t) /\ InsertInv(t) /\ UpdateInv(t)

LeafTreeInv ==
  /\ Types /\ OpInv /\ NodeInv /\ LeafInv /\ ApartInv
  /\ \A t \in Threads : CallInv(t)

-----------------------------------------------------------------------------
(***************************************************************************)
(* The sizes of a node.                                                    *)
(***************************************************************************)

LEMMA SizeFacts ==
  /\ BodySize \in Nat \ {0} /\ MdSize \in Nat \ {0} /\ RecSize \in Nat \ {0}
  /\ MinFree \in Nat /\ MaxDeleted \in Nat
  /\ MdSize + RecSize \in Nat \ {0}
  /\ BodySize \div (MdSize + RecSize) \in Nat /\ BodySize \div RecSize \in Nat
  /\ Slots \subseteq Nat \ {0} /\ Blocks \subseteq Nat \ {0}
  /\ Reserved \in Nat \ {0}
<1>1. /\ BodySize \in Nat \ {0} /\ MdSize \in Nat \ {0} /\ RecSize \in Nat \ {0}
      /\ MinFree \in Nat /\ MaxDeleted \in Nat
  BY SizeAssumption
<1>2. MdSize + RecSize \in Nat \ {0}
  BY <1>1
<1>3. BodySize \div (MdSize + RecSize) \in Nat /\ BodySize \div RecSize \in Nat
  BY <1>1, <1>2, DivMod
<1>4. QED
  BY <1>1, <1>2, <1>3 DEF Slots, Blocks, Reserved

\* So many parts of size s fit.
LEMMA PartsFit ==
  ASSUME NEW m \in Nat, NEW n \in Nat, NEW s \in Nat \ {0}, m * s <= n
  PROVE  m <= n \div s
<1>1. PICK q \in Nat, r \in 0 .. s - 1 : q = n \div s /\ n = q * s + r
  BY DivMod
<1>2. (q + 1) * s = q * s + s
  OBVIOUS
<1>3. q * s \in Nat /\ m * s \in Nat
  OBVIOUS
<1>4. m * s < (q + 1) * s
  BY <1>1, <1>2, <1>3
<1>5. QED
  BY <1>1, <1>4, MultiplesOrder

\* The larger the factor, the larger the product.
LEMMA ProductGrows ==
  ASSUME NEW m \in Nat, NEW n \in Nat, NEW s \in Nat \ {0}, m <= n
  PROVE  m * s <= n * s
<1>1. PICK k \in Nat : n = m + k
  BY n - m \in Nat /\ n = m + (n - m)
<1>2. n * s = m * s + k * s
  BY <1>1
<1>3. m * s \in Nat /\ k * s \in Nat
  OBVIOUS
<1>4. QED
  BY <1>2, <1>3

\* Where there is room, the numbers of the next entry and record are in range.
LEMMA RoomForRecord ==
  ASSUME NEW c \in Nat, NEW b \in Nat, c * MdSize + b * RecSize <= BodySize
  PROVE  b <= BodySize \div RecSize
<1>1. c * MdSize \in Nat /\ b * RecSize \in Nat
  BY SizeFacts
<1>2. b * RecSize <= BodySize
  BY <1>1, SizeFacts
<1>3. QED
  BY <1>2, PartsFit, SizeFacts

LEMMA RoomForEntry ==
  ASSUME NEW c \in Nat, NEW b \in Nat, c * MdSize + b * RecSize <= BodySize, c <= b
  PROVE  c <= BodySize \div (MdSize + RecSize)
<1>1. c * (MdSize + RecSize) = c * MdSize + c * RecSize
  BY SizeFacts
<1>2. c * RecSize <= b * RecSize
  BY ProductGrows, SizeFacts
<1>3. c * MdSize \in Nat /\ b * RecSize \in Nat /\ c * RecSize \in Nat
  BY SizeFacts
<1>4. c * (MdSize + RecSize) <= BodySize
  BY <1>1, <1>2, <1>3, SizeFacts
<1>5. QED
  BY <1>4, PartsFit, SizeFacts

-----------------------------------------------------------------------------
(***************************************************************************)
(* What may happen to a node n that becomes m.                             *)
(***************************************************************************)

\* Nothing that can be seen changes.
Kept(n, m) ==
  /\ n.sw.frozen => m.sw.frozen
  /\ n.sw.count <= m.sw.count /\ n.sw.block <= m.sw.block
  /\ Visible(m) = Visible(n)
  /\ \A i \in 1 .. n.sw.count : m.md[i] = n.md[i]
  /\ \A i \in Visible(n) : Record(m, i) = Record(n, i)

\* An entry can be seen until it is zero, and then stays zero.
Grows(n, m) ==
  /\ n.sw.frozen => m.sw.frozen
  /\ n.sw.count <= m.sw.count /\ n.sw.block <= m.sw.block
  /\ \A i \in 1 .. n.sw.count : n.md[i] = ZeroMetadata => m.md[i] = ZeroMetadata
  /\ \A i \in Visible(n) : m.md[i] = ZeroMetadata \/ i \in Visible(m)

LEMMA NodeFacts ==
  ASSUME NEW n \in Node
  PROVE  /\ n.sw \in StatusWord /\ n.sw.frozen \in BOOLEAN
         /\ n.sw.count \in Nat /\ n.sw.block \in Nat /\ n.sw.deleted \in Nat
         /\ n.sw.count \in {0} \cup Slots /\ n.sw.block \in {0} \cup Blocks
         /\ n.md \in [Slots -> Metadata]
         /\ n.body \in [Blocks -> [key : Keys \cup {None}, val : Vals \cup {None}]]
         /\ 1 .. n.sw.count \subseteq Slots
         /\ 1 .. n.sw.block \subseteq Blocks
         /\ Visible(n) \subseteq 1 .. n.sw.count
         /\ \A i \in Slots : n.md[i] \in Metadata /\ n.md[i].visible \in BOOLEAN
<1>1. /\ n.sw \in StatusWord /\ n.md \in [Slots -> Metadata]
      /\ n.body \in [Blocks -> [key : Keys \cup {None}, val : Vals \cup {None}]]
  BY DEF Node
<1>2. /\ n.sw.count \in {0} \cup Slots /\ n.sw.block \in {0} \cup Blocks
      /\ n.sw.frozen \in BOOLEAN /\ n.sw.deleted \in Nat
  BY <1>1 DEF StatusWord
<1>3. n.sw.count \in Nat /\ n.sw.block \in Nat
  <2>1. Slots \subseteq Nat /\ Blocks \subseteq Nat
    BY SizeFacts
  <2>2. \A x \in {0} \cup Slots : x \in Nat
    BY <2>1
  <2>3. \A x \in {0} \cup Blocks : x \in Nat
    BY <2>1
  <2>4. QED
    BY <1>2, <2>2, <2>3
<1>4. 1 .. n.sw.count \subseteq Slots /\ 1 .. n.sw.block \subseteq Blocks
  BY <1>2, <1>3, SizeFacts DEF Slots, Blocks
<1>5. Visible(n) \subseteq 1 .. n.sw.count
  BY DEF Visible
<1>6. \A i \in Slots : n.md[i] \in Metadata /\ n.md[i].visible \in BOOLEAN
  BY <1>1 DEF Metadata
<1>7. QED
  BY <1>1, <1>2, <1>3, <1>4, <1>5, <1>6

LEMMA KeptIsSame ==
  ASSUME NEW n \in Node, NEW m \in Node, Kept(n, m)
  PROVE  Grows(n, m) /\ VisibleRecords(m) = VisibleRecords(n)
<1>1. Visible(m) = Visible(n) /\ \A i \in Visible(n) : Record(m, i) = Record(n, i)
  BY DEF Kept
<1>2. Grows(n, m)
  BY <1>1 DEF Kept, Grows
<1>3. VisibleRecords(m) = VisibleRecords(n)
  BY <1>1 DEF VisibleRecords
<1>4. QED
  BY <1>2, <1>3

LEMMA KeptItself ==
  ASSUME NEW n \in Node
  PROVE  Kept(n, n)
  BY NodeFacts DEF Kept

-----------------------------------------------------------------------------
(***************************************************************************)
(* The changes of a node.                                                  *)
(***************************************************************************)

\* Free space for one more record, and for one more entry.
LEMMA NextRecord ==
  ASSUME NEW n \in Node, WellFormed(n),
         NEW e \in {0, 1}, BodySize - n.sw.count * MdSize - n.sw.block * RecSize >= e * MdSize + RecSize
  PROVE  /\ (n.sw.count + e) * MdSize + (n.sw.block + 1) * RecSize <= BodySize
         /\ n.sw.block + 1 \in Blocks
         /\ n.sw.count + e \in {0} \cup Slots
<1>1. PICK c \in Nat, b \in Nat : c = n.sw.count /\ b = n.sw.block /\ c <= b
  BY NodeFacts DEF WellFormed
<1>2. /\ (c + e) * MdSize = c * MdSize + e * MdSize
      /\ (b + 1) * RecSize = b * RecSize + RecSize
      /\ e * MdSize \in Nat
  BY SizeFacts
<1>3. PICK x \in Nat, y \in Nat, z \in Nat :
        x = c * MdSize /\ y = b * RecSize /\ z = e * MdSize
  BY <1>2, SizeFacts
<1>4. (c + e) * MdSize + (b + 1) * RecSize <= BodySize
  <2>1. BodySize - x - y >= z + RecSize
    BY <1>1, <1>3
  <2>2. x + z + y + RecSize <= BodySize
    BY <2>1, SizeFacts
  <2>3. QED
    BY <1>2, <1>3, <2>2, SizeFacts
<1>5. b + 1 \in Nat /\ c + e \in Nat /\ c + e <= b + 1
  BY <1>1
<1>6. b + 1 <= BodySize \div RecSize
  BY <1>4, <1>5, RoomForRecord
<1>7. c + e <= BodySize \div (MdSize + RecSize)
  BY <1>4, <1>5, RoomForEntry
<1>8. QED
  BY <1>1, <1>4, <1>5, <1>6, <1>7, SizeFacts DEF Slots, Blocks

LEMMA FreezeNode ==
  ASSUME NEW n \in Node, WellFormed(n), NEW m, m = [n EXCEPT !.sw.frozen = TRUE]
  PROVE  /\ m \in Node /\ WellFormed(m) /\ Kept(n, m)
         /\ m.sw.frozen /\ m.sw.count = n.sw.count /\ m.sw.block = n.sw.block
         /\ m.md = n.md /\ m.body = n.body
<1>1. /\ m.sw = [n.sw EXCEPT !.frozen = TRUE] /\ m.md = n.md /\ m.body = n.body
      /\ m \in Node
  BY NodeFacts DEF Node, StatusWord
<1>2. m.sw.count = n.sw.count /\ m.sw.block = n.sw.block
  BY <1>1, NodeFacts DEF StatusWord
<1>3. m.sw.frozen = TRUE
  BY <1>1, NodeFacts DEF StatusWord
<1>4. Visible(m) = Visible(n) /\ \A i : Record(m, i) = Record(n, i)
  BY <1>1, <1>2 DEF Visible, Record
<1>5. WellFormed(m)
  BY <1>1, <1>2, <1>4, Zenon DEF WellFormed
<1>6. Kept(n, m)
  <2>1. n.sw.count <= n.sw.count /\ n.sw.block <= n.sw.block
    BY NodeFacts
  <2>2. QED
    BY <1>1, <1>2, <1>3, <1>4, <2>1, Zenon DEF Kept
<1>7. QED
  BY <1>1, <1>2, <1>3, <1>5, <1>6

LEMMA AllocateNode ==
  ASSUME NEW n \in Node, WellFormed(n), NEW m, m = [n EXCEPT !.sw.block = n.sw.block + 1],
         BodySize - n.sw.count * MdSize - n.sw.block * RecSize >= RecSize
  PROVE  /\ m \in Node /\ WellFormed(m) /\ Kept(n, m)
         /\ m.sw = [n.sw EXCEPT !.block = n.sw.block + 1]
         /\ m.sw.frozen = n.sw.frozen /\ m.sw.count = n.sw.count /\ m.sw.block = n.sw.block + 1
         /\ m.md = n.md /\ m.body = n.body
         /\ m.sw.block \in Blocks
         /\ \A i \in Visible(m) : m.md[i].at # m.sw.block
<1>0. /\ n.sw.count * MdSize + (n.sw.block + 1) * RecSize <= BodySize
      /\ n.sw.block + 1 \in Blocks
  <2>1. /\ n.sw.count + 0 = n.sw.count /\ 0 * MdSize + RecSize = RecSize
    BY NodeFacts, SizeFacts
  <2>2. QED
    BY <2>1, NextRecord
<1>1. /\ m.sw = [n.sw EXCEPT !.block = n.sw.block + 1] /\ m.md = n.md /\ m.body = n.body
      /\ m \in Node
  BY <1>0, NodeFacts DEF Node, StatusWord
<1>2. m.sw.frozen = n.sw.frozen /\ m.sw.count = n.sw.count /\ m.sw.block = n.sw.block + 1
  BY <1>1, NodeFacts DEF StatusWord
<1>3. Visible(m) = Visible(n) /\ \A i : Record(m, i) = Record(n, i)
  BY <1>1, <1>2 DEF Visible, Record
<1>4. WellFormed(m)
  <2>1. \A i \in Visible(m) : m.md[i].at \in 1 .. m.sw.block
    BY <1>1, <1>2, <1>3, NodeFacts DEF WellFormed
  <2>2. m.sw.count <= m.sw.block
    BY <1>2, NodeFacts DEF WellFormed
  <2>3. QED
    BY <1>0, <1>1, <1>2, <1>3, <2>1, <2>2 DEF WellFormed
<1>5. Kept(n, m)
  BY <1>1, <1>2, <1>3, NodeFacts DEF Kept
<1>6. \A i \in Visible(m) : m.md[i].at # m.sw.block
  BY <1>1, <1>2, <1>3, NodeFacts DEF WellFormed
<1>7. QED
  BY <1>0, <1>1, <1>2, <1>4, <1>5, <1>6

\* The effect of the assignments of Reserve, in the parts of the node.
ReservedNode(n) ==
  [sw |-> [n.sw EXCEPT !.count = n.sw.count + 1, !.block = n.sw.block + 1],
   md |-> [n.md EXCEPT ![n.sw.count + 1] = [n.md[n.sw.count + 1] EXCEPT !.at = Reserved]],
   body |-> n.body]

LEMMA ReserveNode ==
  ASSUME NEW n \in Node, WellFormed(n), NEW m, m = ReservedNode(n),
         BodySize - n.sw.count * MdSize - n.sw.block * RecSize >= MdSize + RecSize
  PROVE  /\ m \in Node /\ WellFormed(m) /\ Kept(n, m)
         /\ m.sw.frozen = n.sw.frozen /\ m.sw.count = n.sw.count + 1 /\ m.sw.block = n.sw.block + 1
         /\ ~m.md[m.sw.count].visible /\ m.md[m.sw.count].at = Reserved
         /\ m.body = n.body
         /\ \A i \in Visible(m) : m.md[i].at # m.sw.block
<1>1. PICK c : c = n.sw.count + 1
  OBVIOUS
<1>2. PICK r : r = [n.md[c] EXCEPT !.at = Reserved]
  OBVIOUS
<1>3. /\ c * MdSize + (n.sw.block + 1) * RecSize <= BodySize
      /\ n.sw.block + 1 \in Blocks /\ c \in Slots /\ c \in Nat
  <2>1. 1 * MdSize + RecSize = MdSize + RecSize /\ n.sw.count + 1 # 0
    BY NodeFacts, SizeFacts
  <2>2. QED
    BY <1>1, <2>1, NextRecord, NodeFacts
<1>4. ~r.visible /\ r.at = Reserved /\ r \in Metadata
  <2>1. n.md[c] = ZeroMetadata
    BY <1>1, <1>3, NodeFacts DEF WellFormed
  <2>2. n.md[c] \in Metadata /\ ~n.md[c].visible
    BY <1>3, <2>1, NodeFacts DEF ZeroMetadata
  <2>3. QED
    BY <1>2, <2>2 DEF Metadata
<1>5. /\ m.sw = [n.sw EXCEPT !.count = c, !.block = n.sw.block + 1]
      /\ m.md = [n.md EXCEPT ![c] = r] /\ m.body = n.body
      /\ m = [sw |-> m.sw, md |-> m.md, body |-> m.body]
  BY <1>1, <1>2 DEF ReservedNode
<1>6. m.sw.frozen = n.sw.frozen /\ m.sw.count = c /\ m.sw.block = n.sw.block + 1
  <2>1. n.sw \in StatusWord
    BY NodeFacts
  <2>2. QED
    BY <1>5, <2>1 DEF StatusWord
<1>7. m \in Node
  <2>1. m.sw \in StatusWord
    <3>1. PICK s : s = [n.sw EXCEPT !.count = c]
      OBVIOUS
    <3>2. s \in StatusWord
      BY <1>3, <3>1, NodeFacts DEF StatusWord
    <3>3. m.sw = [s EXCEPT !.block = n.sw.block + 1]
      BY <1>5, <3>1
    <3>4. QED
      BY <1>3, <3>2, <3>3 DEF StatusWord
  <2>2. m.md \in [Slots -> Metadata]
    BY <1>4, <1>5, NodeFacts
  <2>3. QED
    BY <1>5, <2>1, <2>2, NodeFacts DEF Node
<1>8. /\ \A i \in Slots \ {c} : m.md[i] = n.md[i]
      /\ m.md[c] = r
  BY <1>3, <1>5, NodeFacts
<1>9. Visible(m) = Visible(n)
  <2>1. n.sw.count \in Nat /\ 1 .. n.sw.count \subseteq Slots \ {c}
    BY <1>1, NodeFacts
  <2>2. 1 .. m.sw.count = (1 .. n.sw.count) \cup {c}
    BY <1>1, <1>6, <2>1
  <2>3. QED
    BY <1>4, <1>8, <2>1, <2>2 DEF Visible
<1>10. \A i \in Visible(n) : m.md[i] = n.md[i] /\ Record(m, i) = Record(n, i)
  <2>1. Visible(n) \subseteq Slots \ {c}
    BY <1>1, NodeFacts
  <2>2. QED
    BY <1>5, <1>8, <2>1 DEF Record
<1>11. n.sw.count \in Nat /\ n.sw.block \in Nat /\ n.sw.count <= n.sw.block
  BY NodeFacts DEF WellFormed
<1>12. \A i \in Visible(m) : m.md[i].at \in 1 .. n.sw.block
  BY <1>9, <1>10 DEF WellFormed
<1>13. WellFormed(m)
  <2>1. \A i \in Visible(m) : m.md[i].at \in 1 .. m.sw.block
    BY <1>6, <1>11, <1>12
  <2>2. m.sw.count <= m.sw.block
    BY <1>1, <1>6, <1>11
  <2>3. \A i \in Slots : i > m.sw.count => m.md[i] = ZeroMetadata
    <3>1. Slots \subseteq Nat
      BY SizeFacts
    <3>2. \A i \in Slots : i > m.sw.count => i > n.sw.count /\ i # c
      BY <1>1, <1>6, <1>11, <3>1
    <3>3. QED
      BY <1>8, <3>2 DEF WellFormed
  <2>4. m.sw.count * MdSize + m.sw.block * RecSize <= BodySize
    BY <1>3, <1>6
  <2>5. \A i \in Visible(m) : Record(m, i) \in [key : Keys, val : Vals]
    BY <1>9, <1>10 DEF WellFormed
  <2>6. QED
    BY <2>1, <2>2, <2>3, <2>4, <2>5 DEF WellFormed
<1>14. Kept(n, m)
  <2>1. 1 .. n.sw.count \subseteq Slots \ {c}
    BY <1>1, NodeFacts
  <2>2. n.sw.count <= m.sw.count /\ n.sw.block <= m.sw.block
    BY <1>1, <1>6, <1>11
  <2>3. QED
    BY <1>6, <1>8, <1>9, <1>10, <2>1, <2>2 DEF Kept
<1>15. \A i \in Visible(m) : m.md[i].at # m.sw.block
  BY <1>6, <1>11, <1>12
<1>16. ~m.md[m.sw.count].visible /\ m.md[m.sw.count].at = Reserved
  BY <1>4, <1>6, <1>8
<1>17. QED
  BY <1>1, <1>5, <1>6, <1>7, <1>13, <1>14, <1>15, <1>16, Zenon

WrittenNode(n, b, r) == [n EXCEPT !.body[b] = r]

LEMMA WriteNode ==
  ASSUME NEW n \in Node, WellFormed(n), NEW b \in Blocks,
         NEW r \in [key : Keys \cup {None}, val : Vals \cup {None}],
         \A i \in Visible(n) : n.md[i].at # b,
         NEW m, m = WrittenNode(n, b, r)
  PROVE  /\ m \in Node /\ WellFormed(m) /\ Kept(n, m)
         /\ m.sw = n.sw /\ m.md = n.md
         /\ m.body[b] = r
         /\ \A x \in Blocks \ {b} : m.body[x] = n.body[x]
<1>1. m.sw = n.sw /\ m.md = n.md /\ m.body = [n.body EXCEPT ![b] = r] /\ m \in Node
  BY NodeFacts DEF Node, WrittenNode
<1>2. m.body[b] = r /\ \A x \in Blocks \ {b} : m.body[x] = n.body[x]
  BY <1>1, NodeFacts
<1>3. Visible(m) = Visible(n)
  BY <1>1 DEF Visible
<1>4. \A i \in Visible(n) : n.md[i].at \in Blocks
  <2>1. 1 .. n.sw.block \subseteq Blocks
    BY NodeFacts
  <2>2. QED
    BY <2>1 DEF WellFormed
<1>5. \A i \in Visible(n) : Record(m, i) = Record(n, i)
  BY <1>1, <1>2, <1>4 DEF Record
<1>6. WellFormed(m)
  BY <1>1, <1>3, <1>5, Zenon DEF WellFormed
<1>7. Kept(n, m)
  <2>1. n.sw.count <= n.sw.count /\ n.sw.block <= n.sw.block
    BY NodeFacts
  <2>2. QED
    BY <1>1, <1>3, <1>5, <2>1, Zenon DEF Kept
<1>8. QED
  BY <1>1, <1>2, <1>6, <1>7

LEMMA PublishNode ==
  ASSUME NEW n \in Node, WellFormed(n), NEW i \in 1 .. n.sw.count, ~n.md[i].visible,
         n.md[i] # ZeroMetadata, NEW b \in 1 .. n.sw.block,
         n.body[b] \in [key : Keys, val : Vals],
         NEW m, m = [n EXCEPT !.md[i] = [visible |-> TRUE, at |-> b]]
  PROVE  /\ m \in Node /\ WellFormed(m) /\ Grows(n, m)
         /\ m.sw = n.sw /\ m.body = n.body
<1>1. PICK r : r = [visible |-> TRUE, at |-> b]
  OBVIOUS
<1>2. r.visible /\ r.at = b /\ r \in Metadata
  BY <1>1, NodeFacts DEF Metadata
<1>3. i \in Slots /\ b \in Blocks
  BY NodeFacts
<1>4. m.sw = n.sw /\ m.md = [n.md EXCEPT ![i] = r] /\ m.body = n.body /\ m \in Node
  BY <1>1, <1>2, <1>3, NodeFacts DEF Node
<1>5. m.md[i] = r /\ \A j \in Slots \ {i} : m.md[j] = n.md[j]
  BY <1>3, <1>4, NodeFacts
<1>6. Visible(m) = Visible(n) \cup {i} /\ i \notin Visible(n)
  <2>1. 1 .. n.sw.count \subseteq Slots
    BY NodeFacts
  <2>2. QED
    BY <1>2, <1>4, <1>5, <2>1 DEF Visible
<1>7. Record(m, i) = n.body[b]
  BY <1>2, <1>4, <1>5 DEF Record
<1>8. \A j \in Visible(n) : m.md[j] = n.md[j] /\ Record(m, j) = Record(n, j)
  <2>1. Visible(n) \subseteq Slots \ {i}
    BY <1>6, NodeFacts
  <2>2. QED
    BY <1>4, <1>5, <2>1 DEF Record
<1>9. WellFormed(m)
  <2>1. \A j \in Slots : j > m.sw.count => m.md[j] = ZeroMetadata
    <3>1. Slots \subseteq Nat /\ n.sw.count \in Nat
      BY SizeFacts, NodeFacts
    <3>2. \A j \in Slots : j > n.sw.count => j # i
      BY <3>1
    <3>3. QED
      BY <1>4, <1>5, <3>2 DEF WellFormed
  <2>2. \A j \in Visible(m) : m.md[j].at \in 1 .. m.sw.block
                              /\ Record(m, j) \in [key : Keys, val : Vals]
    BY <1>2, <1>4, <1>5, <1>6, <1>7, <1>8 DEF WellFormed
  <2>3. QED
    BY <1>4, <2>1, <2>2 DEF WellFormed
<1>10. Grows(n, m)
  <2>1. n.sw.count <= n.sw.count /\ n.sw.block <= n.sw.block
    BY NodeFacts
  <2>2. \A j \in 1 .. n.sw.count : n.md[j] = ZeroMetadata => m.md[j] = ZeroMetadata
    BY <1>5, NodeFacts
  <2>3. QED
    BY <1>4, <1>6, <1>8, <2>1, <2>2 DEF Grows
<1>11. QED
  BY <1>4, <1>9, <1>10

\* The effect of the assignments of UpdateInstall.
InstalledNode(n, i, d, b) ==
  [sw |-> [n.sw EXCEPT !.deleted = d],
   md |-> [n.md EXCEPT ![i] = [n.md[i] EXCEPT !.at = b]], body |-> n.body]

LEMMA InstallNode ==
  ASSUME NEW n \in Node, WellFormed(n), NEW i \in Visible(n), NEW b \in 1 .. n.sw.block,
         \A j \in Visible(n) : n.md[j].at # b,
         n.body[b] \in [key : Keys, val : Vals],
         NEW d \in Nat,
         NEW m, m = InstalledNode(n, i, d, b)
  PROVE  /\ m \in Node /\ WellFormed(m) /\ Grows(n, m)
         /\ m.sw.frozen = n.sw.frozen /\ m.sw.count = n.sw.count /\ m.sw.block = n.sw.block
         /\ m.body = n.body /\ Visible(m) = Visible(n)
         /\ \A j \in Visible(m) : m.md[j].at = b \/ m.md[j].at = n.md[j].at
<1>1. PICK r : r = [n.md[i] EXCEPT !.at = b]
  OBVIOUS
<1>2. i \in 1 .. n.sw.count /\ i \in Slots /\ b \in Blocks /\ n.md[i].visible
  <2>1. i \in 1 .. n.sw.count /\ i \in Slots /\ b \in Blocks
    BY NodeFacts
  <2>2. n.md[i].visible
    BY DEF Visible
  <2>3. QED
    BY <2>1, <2>2
<1>3. r.visible /\ r.at = b /\ r \in Metadata
  <2>1. n.md[i] \in Metadata
    BY <1>2, NodeFacts
  <2>2. QED
    BY <1>1, <1>2, <2>1 DEF Metadata
<1>4. /\ m.sw = [n.sw EXCEPT !.deleted = d] /\ m.md = [n.md EXCEPT ![i] = r] /\ m.body = n.body
      /\ m = [sw |-> m.sw, md |-> m.md, body |-> m.body]
  BY <1>1 DEF InstalledNode
<1>5. /\ m.sw.frozen = n.sw.frozen /\ m.sw.count = n.sw.count /\ m.sw.block = n.sw.block
      /\ m.sw \in StatusWord
  BY <1>4, NodeFacts DEF StatusWord
<1>6. m \in Node
  <2>1. m.md \in [Slots -> Metadata]
    BY <1>3, <1>4, NodeFacts
  <2>2. QED
    BY <1>4, <1>5, <2>1, NodeFacts DEF Node
<1>7. m.md[i] = r /\ \A j \in Slots \ {i} : m.md[j] = n.md[j]
  BY <1>2, <1>4, NodeFacts
<1>8. Visible(m) = Visible(n)
  <2>1. 1 .. n.sw.count \subseteq Slots
    BY NodeFacts
  <2>2. \A j \in 1 .. n.sw.count : m.md[j].visible <=> n.md[j].visible
    BY <1>2, <1>3, <1>7, <2>1
  <2>3. QED
    BY <1>5, <2>2 DEF Visible
<1>9. Record(m, i) = n.body[b]
  BY <1>3, <1>4, <1>7 DEF Record
<1>10. \A j \in Visible(n) \ {i} : m.md[j] = n.md[j] /\ Record(m, j) = Record(n, j)
  <2>1. Visible(n) \subseteq Slots
    BY NodeFacts
  <2>2. QED
    BY <1>4, <1>7, <2>1 DEF Record
<1>11. \A j \in Visible(m) : m.md[j].at = b \/ m.md[j].at = n.md[j].at
  BY <1>3, <1>7, <1>8, <1>10
<1>12. WellFormed(m)
  <2>1. \A j \in Slots : j > m.sw.count => m.md[j] = ZeroMetadata
    <3>1. Slots \subseteq Nat /\ n.sw.count \in Nat
      BY SizeFacts, NodeFacts
    <3>2. \A j \in Slots : j > n.sw.count => j # i
      BY <1>2, <3>1
    <3>3. QED
      BY <1>5, <1>7, <3>2 DEF WellFormed
  <2>2. \A j \in Visible(m) : m.md[j].at \in 1 .. m.sw.block
    BY <1>5, <1>8, <1>11 DEF WellFormed
  <2>3. \A j \in Visible(m) : Record(m, j) \in [key : Keys, val : Vals]
    BY <1>8, <1>9, <1>10 DEF WellFormed
  <2>4. m.sw.count <= m.sw.block /\ m.sw.count * MdSize + m.sw.block * RecSize <= BodySize
    BY <1>5 DEF WellFormed
  <2>5. QED
    BY <2>1, <2>2, <2>3, <2>4 DEF WellFormed
<1>13. Grows(n, m)
  <2>1. n.sw.count <= n.sw.count /\ n.sw.block <= n.sw.block
    BY NodeFacts
  <2>2. \A j \in 1 .. n.sw.count : n.md[j] = ZeroMetadata => m.md[j] = ZeroMetadata
    <3>1. n.md[i] # ZeroMetadata
      BY <1>2 DEF ZeroMetadata
    <3>2. QED
      BY <1>7, <3>1, NodeFacts
  <2>3. QED
    BY <1>5, <1>8, <2>1, <2>2, Zenon DEF Grows
<1>14. QED
  BY <1>4, <1>5, <1>6, <1>8, <1>11, <1>12, <1>13, Zenon

\* The effect of the assignments of EraseInstall.
ErasedNode(n, i, d) ==
  [sw |-> [n.sw EXCEPT !.deleted = d], md |-> [n.md EXCEPT ![i] = ZeroMetadata], body |-> n.body]

\* Nothing else of the node changes when the entries of others may only be zeroed.
Untouched(n, m) ==
  /\ n.sw.frozen => m.sw.frozen
  /\ m.sw.count = n.sw.count /\ m.sw.block = n.sw.block /\ m.body = n.body
  /\ \A i \in 1 .. n.sw.count : m.md[i] = n.md[i] \/ (n.md[i].visible /\ m.md[i] = ZeroMetadata)

LEMMA EraseNode ==
  ASSUME NEW n \in Node, WellFormed(n), NEW i \in Visible(n), NEW d \in Nat,
         NEW m, m = ErasedNode(n, i, d)
  PROVE  /\ m \in Node /\ WellFormed(m) /\ Grows(n, m) /\ Untouched(n, m)
         /\ m.md[i] = ZeroMetadata
         /\ \A j \in Visible(m) : j \in Visible(n) /\ m.md[j] = n.md[j]
<1>1. i \in 1 .. n.sw.count /\ i \in Slots
  BY NodeFacts
<1>2. ZeroMetadata \in Metadata
  BY DEF ZeroMetadata, Metadata
<1>3. /\ m.sw = [n.sw EXCEPT !.deleted = d] /\ m.md = [n.md EXCEPT ![i] = ZeroMetadata]
      /\ m.body = n.body /\ m = [sw |-> m.sw, md |-> m.md, body |-> m.body]
  BY DEF ErasedNode
<1>4. /\ m.sw.frozen = n.sw.frozen /\ m.sw.count = n.sw.count /\ m.sw.block = n.sw.block
      /\ m.sw \in StatusWord
  BY <1>3, NodeFacts DEF StatusWord
<1>5. m \in Node
  <2>1. m.md \in [Slots -> Metadata]
    BY <1>2, <1>3, NodeFacts
  <2>2. QED
    BY <1>3, <1>4, <2>1, NodeFacts DEF Node
<1>6. m.md[i] = ZeroMetadata /\ \A j \in Slots \ {i} : m.md[j] = n.md[j]
  BY <1>1, <1>3, NodeFacts
<1>7. Visible(m) = Visible(n) \ {i}
  <2>1. 1 .. n.sw.count \subseteq Slots
    BY NodeFacts
  <2>2. ~m.md[i].visible
    BY <1>6 DEF ZeroMetadata
  <2>3. QED
    BY <1>4, <1>6, <2>1, <2>2 DEF Visible
<1>8. \A j \in Visible(m) : m.md[j] = n.md[j] /\ Record(m, j) = Record(n, j)
  <2>1. Visible(m) \subseteq Slots \ {i}
    BY <1>7, NodeFacts
  <2>2. QED
    BY <1>3, <1>6, <2>1 DEF Record
<1>9. WellFormed(m)
  <2>1. \A j \in Slots : j > m.sw.count => m.md[j] = ZeroMetadata
    BY <1>4, <1>6 DEF WellFormed
  <2>2. \A j \in Visible(m) : m.md[j].at \in 1 .. m.sw.block
    BY <1>4, <1>7, <1>8 DEF WellFormed
  <2>3. \A j \in Visible(m) : Record(m, j) \in [key : Keys, val : Vals]
    BY <1>7, <1>8 DEF WellFormed
  <2>4. m.sw.count <= m.sw.block /\ m.sw.count * MdSize + m.sw.block * RecSize <= BodySize
    BY <1>4 DEF WellFormed
  <2>5. QED
    BY <2>1, <2>2, <2>3, <2>4 DEF WellFormed
<1>10. n.sw.count <= n.sw.count /\ n.sw.block <= n.sw.block /\ 1 .. n.sw.count \subseteq Slots
  BY NodeFacts
<1>11. Grows(n, m)
  <2>1. \A j \in 1 .. n.sw.count : n.md[j] = ZeroMetadata => m.md[j] = ZeroMetadata
    BY <1>6, <1>10
  <2>2. QED
    BY <1>4, <1>6, <1>7, <1>8, <1>10, <2>1, Zenon DEF Grows
<1>12. Untouched(n, m)
  <2>1. n.md[i].visible
    BY DEF Visible
  <2>2. \A j \in 1 .. n.sw.count : m.md[j] = n.md[j] \/ (n.md[j].visible /\ m.md[j] = ZeroMetadata)
    BY <1>6, <1>10, <2>1
  <2>3. QED
    BY <1>3, <1>4, <2>2 DEF Untouched
<1>13. QED
  BY <1>5, <1>6, <1>7, <1>8, <1>9, <1>11, <1>12

-----------------------------------------------------------------------------
(***************************************************************************)
(* Compaction: the places of the visible records are those of 1 .. size,   *)
(* each once, since they are different and there are no more.              *)
(***************************************************************************)

\* The visible records that come before that of entry i.
Smaller(n, i) ==
  {j \in Visible(n) : \/ Record(n, j).key < Record(n, i).key
                      \/ Record(n, j).key = Record(n, i).key /\ j < i}

LEMMA VisibleCount ==
  ASSUME NEW n \in Node
  PROVE  /\ IsFiniteSet(Visible(n))
         /\ Cardinality(Visible(n)) \in Nat
         /\ Cardinality(Visible(n)) <= n.sw.count
         /\ \A S \in SUBSET Visible(n) : IsFiniteSet(S) /\ Cardinality(S) \in Nat
<1>1. IsFiniteSet(1 .. n.sw.count) /\ Cardinality(1 .. n.sw.count) = n.sw.count
  <2>1. PICK c \in Nat : c = n.sw.count
    BY NodeFacts
  <2>2. 1 \in Int /\ c \in Int
    OBVIOUS
  <2>3. IsFiniteSet(1 .. c) /\ Cardinality(1 .. c) = IF 1 > c THEN 0 ELSE c - 1 + 1
    BY <2>2, FS_Interval
  <2>4. QED
    BY <2>1, <2>3
<1>2. Visible(n) \in SUBSET (1 .. n.sw.count)
  BY NodeFacts
<1>3. IsFiniteSet(Visible(n)) /\ Cardinality(Visible(n)) <= n.sw.count
  BY <1>1, <1>2, FS_Subset
<1>4. \A S \in SUBSET Visible(n) : IsFiniteSet(S)
  BY <1>3, FS_Subset
<1>5. QED
  BY <1>3, <1>4, FS_CardinalityType

LEMMA VisibleKeys ==
  ASSUME NEW n \in Node, WellFormed(n), NEW j \in Visible(n)
  PROVE  j \in Nat /\ Record(n, j).key \in Nat
<1>1. j \in 1 .. n.sw.count
  BY NodeFacts
<1>2. Record(n, j) \in [key : Keys, val : Vals]
  BY DEF WellFormed
<1>3. Record(n, j).key \in Keys
  BY <1>2
<1>4. Record(n, j).key \in Nat
  BY <1>3, KeysAssumption
<1>5. n.sw.count \in Nat
  BY NodeFacts
<1>6. j \in Nat
  BY <1>1, <1>5
<1>7. QED
  BY <1>4, <1>6

LEMMA PlacesDiffer ==
  ASSUME NEW n \in Node, WellFormed(n), NEW i \in Visible(n), NEW l \in Visible(n),
         i \in Smaller(n, l)
  PROVE  Place(n, i) # Place(n, l)
<1>1. \A j \in Visible(n) : j \in Nat /\ Record(n, j).key \in Nat
  BY VisibleKeys
<1>2. Smaller(n, i) \subseteq Smaller(n, l)
  BY <1>1 DEF Smaller
<1>3. i \notin Smaller(n, i)
  BY <1>1 DEF Smaller
<1>4. Smaller(n, l) \in SUBSET Visible(n) /\ Smaller(n, i) \in SUBSET Visible(n)
  BY DEF Smaller
<1>5. /\ IsFiniteSet(Smaller(n, l)) /\ Cardinality(Smaller(n, l)) \in Nat
      /\ Cardinality(Smaller(n, i)) \in Nat
  BY <1>4, VisibleCount
<1>6. Cardinality(Smaller(n, l)) # Cardinality(Smaller(n, i))
  BY <1>2, <1>3, <1>5, FS_Subset
<1>7. Place(n, i) = Cardinality(Smaller(n, i)) + 1 /\ Place(n, l) = Cardinality(Smaller(n, l)) + 1
  BY DEF Place, Smaller
<1>8. QED
  BY <1>5, <1>6, <1>7

LEMMA PlacesAreOnto ==
  ASSUME NEW n \in Node, WellFormed(n)
  PROVE  /\ \A i \in Visible(n) : Place(n, i) \in 1 .. Cardinality(Visible(n))
         /\ \A i, j \in Visible(n) : Place(n, i) = Place(n, j) => i = j
         /\ \A b \in 1 .. Cardinality(Visible(n)) : \E i \in Visible(n) : Place(n, i) = b
<1>1. PICK V : V = Visible(n)
  OBVIOUS
<1>2. PICK size \in Nat : size = Cardinality(V)
  BY <1>1, VisibleCount
<1>3. ASSUME NEW i \in V
      PROVE  Place(n, i) \in 1 .. size
  <2>1. i \in Nat /\ Record(n, i).key \in Nat
    BY <1>1, VisibleKeys
  <2>2. Smaller(n, i) \in SUBSET (V \ {i})
    BY <1>1, <2>1 DEF Smaller
  <2>3. IsFiniteSet(V \ {i}) /\ Cardinality(V \ {i}) = size - 1
    BY <1>1, <1>2, VisibleCount, FS_RemoveElement
  <2>4. Cardinality(Smaller(n, i)) <= size - 1
    BY <2>2, <2>3, FS_Subset
  <2>5. Cardinality(Smaller(n, i)) \in Nat
    BY <1>1, <2>2, VisibleCount
  <2>6. Place(n, i) = Cardinality(Smaller(n, i)) + 1
    BY DEF Place, Smaller
  <2>7. QED
    BY <2>4, <2>5, <2>6
<1>4. ASSUME NEW i \in V, NEW j \in V, Place(n, i) = Place(n, j)
      PROVE  i = j
  <2>1. /\ i \in Nat /\ Record(n, i).key \in Nat
        /\ j \in Nat /\ Record(n, j).key \in Nat
    BY <1>1, VisibleKeys
  <2>2. i \notin Smaller(n, j) /\ j \notin Smaller(n, i)
    BY <1>1, <1>4, PlacesDiffer
  <2>3. QED
    BY <1>1, <2>1, <2>2 DEF Smaller
<1>5. PICK f : f = [i \in V |-> Place(n, i)]
  OBVIOUS
<1>6. f \in Injection(V, 1 .. size)
  BY <1>3, <1>4, <1>5 DEF Injection, IsInjective
<1>7. IsFiniteSet(1 .. size) /\ Cardinality(1 .. size) = size
  BY FS_Interval
<1>8. f \in Surjection(V, 1 .. size)
  BY <1>2, <1>6, <1>7, FS_Injection
<1>9. \A b \in 1 .. size : \E i \in V : Place(n, i) = b
  BY <1>5, <1>8 DEF Surjection
<1>10. QED
  BY <1>1, <1>2, <1>3, <1>4, <1>9

LEMMA SmallerInterval ==
  ASSUME NEW c \in Nat, NEW q \in Nat, c \in {0} \cup 1 .. q
  PROVE  1 .. c \subseteq 1 .. q
  OBVIOUS

LEMMA CompactNode ==
  ASSUME NEW n \in Node, WellFormed(n), NEW m, m = NodeCompact(n)
  PROVE  m \in Node /\ WellFormed(m)
<1> DEFINE size == Cardinality(Visible(n))
           parts(s) ==
             [sw |-> s,
              md |-> [i \in Slots |-> IF i <= size THEN [visible |-> TRUE, at |-> i] ELSE ZeroMetadata],
              body |-> [b \in Blocks |->
                          IF b <= size
                          THEN Record(n, CHOOSE i \in Visible(n) : Place(n, i) = b) ELSE NoRecord]]
<1>0. m = parts([ZeroStatus EXCEPT !.count = size, !.block = size])
  BY DEF NodeCompact
<1>1. size = Cardinality(Visible(n)) /\ size \in Nat /\ size <= n.sw.count
  BY VisibleCount
<1> HIDE DEF size
<1>2. PICK g : g = [b \in 1 .. size |-> CHOOSE i \in Visible(n) : Place(n, i) = b]
  OBVIOUS
<1>3. \A b \in 1 .. size : g[b] \in Visible(n) /\ Place(n, g[b]) = b
  BY <1>1, <1>2, PlacesAreOnto
<1>4. \A i \in Visible(n) : Place(n, i) \in 1 .. size /\ g[Place(n, i)] = i
  BY <1>1, <1>3, PlacesAreOnto
<1>5. /\ size \in {0} \cup Slots /\ size \in {0} \cup Blocks
      /\ size * MdSize + size * RecSize <= BodySize
  <2>1. n.sw.count \in Nat /\ n.sw.block \in Nat /\ size <= n.sw.block
    BY <1>1, NodeFacts DEF WellFormed
  <2>2. size * MdSize <= n.sw.count * MdSize /\ size * RecSize <= n.sw.block * RecSize
    BY <1>1, <2>1, ProductGrows, SizeFacts
  <2>3. n.sw.count * MdSize + n.sw.block * RecSize <= BodySize
    BY DEF WellFormed
  <2>4. /\ size * MdSize \in Nat /\ size * RecSize \in Nat
        /\ n.sw.count * MdSize \in Nat /\ n.sw.block * RecSize \in Nat
    BY <1>1, <2>1, SizeFacts
  <2>5. size * MdSize + size * RecSize <= BodySize
    BY <2>2, <2>3, <2>4, SizeFacts
  <2>6. size <= BodySize \div RecSize /\ size <= BodySize \div (MdSize + RecSize)
    BY <1>1, <2>5, RoomForRecord, RoomForEntry
  <2>7. QED
    BY <1>1, <2>5, <2>6, SizeFacts DEF Slots, Blocks
<1>6. 1 .. size \subseteq Slots /\ 1 .. size \subseteq Blocks
  <2>1. size \in Nat /\ size \in {0} \cup Slots /\ size \in {0} \cup Blocks
    BY <1>1, <1>5
  <2>2. QED
    BY <2>1, SmallerInterval, SizeFacts DEF Slots, Blocks
<1>7. PICK r : r = [i \in Slots |-> IF i <= size THEN [visible |-> TRUE, at |-> i] ELSE ZeroMetadata]
  OBVIOUS
<1>8. PICK s : s = [ZeroStatus EXCEPT !.count = size, !.block = size]
  OBVIOUS
<1>9. PICK y : y = [b \in Blocks |-> IF b <= size THEN Record(n, g[b]) ELSE NoRecord]
  OBVIOUS
<1>10. m = [sw |-> s, md |-> r, body |-> y]
  <2>1. ASSUME NEW b \in Blocks
        PROVE  (IF b <= size THEN Record(n, g[b]) ELSE NoRecord)
                 = IF b <= size THEN Record(n, CHOOSE i \in Visible(n) : Place(n, i) = b) ELSE NoRecord
    BY <1>1, <1>2, SizeFacts
  <2>2. y = [b \in Blocks |-> IF b <= size
                              THEN Record(n, CHOOSE i \in Visible(n) : Place(n, i) = b) ELSE NoRecord]
    BY <1>9, <2>1
  <2>3. QED
    BY <1>0, <1>7, <1>8, <2>2
<1>11. s = [frozen |-> FALSE, count |-> size, block |-> size, deleted |-> 0]
  BY <1>8 DEF ZeroStatus
<1>12. m.sw.count = size /\ m.sw.block = size /\ m.md = r /\ m.body = y
  BY <1>10, <1>11
<1>13. /\ \A i \in 1 .. size : r[i].visible /\ r[i].at = i
       /\ \A i \in Slots : i > size => r[i] = ZeroMetadata
  BY <1>1, <1>6, <1>7, SizeFacts
<1>14. Visible(m) = 1 .. size
  BY <1>12, <1>13 DEF Visible
<1>15. \A b \in 1 .. size : Record(m, b) = Record(n, g[b])
  BY <1>6, <1>9, <1>12, <1>13, SMTT(40) DEF Record
<1>16. \A b \in 1 .. size : Record(m, b) \in [key : Keys, val : Vals]
  BY <1>3, <1>15 DEF WellFormed
<1>17. m \in Node
  <2>1. s \in StatusWord
    BY <1>5, <1>11 DEF StatusWord
  <2>2. r \in [Slots -> Metadata]
    <3>1. ASSUME NEW i \in Slots PROVE r[i] \in Metadata
      <4>1. CASE i <= size
        <5>1. i \in Blocks /\ r[i] = [visible |-> TRUE, at |-> i]
          <6>1. i \in 1 .. size
            BY <1>1, <4>1, SizeFacts
          <6>2. QED
            BY <1>6, <1>7, <4>1, <6>1
        <5>2. QED
          BY <5>1 DEF Metadata
      <4>2. CASE ~(i <= size)
        <5>1. r[i] = ZeroMetadata
          BY <1>7, <4>2
        <5>2. QED
          BY <5>1 DEF ZeroMetadata, Metadata
      <4>3. QED
        BY <4>1, <4>2
    <3>2. QED
      BY <1>7, <3>1
  <2>3. y \in [Blocks -> [key : Keys \cup {None}, val : Vals \cup {None}]]
    <3>1. NoRecord \in [key : Keys \cup {None}, val : Vals \cup {None}]
      BY DEF NoRecord
    <3>2. \A b \in 1 .. size : Record(n, g[b]) \in [key : Keys \cup {None}, val : Vals \cup {None}]
      BY <1>15, <1>16
    <3>3. \A b \in Blocks : b <= size => b \in 1 .. size
      BY <1>1, SizeFacts DEF Blocks
    <3>4. QED
      BY <1>9, <3>1, <3>2, <3>3
  <2>4. QED
    BY <1>10, <2>1, <2>2, <2>3 DEF Node
<1>18. WellFormed(m)
  <2>1. \A b \in 1 .. size : m.md[b].at \in 1 .. m.sw.block
    BY <1>12, <1>13
  <2>2. m.sw.count <= m.sw.block /\ m.sw.count * MdSize + m.sw.block * RecSize <= BodySize
    BY <1>1, <1>5, <1>12
  <2>3. QED
    BY <1>12, <1>13, <1>14, <1>16, <2>1, <2>2 DEF WellFormed
<1>19. QED
  BY <1>17, <1>18

LEMMA WithoutNode ==
  ASSUME NEW n \in Node, WellFormed(n), NEW gone, NEW m, m = Without(n, gone)
  PROVE  m \in Node /\ WellFormed(m)
<1>1. PICK d : d = [i \in Slots |-> IF i \in gone THEN ZeroMetadata ELSE n.md[i]]
  OBVIOUS
<1>2. /\ m.sw = n.sw /\ m.body = n.body /\ m.md = d
      /\ m = [sw |-> n.sw, md |-> d, body |-> n.body]
  BY <1>1 DEF Without, Node
<1>3. \A i \in Slots : d[i] \in {ZeroMetadata, n.md[i]}
  BY <1>1
<1>4. m \in Node
  <2>1. ZeroMetadata \in Metadata
    BY DEF ZeroMetadata, Metadata
  <2>2. d \in [Slots -> Metadata]
    BY <1>1, <2>1, NodeFacts
  <2>3. QED
    BY <1>2, <2>2, NodeFacts DEF Node
<1>5. \A i \in Visible(m) : i \in Visible(n) /\ m.md[i] = n.md[i] /\ Record(m, i) = Record(n, i)
  <2>1. \A i \in Visible(m) : i \in 1 .. n.sw.count /\ i \in Slots /\ d[i].visible
    BY <1>2, NodeFacts DEF Visible
  <2>2. \A i \in Visible(m) : d[i] = n.md[i]
    BY <1>3, <2>1 DEF ZeroMetadata
  <2>3. QED
    BY <1>2, <2>1, <2>2 DEF Visible, Record
<1>6. WellFormed(m)
  <2>1. \A i \in Slots : i > m.sw.count => m.md[i] = ZeroMetadata
    BY <1>2, <1>3 DEF WellFormed
  <2>2. \A i \in Visible(m) : m.md[i].at \in 1 .. m.sw.block
                              /\ Record(m, i) \in [key : Keys, val : Vals]
    BY <1>2, <1>5 DEF WellFormed
  <2>3. QED
    BY <1>2, <2>1, <2>2 DEF WellFormed
<1>7. QED
  BY <1>4, <1>6

-----------------------------------------------------------------------------
(***************************************************************************)
(* What a step of t leaves true for the calls of the others.               *)
(***************************************************************************)

Still(t) ==
  \A u \in Threads \ {t} :
    /\ pc'[u] = pc[u] /\ calls'[u] = calls[u] /\ leaf'[u] = leaf[u] /\ index'[u] = index[u]
    /\ sw'[u] = sw[u] /\ md'[u] = md[u] /\ new_root'[u] = new_root[u]

\* Its node n becomes m as the call of u expects.
Expected(u, n, m) ==
  /\ Grows(n, m)
  /\ pc[u] \in InsertLabels => Untouched(n, m)
  /\ pc[u] \in {"rewrite", "install"} =>
       /\ m.body[sw[u].block] = n.body[sw[u].block]
       /\ \A i \in Visible(m) : m.md[i].at # sw[u].block

Gently(t) ==
  /\ Still(t)
  /\ \A u \in Threads \ {t} : Active(u) => Expected(u, node[leaf[u]], node'[leaf[u]])

LEMMA UntouchedEntries ==
  ASSUME NEW n \in Node, NEW m \in Node, Untouched(n, m)
  PROVE  \A i \in Visible(m) : i \in Visible(n) /\ m.md[i] = n.md[i]
<1>1. \A i \in 1 .. n.sw.count : m.md[i].visible => m.md[i] = n.md[i]
  BY DEF Untouched, ZeroMetadata
<1>2. m.sw.count = n.sw.count
  BY DEF Untouched
<1>3. QED
  BY <1>1, <1>2 DEF Visible

\* What the calls of the others know stays true.
LEMMA OthersKeep ==
  ASSUME LeafTreeInv, Types', NEW t \in Threads, Gently(t), NEW u \in Threads \ {t}
  PROVE  CallInv(u)'
<1>1. PICK n \in Node, m \in Node :
        /\ n = node[leaf[u]] /\ m = node'[leaf[u]] /\ m = node'[leaf'[u]] /\ WellFormed(n)
  BY DEF LeafTreeInv, Types, NodeInv, Gently, Still
<1>2. /\ pc'[u] = pc[u] /\ calls'[u] = calls[u] /\ leaf'[u] = leaf[u] /\ index'[u] = index[u]
      /\ sw'[u] = sw[u] /\ md'[u] = md[u]
  BY DEF Gently, Still
<1>3. Active(u) => Expected(u, n, m)
  BY <1>1 DEF Gently
<1>4. CallInv(u) /\ index[u] \in Nat
  BY DEF LeafTreeInv, Types
<1>5. n.sw.count \in Nat /\ m.sw.count \in Nat /\ n.sw.block \in Nat /\ m.sw.block \in Nat
  BY NodeFacts
<1>6. IndexInv(u)'
  <2>1. SUFFICES ASSUME pc[u] \in {"fetch"} \cup UpdateLabels \cup EraseLabels
                 PROVE  /\ index[u] \in 1 .. m.sw.count
                        /\ index[u] \in Visible(m) \/ m.md[index[u]] = ZeroMetadata
                        /\ pc[u] \in {"rewrite", "install", "erase"} => md[u].visible /\ ~sw[u].frozen
    BY <1>1, <1>2 DEF IndexInv, Leaf
  <2>2. /\ index[u] \in 1 .. n.sw.count
        /\ index[u] \in Visible(n) \/ n.md[index[u]] = ZeroMetadata
        /\ pc[u] \in {"rewrite", "install", "erase"} => md[u].visible /\ ~sw[u].frozen
    BY <1>1, <1>4, <2>1 DEF CallInv, IndexInv, Leaf
  <2>3. Expected(u, n, m)
    BY <1>3, <2>1 DEF Active, UpdateLabels, EraseLabels
  <2>4. Grows(n, m) /\ n.sw.count <= m.sw.count
    BY <2>3 DEF Expected, Grows
  <2>5. index[u] \in 1 .. m.sw.count
    BY <1>4, <1>5, <2>2, <2>4
  <2>6. index[u] \in Visible(m) \/ m.md[index[u]] = ZeroMetadata
    BY <2>2, <2>4 DEF Grows
  <2>7. QED
    BY <2>2, <2>5, <2>6
<1>7. InsertInv(u)'
  <2>1. SUFFICES ASSUME pc[u] \in InsertLabels
                 PROVE  InsertInv(u)'
    BY <1>2 DEF InsertInv, InsertLabels
  <2>2. Untouched(n, m)
    BY <1>3, <2>1 DEF Active, InsertLabels, Expected
  <2>3. m.sw.count = n.sw.count /\ m.sw.block = n.sw.block /\ m.body = n.body
    BY <2>2 DEF Untouched
  <2>4. /\ n.sw.count >= 1 /\ ~n.md[n.sw.count].visible
        => m.md[n.sw.count] = n.md[n.sw.count]
    BY <1>5, <2>2 DEF Untouched
  <2>5. \A i \in Visible(m) : i \in Visible(n) /\ m.md[i] = n.md[i]
    BY <2>2, UntouchedEntries
  <2>6. InsertInv(u)
    BY <1>4 DEF CallInv
  <2>7. Leaf(u) = n /\ Leaf(u)' = m
    BY <1>1 DEF Leaf
  <2>8. QED
    BY <1>2, <2>3, <2>4, <2>5, <2>6, <2>7 DEF InsertInv
<1>8. UpdateInv(u)'
  <2>1. SUFFICES ASSUME pc[u] \in {"rewrite", "install"}
                 PROVE  UpdateInv(u)'
    BY <1>2 DEF UpdateInv
  <2>2. Expected(u, n, m)
    BY <1>3, <2>1 DEF Active
  <2>3. /\ m.body[sw[u].block] = n.body[sw[u].block] /\ n.sw.block <= m.sw.block
        /\ \A i \in Visible(m) : m.md[i].at # sw[u].block
    BY <2>1, <2>2 DEF Expected, Grows
  <2>4. UpdateInv(u)
    BY <1>4 DEF CallInv
  <2>5. sw[u].block \in 1 .. m.sw.block
    BY <1>1, <1>5, <2>1, <2>3, <2>4 DEF UpdateInv, Leaf
  <2>6. Leaf(u) = n /\ Leaf(u)' = m
    BY <1>1 DEF Leaf
  <2>7. QED
    BY <1>2, <2>1, <2>3, <2>4, <2>5, <2>6 DEF UpdateInv
<1>9. QED
  BY <1>6, <1>7, <1>8 DEF CallInv

-----------------------------------------------------------------------------
(***************************************************************************)
(* Steps that change the leaf of t in place, or nothing of the tree.       *)
(***************************************************************************)

LEMMA IdleIsNoCall ==
  /\ Idle \notin Call
  /\ \A c \in Call : c.op # "none" /\ c.op \in Operations /\ c.key \in Keys /\ c.val \in Vals \cup {None}
<1>1. \A c \in Call : c.op \in Operations /\ c.key \in Keys /\ c.val \in Vals \cup {None}
  BY DEF Call
<1>2. "none" \notin Operations
  BY DEF Operations
<1>3. Idle.op = "none"
  BY DEF Idle
<1>4. QED
  BY <1>1, <1>2, <1>3

\* Nothing is unexpected in a node that does not change.
LEMMA ExpectedItself ==
  ASSUME LeafTreeInv, NEW u \in Threads
  PROVE  Expected(u, Leaf(u), Leaf(u))
<1>1. PICK n \in Node : n = Leaf(u)
  BY DEF LeafTreeInv, Types, Leaf
<1>2. Grows(n, n)
  BY KeptItself, KeptIsSame
<1>3. Untouched(n, n)
  BY DEF Untouched
<1>4. pc[u] \in {"rewrite", "install"} => \A i \in Visible(n) : n.md[i].at # sw[u].block
  BY <1>1 DEF LeafTreeInv, CallInv, UpdateInv
<1>5. QED
  BY <1>1, <1>2, <1>3, <1>4 DEF Expected

\* The leaf of t becomes m.
InPlace(t, m) ==
  /\ m \in Node /\ WellFormed(m)
  /\ node' = [node EXCEPT ![leaf[t]] = m]
  /\ UNCHANGED <<root, allocated>>
  /\ Grows(Leaf(t), m)
  /\ Leaf(t).sw.frozen => Kept(Leaf(t), m)

\* Where t is afterwards.
StaysIn(t) ==
  /\ pc'[t] # "swing" /\ new_root'[t] = 0
  /\ leaf'[t] \in {0, leaf[t], root}
  /\ pc'[t] \notin {"idle", "traverse"} => leaf'[t] = root \/ (Active(t) /\ leaf'[t] = leaf[t])
  /\ pc'[t] = "compact" => node'[leaf'[t]].sw.frozen

LEMMA InPlaceNodes ==
  ASSUME LeafTreeInv, NEW t \in Threads, NEW m, InPlace(t, m)
  PROVE  /\ node' \in [Nodes -> Node] /\ NodeInv' /\ root' = root /\ allocated' = allocated
         /\ node'[leaf[t]] = m /\ \A n \in Nodes \ {leaf[t]} : node'[n] = node[n]
         /\ \A n \in Nodes : node[n].sw.frozen => Kept(node[n], node'[n])
<1>1. node \in [Nodes -> Node] /\ leaf[t] \in Nodes
  BY DEF LeafTreeInv, Types
<1>2. node'[leaf[t]] = m /\ \A n \in Nodes \ {leaf[t]} : node'[n] = node[n]
  BY <1>1 DEF InPlace
<1>3. node' \in [Nodes -> Node]
  BY <1>1 DEF InPlace
<1>4. NodeInv'
  BY <1>2 DEF NodeInv, InPlace, LeafTreeInv
<1>5. \A n \in Nodes : node[n].sw.frozen => Kept(node[n], node'[n])
  BY <1>1, <1>2, KeptItself DEF InPlace, Leaf
<1>6. QED
  BY <1>2, <1>3, <1>4, <1>5 DEF InPlace

LEMMA InPlaceGently ==
  ASSUME LeafTreeInv, NEW t \in Threads, NEW m, InPlace(t, m), Still(t),
         \A u \in Threads \ {t} : Active(u) /\ leaf[u] = leaf[t] => Expected(u, Leaf(t), m)
  PROVE  Gently(t)
<1>1. node'[leaf[t]] = m /\ \A n \in Nodes \ {leaf[t]} : node'[n] = node[n]
  BY InPlaceNodes
<1>2. leaf \in [Threads -> Nodes]
  BY DEF LeafTreeInv, Types
<1>3. ASSUME NEW u \in Threads \ {t}, Active(u)
      PROVE  Expected(u, node[leaf[u]], node'[leaf[u]])
  <2>1. CASE leaf[u] = leaf[t]
    BY <1>1, <1>3, <2>1 DEF Leaf
  <2>2. CASE leaf[u] # leaf[t]
    BY <1>1, <1>2, <2>2, ExpectedItself DEF Leaf
  <2>3. QED
    BY <2>1, <2>2
<1>4. QED
  BY <1>3 DEF Gently

LEMMA InPlaceLeaves ==
  ASSUME LeafTreeInv, NEW t \in Threads, NEW m, InPlace(t, m), Still(t), StaysIn(t), pc[t] # "swing"
  PROVE  LeafInv'
<1>1. /\ node' \in [Nodes -> Node] /\ root' = root /\ allocated' = allocated
      /\ \A n \in Nodes \ {leaf[t]} : node'[n] = node[n]
      /\ \A n \in Nodes : node[n].sw.frozen => Kept(node[n], node'[n])
  BY InPlaceNodes
<1>2. \A n \in Nodes : node[n].sw.frozen => node'[n].sw.frozen
  BY <1>1 DEF Kept
<1>3. /\ root \in Nodes /\ node \in [Nodes -> Node] /\ leaf \in [Threads -> Nodes]
      /\ new_root \in [Threads -> Nodes] /\ 0 \in Nodes
  BY NodesAssumption DEF LeafTreeInv, Types
<1>4. LeafInv
  BY DEF LeafTreeInv
<1>5. {0, root'} \subseteq allocated'
  BY <1>1, <1>4 DEF LeafInv
<1>6. /\ leaf'[t] \in allocated' /\ new_root'[t] \in allocated'
      /\ (pc'[t] \notin {"idle", "traverse"} /\ leaf'[t] # root' => node'[leaf'[t]].sw.frozen)
      /\ (pc'[t] \in {"compact", "swing"} => node'[leaf'[t]].sw.frozen)
  <2>1. leaf'[t] \in allocated' /\ new_root'[t] \in allocated'
    BY <1>1, <1>4 DEF LeafInv, StaysIn
  <2>2. ASSUME pc'[t] \notin {"idle", "traverse"}, leaf'[t] # root'
        PROVE  node'[leaf'[t]].sw.frozen
    <3>1. Active(t) /\ leaf'[t] = leaf[t] /\ leaf[t] # root
      BY <1>1, <2>2 DEF StaysIn
    <3>2. node[leaf[t]].sw.frozen
      BY <1>4, <3>1 DEF LeafInv, Leaf
    <3>3. QED
      BY <1>2, <1>3, <3>1, <3>2
  <2>3. QED
    BY <2>1, <2>2 DEF StaysIn
<1>7. ASSUME NEW u \in Threads \ {t}
      PROVE  /\ leaf'[u] \in allocated' /\ new_root'[u] \in allocated'
             /\ (pc'[u] \notin {"idle", "traverse"} /\ leaf'[u] # root' => node'[leaf'[u]].sw.frozen)
             /\ (pc'[u] \in {"compact", "swing"} => node'[leaf'[u]].sw.frozen)
             /\ (pc'[u] # "swing" => new_root'[u] = 0)
  <2>1. pc'[u] = pc[u] /\ leaf'[u] = leaf[u] /\ new_root'[u] = new_root[u] /\ leaf[u] \in Nodes
    BY <1>3 DEF Still
  <2>2. QED
    BY <1>1, <1>2, <1>4, <2>1 DEF LeafInv, Leaf, Active
<1>8. ASSUME NEW u \in Threads, pc'[u] = "swing"
      PROVE  /\ new_root'[u] \notin {0, root'}
             /\ \A v \in Threads : new_root'[u] # leaf'[v]
             /\ \A v \in Threads \ {u} : new_root'[u] # new_root'[v]
  <2>1. u # t
    BY <1>8 DEF StaysIn
  <2>2. /\ pc[u] = "swing" /\ leaf'[u] = leaf[u] /\ new_root'[u] = new_root[u]
    BY <1>8, <2>1 DEF Still
  <2>3. /\ new_root[u] \notin {0, root} /\ Leaf(u).sw.frozen
        /\ \A v \in Threads : new_root[u] # leaf[v]
        /\ \A v \in Threads \ {u} : new_root[u] # new_root[v]
    BY <1>4, <2>2 DEF LeafInv
  <2>4. \A v \in Threads : new_root[u] # leaf'[v]
    BY <2>1, <2>3 DEF Still, StaysIn
  <2>5. \A v \in Threads \ {u} : new_root[u] # new_root'[v]
    BY <2>1, <2>3 DEF Still, StaysIn
  <2>6. QED
    BY <1>1, <2>2, <2>3, <2>4, <2>5
<1>9. QED
  BY <1>5, <1>6, <1>7, <1>8 DEF LeafInv, StaysIn, Leaf, Active

-----------------------------------------------------------------------------
\* The types of the variables of the calls.
CallTypes ==
  /\ pc \in [Threads -> Labels]
  /\ calls \in [Threads -> Call \cup {Idle}]
  /\ leaf \in [Threads -> Nodes]
  /\ index \in [Threads -> Nat]
  /\ sw \in [Threads -> StatusWord]
  /\ md \in [Threads -> Metadata]
  /\ new_root \in [Threads -> Nodes]
  /\ protected \in [Threads -> BOOLEAN]
  /\ left \in [Threads -> Nat]
  /\ result \in [Threads -> Vals \cup {None, Garbage} \cup BOOLEAN]
  /\ aborted \in BOOLEAN

\* The label of an operation.
Fits(l, op) ==
  /\ l \in Labels \ ({"idle"} \cup Settled)
  /\ l \in InsertLabels => op = "insert"
  /\ l \in UpdateLabels => op = "update"
  /\ l \in EraseLabels => op = "erase"
  /\ l = "fetch" => op = "lookup"
  /\ l \in CompactLabels => op \in {"insert", "update"}

\* The label of an operation that has taken effect.
Settles(l, op) ==
  \/ l = "published" /\ op = "insert"
  \/ l = "installed" /\ op = "update"
  \/ l = "erased" /\ op = "erase"

\* The call of t ends, takes effect or goes on.
Continues(t) ==
  /\ pc[t] # "idle"
  /\ \/ pc'[t] = "idle" /\ calls'[t] = Idle
     \/ pc[t] \notin Settled /\ calls'[t] = Idle /\ Settles(pc'[t], calls[t].op)
     \/ pc[t] \notin Settled /\ calls'[t] = calls[t] /\ Fits(pc'[t], calls[t].op)

\* and reserves no record for an update.
Moves(t) ==
  /\ Continues(t)
  /\ \/ pc'[t] \notin {"rewrite", "install"}
     \/ pc[t] \in {"rewrite", "install"} /\ leaf'[t] = leaf[t] /\ sw'[t] = sw[t]

LEMMA OperationIs ==
  ASSUME NEW u
  PROVE  /\ pc[u] = "published" => Operation(u) = "insert"
         /\ pc[u] = "installed" => Operation(u) = "update"
         /\ pc[u] = "erased" => Operation(u) = "erase"
         /\ pc[u] \notin Settled => Operation(u) = calls[u].op
         /\ pc'[u] = "published" => Operation(u)' = "insert"
         /\ pc'[u] = "installed" => Operation(u)' = "update"
         /\ pc'[u] = "erased" => Operation(u)' = "erase"
         /\ pc'[u] \notin Settled => Operation(u)' = calls'[u].op
  BY DEF Operation, Settled

LEMMA OpKeeps ==
  ASSUME LeafTreeInv, NEW t \in Threads, Still(t), Continues(t)
  PROVE  OpInv'
<1>1. OpInv /\ calls \in [Threads -> Call \cup {Idle}]
  BY DEF LeafTreeInv, Types
<1>2. pc[t] \notin Settled => calls[t] # Idle
  BY <1>1 DEF OpInv, Continues
<1>3. ASSUME NEW u \in Threads
      PROVE  /\ calls'[u] = Idle <=> pc'[u] \in {"idle"} \cup Settled
             /\ calls'[u].op \in {"insert", "update"} => calls'[u].val \in Vals
             /\ pc'[u] \in InsertLabels => calls'[u].op = "insert"
             /\ pc'[u] \in UpdateLabels => calls'[u].op = "update"
             /\ pc'[u] \in EraseLabels => calls'[u].op = "erase"
             /\ pc'[u] = "fetch" => calls'[u].op = "lookup"
             /\ pc'[u] \in CompactLabels => calls'[u].op \in {"insert", "update"}
  <2>1. CASE u # t
    <3>1. pc'[u] = pc[u] /\ calls'[u] = calls[u]
      BY <2>1 DEF Still
    <3>2. QED
      BY <1>1, <3>1 DEF OpInv
  <2>2. CASE u = t /\ pc'[t] \in {"idle"} \cup Settled /\ calls'[t] = Idle
    BY <2>2 DEF Idle, Settled, InsertLabels, UpdateLabels, EraseLabels, CompactLabels
  <2>3. CASE u = t /\ pc[t] \notin Settled /\ calls'[t] = calls[t] /\ Fits(pc'[t], calls[t].op)
    BY <1>1, <1>2, <2>3 DEF OpInv, Fits
  <2>4. QED
    BY <2>1, <2>2, <2>3 DEF Continues, Settles, Settled
<1>4. ASSUME NEW u \in Threads, pc'[u] # "idle"
      PROVE  pc[u] # "idle" /\ Operation(u)' = Operation(u)
  <2>1. CASE u # t
    <3>1. pc'[u] = pc[u] /\ calls'[u] = calls[u]
      BY <2>1 DEF Still
    <3>2. QED
      BY <1>4, <3>1 DEF Operation
  <2>2. CASE u = t
    <3>1. pc[t] \notin Settled /\ pc[t] # "idle"
      BY <1>4, <2>2 DEF Continues
    <3>2. CASE Settles(pc'[t], calls[t].op)
      BY <2>2, <3>1, <3>2, OperationIs DEF Settles
    <3>3. CASE calls'[t] = calls[t] /\ Fits(pc'[t], calls[t].op)
      BY <2>2, <3>1, <3>3, OperationIs DEF Fits
    <3>4. QED
      BY <1>4, <2>2, <3>2, <3>3 DEF Continues
  <2>3. QED
    BY <2>1, <2>2
<1>5. \A v, u \in Threads : v # u /\ pc'[v] # "idle" /\ pc'[u] # "idle" =>
        {Operation(v)', Operation(u)'} \in Overlap
  BY <1>1, <1>4 DEF OpInv
<1>6. QED
  BY <1>3, <1>5 DEF OpInv

LEMMA ApartKeeps ==
  ASSUME LeafTreeInv, NEW t \in Threads, Still(t), Moves(t)
  PROVE  ApartInv'
<1>1. \A u \in Threads : pc'[u] \in {"rewrite", "install"} =>
        pc[u] \in {"rewrite", "install"} /\ leaf'[u] = leaf[u] /\ sw'[u] = sw[u]
  BY DEF Still, Moves
<1>2. QED
  BY <1>1 DEF ApartInv, LeafTreeInv

\* A call knows nothing of its leaf before and after its work there.
LEMMA WorkIsDone ==
  ASSUME NEW t, pc'[t] \in {"idle", "traverse", "scan", "freeze", "compact", "swing"} \cup Settled
  PROVE  CallInv(t)'
  BY DEF CallInv, IndexInv, InsertInv, UpdateInv, InsertLabels, UpdateLabels, EraseLabels, Settled

\* A step that changes at most the leaf of t keeps the invariant.
LEMMA InPlaceStep ==
  ASSUME LeafTreeInv, NEW t \in Threads, NEW m, InPlace(t, m), Still(t), StaysIn(t),
         Continues(t), ApartInv', CallTypes', pc[t] # "swing",
         \A u \in Threads \ {t} : Active(u) /\ leaf[u] = leaf[t] => Expected(u, Leaf(t), m),
         CallInv(t)'
  PROVE  LeafTreeInv'
<1>1. /\ node' \in [Nodes -> Node] /\ NodeInv' /\ root' = root /\ allocated' = allocated
  BY InPlaceNodes
<1>2. Types'
  BY <1>1 DEF CallTypes, Types, LeafTreeInv
<1>3. OpInv' /\ ApartInv'
  BY OpKeeps
<1>4. LeafInv'
  BY InPlaceLeaves
<1>5. Gently(t)
  BY InPlaceGently
<1>6. \A u \in Threads \ {t} : CallInv(u)'
  BY <1>2, <1>5, OthersKeep
<1>7. QED
  BY <1>1, <1>2, <1>3, <1>4, <1>6 DEF LeafTreeInv

LEMMA InPlaceKeeps ==
  ASSUME LeafTreeInv, NEW t \in Threads, NEW m, InPlace(t, m), Still(t), StaysIn(t),
         Moves(t), CallTypes', pc[t] # "swing",
         \A u \in Threads \ {t} : Active(u) /\ leaf[u] = leaf[t] => Expected(u, Leaf(t), m),
         CallInv(t)'
  PROVE  LeafTreeInv'
<1>1. ApartInv' /\ Continues(t)
  BY ApartKeeps DEF Moves
<1>2. QED
  BY <1>1, InPlaceStep

\* No step of t changes a node: InPlace for the leaf as it is.
LEMMA NothingInPlace ==
  ASSUME LeafTreeInv, NEW t \in Threads, UNCHANGED treeVars
  PROVE  /\ InPlace(t, Leaf(t))
         /\ \A u \in Threads \ {t} : Active(u) /\ leaf[u] = leaf[t] => Expected(u, Leaf(t), Leaf(t))
<1>1. Leaf(t) \in Node /\ node \in [Nodes -> Node] /\ leaf[t] \in Nodes /\ WellFormed(Leaf(t))
  BY DEF LeafTreeInv, Types, Leaf, NodeInv
<1>2. node' = [node EXCEPT ![leaf[t]] = Leaf(t)]
  BY <1>1 DEF treeVars, Leaf
<1>3. Kept(Leaf(t), Leaf(t)) /\ Grows(Leaf(t), Leaf(t))
  BY <1>1, KeptItself, KeptIsSame
<1>4. InPlace(t, Leaf(t))
  BY <1>1, <1>2, <1>3 DEF InPlace, treeVars
<1>5. QED
  BY <1>4, ExpectedItself DEF Leaf

-----------------------------------------------------------------------------
(***************************************************************************)
(* The steps, one by one.                                                  *)
(***************************************************************************)

LEMMA RetryIs ==
  ASSUME LeafTreeInv, NEW t \in Threads, pc[t] \notin {"idle"} \cup Settled, Retry(t),
         UNCHANGED aborted
  PROVE  Still(t) /\ StaysIn(t) /\ Moves(t) /\ CallTypes' /\ CallInv(t)'
<1>1. /\ Types /\ 0 \in Nodes
  BY NodesAssumption DEF LeafTreeInv
<1>2. ZeroStatus \in StatusWord /\ ZeroMetadata \in Metadata /\ "traverse" \in Labels
  BY DEF ZeroStatus, StatusWord, ZeroMetadata, Metadata, Labels
<1>3. CallTypes'
  BY <1>1, <1>2 DEF Types, CallTypes, Retry, GoTo, Reset, callVars
<1>4. pc'[t] = "traverse" /\ leaf'[t] = 0 /\ new_root'[t] = 0 /\ calls' = calls
  BY <1>1 DEF Types, Retry, GoTo, Reset, callVars
<1>5. Still(t)
  BY <1>1 DEF Types, Retry, GoTo, Reset, Still, callVars
<1>6. StaysIn(t)
  BY <1>4 DEF StaysIn
<1>7. Moves(t)
  BY <1>4 DEF Moves, Continues, Fits, Labels, InsertLabels, UpdateLabels, EraseLabels, CompactLabels,
    Settled
<1>8. QED
  BY <1>3, <1>4, <1>5, <1>6, <1>7, WorkIsDone

LEMMA ReturnIs ==
  ASSUME LeafTreeInv, NEW t \in Threads, pc[t] # "idle", UNCHANGED aborted,
         NEW r \in Vals \cup {None, Garbage} \cup BOOLEAN, Return(t, r)
  PROVE  Still(t) /\ StaysIn(t) /\ Moves(t) /\ CallTypes' /\ CallInv(t)'
<1>1. /\ Types /\ 0 \in Nodes
  BY NodesAssumption DEF LeafTreeInv
<1>2. ZeroStatus \in StatusWord /\ ZeroMetadata \in Metadata /\ "idle" \in Labels
  BY DEF ZeroStatus, StatusWord, ZeroMetadata, Metadata, Labels
<1>3. CallTypes'
  <2>1. protected' \in [Threads -> BOOLEAN]
    BY <1>1 DEF Types, Return
  <2>2. QED
    BY <1>1, <1>2, <2>1 DEF Types, CallTypes, Return, GoTo, Reset
<1>4. pc'[t] = "idle" /\ leaf'[t] = 0 /\ new_root'[t] = 0 /\ calls'[t] = Idle
  BY <1>1 DEF Types, Return, GoTo, Reset
<1>5. Still(t)
  BY <1>1 DEF Types, Return, GoTo, Reset, Still
<1>6. StaysIn(t)
  BY <1>4 DEF StaysIn
<1>7. Moves(t)
  BY <1>4 DEF Moves, Continues
<1>8. QED
  BY <1>3, <1>4, <1>5, <1>6, <1>7, WorkIsDone

\* The call of t takes effect and goes on to label l.
LEMMA SucceedIs ==
  ASSUME LeafTreeInv, NEW t \in Threads, Active(t), pc[t] \notin {"swing"} \cup Settled,
         UNCHANGED aborted, NEW l, Settles(l, calls[t].op), Succeed(t, l)
  PROVE  Still(t) /\ StaysIn(t) /\ Moves(t) /\ CallTypes' /\ CallInv(t)'
<1>1. Types
  BY DEF LeafTreeInv
<1>2. l \in Settled /\ l \in Labels
  BY DEF Settles, Settled, Labels
<1>3. CallTypes'
  <2>1. result' \in [Threads -> Vals \cup {None, Garbage} \cup BOOLEAN]
    BY <1>1 DEF Types, Succeed
  <2>2. QED
    BY <1>1, <1>2, <2>1 DEF Types, CallTypes, Succeed, GoTo, localVars
<1>4. pc'[t] = l /\ leaf'[t] = leaf[t] /\ new_root'[t] = new_root[t] /\ calls'[t] = Idle
  BY <1>1 DEF Types, Succeed, GoTo, localVars
<1>5. Still(t)
  BY <1>1 DEF Types, Succeed, GoTo, localVars, Still
<1>6. StaysIn(t)
  <2>1. new_root[t] = 0
    BY DEF LeafTreeInv, LeafInv
  <2>2. QED
    BY <1>2, <1>4, <2>1 DEF StaysIn, Settled
<1>7. Moves(t)
  BY <1>2, <1>4 DEF Moves, Continues, Active, Settled
<1>8. QED
  BY <1>2, <1>3, <1>4, <1>5, <1>6, <1>7, WorkIsDone

\* t goes on at label l, and perhaps sets its sw and md.
Goes(t, l) ==
  /\ GoTo(t, l)
  /\ UNCHANGED <<leaf, new_root, aborted, callVars>>
  /\ \A u \in Threads \ {t} : index'[u] = index[u] /\ sw'[u] = sw[u] /\ md'[u] = md[u]
  /\ index' \in [Threads -> Nat] /\ sw' \in [Threads -> StatusWord] /\ md' \in [Threads -> Metadata]

LEMMA GoesIs ==
  ASSUME LeafTreeInv, NEW t \in Threads, Active(t), pc[t] \notin {"swing"} \cup Settled,
         NEW l, Goes(t, l), Fits(l, calls[t].op), l \notin {"traverse", "compact", "swing"},
         l = "install" => sw'[t] = sw[t] /\ pc[t] = "rewrite", l # "rewrite"
  PROVE  Still(t) /\ StaysIn(t) /\ Moves(t) /\ CallTypes'
<1>1. Types
  BY DEF LeafTreeInv
<1>2. l \in Labels /\ pc[t] # "idle"
  BY DEF Fits, Active
<1>3. pc' = [pc EXCEPT ![t] = l] /\ pc'[t] = l /\ leaf' = leaf /\ new_root' = new_root /\ calls' = calls
  BY <1>1 DEF Types, Goes, GoTo, callVars
<1>4. CallTypes'
  BY <1>1, <1>2 DEF Types, CallTypes, Goes, GoTo, callVars
<1>5. Still(t)
  BY <1>1, <1>3 DEF Types, Goes, Still
<1>6. new_root[t] = 0
  BY DEF LeafTreeInv, LeafInv
<1>7. StaysIn(t)
  BY <1>3, <1>6 DEF StaysIn
<1>8. Moves(t)
  BY <1>2, <1>3 DEF Moves, Continues
<1>9. QED
  BY <1>4, <1>5, <1>7, <1>8

LEMMA AbortKeeps ==
  ASSUME LeafTreeInv, NEW t \in Threads, Abort(t)
  PROVE  LeafTreeInv'
<1>1. /\ UNCHANGED <<root, node, allocated, pc, leaf, index, sw, md, new_root>>
      /\ UNCHANGED <<calls, protected, left, result>> /\ aborted' = TRUE
  BY DEF Abort, treeVars, localVars, callVars
<1>2. Types'
  BY <1>1 DEF LeafTreeInv, Types
<1>3. OpInv'
  BY <1>1 DEF LeafTreeInv, OpInv, Operation
<1>4. NodeInv'
  BY <1>1 DEF LeafTreeInv, NodeInv
<1>5. LeafInv'
  BY <1>1 DEF LeafTreeInv, LeafInv, Leaf, Active
<1>6. ApartInv'
  BY <1>1 DEF LeafTreeInv, ApartInv
<1>7. \A u \in Threads : CallInv(u)'
  BY <1>1 DEF LeafTreeInv, CallInv, IndexInv, InsertInv, UpdateInv, Leaf
<1>8. QED
  BY <1>2, <1>3, <1>4, <1>5, <1>6, <1>7 DEF LeafTreeInv

\* A step that changes nothing of the tree and after which the call ends or
\* starts anew.
LEMMA QuietEnd ==
  ASSUME LeafTreeInv, NEW t \in Threads, pc[t] \notin {"idle", "swing"} \cup Settled,
         UNCHANGED <<treeVars, aborted>>,
         \/ Retry(t)
         \/ \E r \in Vals \cup {None, Garbage} \cup BOOLEAN : Return(t, r)
  PROVE  LeafTreeInv'
<1>1. Still(t) /\ StaysIn(t) /\ Moves(t) /\ CallTypes' /\ CallInv(t)'
  BY RetryIs, ReturnIs
<1>2. QED
  BY <1>1, InPlaceKeeps, NothingInPlace

\* The MwCAS of a call is over, and the call returns.
LEMMA SettleKeeps ==
  ASSUME LeafTreeInv, NEW t \in Threads, Settle(t)
  PROVE  LeafTreeInv'
<1>1. /\ Types /\ 0 \in Nodes
  BY NodesAssumption DEF LeafTreeInv
<1>2. ZeroStatus \in StatusWord /\ ZeroMetadata \in Metadata /\ "idle" \in Labels
  BY DEF ZeroStatus, StatusWord, ZeroMetadata, Metadata, Labels
<1>3. CallTypes'
  <2>1. protected' \in [Threads -> BOOLEAN]
    BY <1>1 DEF Types, Settle
  <2>2. QED
    BY <1>1, <1>2, <2>1 DEF Types, CallTypes, Settle, GoTo, Reset
<1>4. /\ pc'[t] = "idle" /\ leaf'[t] = 0 /\ new_root'[t] = 0 /\ calls' = calls
      /\ UNCHANGED treeVars
  BY <1>1 DEF Types, Settle, GoTo, Reset
<1>5. Still(t)
  BY <1>1 DEF Types, Settle, GoTo, Reset, Still
<1>6. StaysIn(t)
  BY <1>4 DEF StaysIn
<1>7. pc[t] \in Settled /\ calls[t] = Idle
  BY DEF Settle, LeafTreeInv, OpInv
<1>8. Moves(t) /\ pc[t] # "swing"
  BY <1>4, <1>7 DEF Moves, Continues, Settled
<1>9. CallInv(t)'
  BY <1>4, WorkIsDone
<1>10. QED
  BY <1>3, <1>4, <1>5, <1>6, <1>8, <1>9, InPlaceKeeps, NothingInPlace

\* A load of a descriptor ends the process.
LEMMA StrayKeeps ==
  ASSUME LeafTreeInv, NEW t \in Threads, Stray(t)
  PROVE  LeafTreeInv'
  BY AbortKeeps DEF Stray

LEMMA TraverseKeeps ==
  ASSUME LeafTreeInv, NEW t \in Threads, Traverse(t)
  PROVE  LeafTreeInv'
<1>1. /\ Types /\ pc[t] = "traverse" /\ UNCHANGED treeVars
      /\ leaf' = [leaf EXCEPT ![t] = root] /\ UNCHANGED <<sw, md, new_root, callVars, aborted>>
  BY DEF LeafTreeInv, Traverse, At
<1>2. PICK l \in {"freeze", "scan"} :
        /\ pc' = [pc EXCEPT ![t] = l]
        /\ l = "freeze" => PerformSMO(t) /\ index' = index
        /\ l = "scan" => index' = [index EXCEPT ![t] = 1]
  BY DEF Traverse, GoTo
<1>3. index' \in [Threads -> Nat] /\ \A u \in Threads \ {t} : index'[u] = index[u]
  <2>1. index \in [Threads -> Nat]
    BY <1>1 DEF Types
  <2>2. index' = index \/ index' = [index EXCEPT ![t] = 1]
    BY <1>2
  <2>3. QED
    BY <2>1, <2>2
<1>4. pc'[t] = l /\ leaf'[t] = root /\ new_root'[t] = new_root[t] /\ calls' = calls
  BY <1>1, <1>2 DEF Types, callVars
<1>5. CallTypes'
  BY <1>1, <1>2, <1>3 DEF Types, CallTypes, callVars, Labels, CompactLabels
<1>6. Still(t)
  BY <1>1, <1>2, <1>3 DEF Types, Still, callVars
<1>7. StaysIn(t)
  BY <1>1, <1>4 DEF StaysIn, LeafTreeInv, LeafInv
<1>8. Moves(t)
  BY <1>1, <1>2, <1>4
  DEF Moves, Continues, Fits, PerformSMO, Labels, InsertLabels, UpdateLabels, EraseLabels, CompactLabels,
    Settled
<1>9. CallInv(t)'
  BY <1>4, WorkIsDone
<1>10. QED
  BY <1>1, <1>5, <1>6, <1>7, <1>8, <1>9, InPlaceKeeps, NothingInPlace

\* A step that changes nothing of the tree, after which t goes on at label l.
LEMMA QuietGoes ==
  ASSUME LeafTreeInv, NEW t \in Threads, Active(t), pc[t] \notin {"swing"} \cup Settled,
         NEW l, Goes(t, l), Fits(l, calls[t].op),
         l \notin {"traverse", "compact", "swing", "rewrite", "install"},
         UNCHANGED treeVars, CallInv(t)'
  PROVE  LeafTreeInv'
<1>1. Still(t) /\ StaysIn(t) /\ Moves(t) /\ CallTypes'
  BY GoesIs
<1>2. QED
  BY <1>1, InPlaceKeeps, NothingInPlace

LEMMA ScanKeeps ==
  ASSUME LeafTreeInv, NEW t \in Threads, Scan(t)
  PROVE  LeafTreeInv'
<1>1. /\ Types /\ pc[t] = "scan" /\ UNCHANGED <<treeVars, aborted>>
  BY DEF LeafTreeInv, Scan, At
<1>2. PICK n, i, k : n \in Node /\ i \in Nat /\ n = Leaf(t) /\ i = index[t] /\ k = calls[t].key
  BY <1>1 DEF Types, Leaf
<1>3. Active(t) /\ pc[t] \notin {"swing"} \cup Settled
  BY <1>1 DEF Active, Settled
<1>4. CASE /\ index' = [index EXCEPT ![t] = i + 1]
           /\ UNCHANGED <<pc, leaf, sw, md, new_root, callVars>>
  <2>1. Goes(t, "scan")
    BY <1>1, <1>2, <1>4 DEF Goes, GoTo, Types
  <2>2. Fits("scan", calls[t].op)
    BY DEF Fits, Labels, InsertLabels, UpdateLabels, EraseLabels, CompactLabels, Settled
  <2>3. CallInv(t)'
    BY <1>1, <1>4, WorkIsDone
  <2>4. QED
    BY <1>1, <1>3, <2>1, <2>2, <2>3, QuietGoes
<1>5. CASE \E r \in {TRUE, FALSE, None} : Return(t, r)
  BY <1>1, <1>3, <1>5, QuietEnd
<1>6. ASSUME NEW l,
             \/ calls[t].op = "lookup" /\ l = "fetch"
             \/ calls[t].op = "update" /\ l = "allocate"
             \/ calls[t].op = "erase" /\ l = "recheck",
             GoTo(t, l), UNCHANGED <<localVars, callVars>>, i \in Matches(n, k)
      PROVE  LeafTreeInv'
  <2>1. Goes(t, l)
    BY <1>1, <1>6 DEF Goes, Types, localVars
  <2>2. Fits(l, calls[t].op) /\ l \in {"fetch", "allocate", "recheck"}
    BY <1>6 DEF Fits, Labels, InsertLabels, UpdateLabels, EraseLabels, CompactLabels, Settled
  <2>3. /\ pc'[t] = l /\ Leaf(t)' = n /\ index'[t] = i
    BY <1>1, <1>2, <1>6 DEF Leaf, treeVars, localVars, callVars, Types, GoTo
  <2>4. i \in Visible(n) /\ i \in 1 .. n.sw.count
    BY <1>6 DEF Matches, Visible
  <2>5. IndexInv(t)'
    BY <2>2, <2>3, <2>4 DEF IndexInv
  <2>6. CallInv(t)'
    BY <2>2, <2>3, <2>5 DEF CallInv, InsertInv, UpdateInv, InsertLabels
  <2>7. QED
    BY <1>1, <1>3, <2>1, <2>2, <2>6, QuietGoes
<1>7. CASE calls[t].op = "insert" /\ GoTo(t, "reserve") /\ UNCHANGED <<localVars, callVars>>
  <2>1. Goes(t, "reserve")
    BY <1>1, <1>7 DEF Goes, Types, localVars
  <2>2. Fits("reserve", calls[t].op)
    BY <1>7 DEF Fits, Labels, InsertLabels, UpdateLabels, EraseLabels, CompactLabels, Settled
  <2>3. pc'[t] = "reserve"
    BY <1>1, <1>7 DEF Types, GoTo
  <2>4. CallInv(t)'
    BY <2>3 DEF CallInv, InsertInv, IndexInv, UpdateInv, InsertLabels, UpdateLabels, EraseLabels
  <2>5. QED
    BY <1>1, <1>3, <2>1, <2>2, <2>4, QuietGoes
<1>8. PICK r \in {FALSE, None} : r = IF calls[t].op = "lookup" THEN None ELSE FALSE
  <2>1. CASE calls[t].op = "lookup"
    BY <2>1, Zenon
  <2>2. CASE calls[t].op # "lookup"
    BY <2>2, Zenon
  <2>3. QED
    BY <2>1, <2>2
<1>9. \/ /\ index' = [index EXCEPT ![t] = i + 1]
         /\ UNCHANGED <<pc, leaf, sw, md, new_root, callVars>>
      \/ Return(t, FALSE)
      \/ Return(t, IF calls[t].op = "lookup" THEN None ELSE FALSE)
      \/ /\ i \in Matches(n, k)
         /\ \/ calls[t].op = "lookup" /\ GoTo(t, "fetch") /\ UNCHANGED <<localVars, callVars>>
            \/ calls[t].op = "update" /\ GoTo(t, "allocate") /\ UNCHANGED <<localVars, callVars>>
            \/ calls[t].op = "erase" /\ GoTo(t, "recheck") /\ UNCHANGED <<localVars, callVars>>
      \/ calls[t].op = "insert" /\ GoTo(t, "reserve") /\ UNCHANGED <<localVars, callVars>>
  BY <1>2, Zenon DEF Scan, Leaf
<1>10. CASE Return(t, FALSE)
  BY <1>5, <1>10, Zenon
<1>11. CASE Return(t, IF calls[t].op = "lookup" THEN None ELSE FALSE)
  <2>1. Return(t, r)
    BY <1>8, <1>11, Zenon
  <2>2. QED
    BY <1>5, <1>8, <2>1, Zenon
<1>12. CASE /\ i \in Matches(n, k)
            /\ \/ calls[t].op = "lookup" /\ GoTo(t, "fetch") /\ UNCHANGED <<localVars, callVars>>
               \/ calls[t].op = "update" /\ GoTo(t, "allocate") /\ UNCHANGED <<localVars, callVars>>
               \/ calls[t].op = "erase" /\ GoTo(t, "recheck") /\ UNCHANGED <<localVars, callVars>>
  <2>1. CASE calls[t].op = "lookup" /\ GoTo(t, "fetch") /\ UNCHANGED <<localVars, callVars>>
    BY <1>6, <1>12, <2>1, Zenon
  <2>2. CASE calls[t].op = "update" /\ GoTo(t, "allocate") /\ UNCHANGED <<localVars, callVars>>
    BY <1>6, <1>12, <2>2, Zenon
  <2>3. CASE calls[t].op = "erase" /\ GoTo(t, "recheck") /\ UNCHANGED <<localVars, callVars>>
    BY <1>6, <1>12, <2>3, Zenon
  <2>4. QED
    BY <1>12, <2>1, <2>2, <2>3, Zenon
<1>13. QED
  BY <1>4, <1>7, <1>9, <1>10, <1>11, <1>12, Zenon

LEMMA FetchKeeps ==
  ASSUME LeafTreeInv, NEW t \in Threads, Fetch(t)
  PROVE  LeafTreeInv'
<1>1. /\ Types /\ pc[t] = "fetch" /\ UNCHANGED <<treeVars, aborted>>
  BY DEF LeafTreeInv, Fetch, At
<1>2. PICK n \in Node : n = Leaf(t) /\ WellFormed(n)
  BY <1>1 DEF Types, LeafTreeInv, NodeInv, Leaf
<1>3. index[t] \in Visible(n) \/ n.md[index[t]] = ZeroMetadata
  BY <1>1, <1>2 DEF LeafTreeInv, CallInv, IndexInv
<1>4. n.md[index[t]].at # 0 => n.body[n.md[index[t]].at].val \in Vals
  <2>1. CASE index[t] \in Visible(n)
    <3>1. Record(n, index[t]) \in [key : Keys, val : Vals]
      BY <1>2, <2>1 DEF WellFormed
    <3>2. QED
      BY <3>1 DEF Record
  <2>2. CASE n.md[index[t]] = ZeroMetadata
    BY <2>2 DEF ZeroMetadata
  <2>3. QED
    BY <1>3, <2>1, <2>2
<1>5. \/ n.md[index[t]].at # 0 /\ Return(t, n.body[n.md[index[t]].at].val)
      \/ Return(t, Garbage)
  BY <1>2, Zenon DEF Fetch, Leaf
<1>6. \E r \in Vals \cup {None, Garbage} \cup BOOLEAN : Return(t, r)
  BY <1>4, <1>5, Zenon
<1>7. pc[t] \notin {"idle", "swing"} \cup Settled
  BY <1>1 DEF Settled
<1>8. QED
  BY <1>1, <1>6, <1>7, QuietEnd

LEMMA ReadBackKeeps ==
  ASSUME LeafTreeInv, NEW t \in Threads, ReadBack(t)
  PROVE  LeafTreeInv'
<1>1. /\ Types /\ pc[t] = "readback" /\ UNCHANGED treeVars
      /\ sw' = [sw EXCEPT ![t] = Leaf(t).sw] /\ GoTo(t, "write")
      /\ UNCHANGED <<leaf, index, md, new_root, callVars, aborted>>
  BY DEF LeafTreeInv, ReadBack, At, Leaf
<1>2. Leaf(t) \in Node /\ Leaf(t).sw \in StatusWord
  BY <1>1, NodeFacts DEF Types, Leaf
<1>3. Goes(t, "write")
  BY <1>1, <1>2 DEF Goes, Types
<1>4. Fits("write", calls[t].op) /\ Active(t) /\ pc[t] \notin {"swing"} \cup Settled
  BY <1>1 DEF Fits, Labels, InsertLabels, UpdateLabels, EraseLabels, CompactLabels, LeafTreeInv, OpInv,
    Active, Settled
<1>5. pc'[t] = "write" /\ Leaf(t)' = Leaf(t) /\ sw'[t] = Leaf(t).sw /\ calls' = calls
  BY <1>1 DEF Types, GoTo, Leaf, treeVars, callVars
<1>6. InsertInv(t)
  BY DEF LeafTreeInv, CallInv
<1>7. InsertInv(t)'
  BY <1>1, <1>5, <1>6 DEF InsertInv, InsertLabels
<1>8. CallInv(t)'
  BY <1>5, <1>7 DEF CallInv, IndexInv, UpdateInv, UpdateLabels, EraseLabels
<1>9. QED
  BY <1>1, <1>3, <1>4, <1>8, QuietGoes

LEMMA RecheckKeeps ==
  ASSUME LeafTreeInv, NEW t \in Threads, Recheck(t)
  PROVE  LeafTreeInv'
<1>1. /\ Types /\ pc[t] = "recheck" /\ UNCHANGED <<treeVars, aborted>>
  BY DEF LeafTreeInv, Recheck, At
<1>2. CASE Retry(t)
  <2>1. pc[t] \notin {"idle", "swing"} \cup Settled
    BY <1>1 DEF Settled
  <2>2. QED
    BY <1>1, <1>2, <2>1, QuietEnd
<1>3. CASE /\ Leaf(t).md[index[t]].visible /\ ~Leaf(t).sw.frozen
           /\ sw' = [sw EXCEPT ![t] = Leaf(t).sw] /\ md' = [md EXCEPT ![t] = Leaf(t).md[index[t]]]
           /\ GoTo(t, "erase") /\ UNCHANGED <<leaf, index, new_root, callVars>>
  <2>1. Leaf(t) \in Node /\ Leaf(t).sw \in StatusWord
    BY <1>1, NodeFacts DEF Types, Leaf
  <2>2. /\ index[t] \in 1 .. Leaf(t).sw.count
        /\ index[t] \in Visible(Leaf(t)) \/ Leaf(t).md[index[t]] = ZeroMetadata
    BY <1>1 DEF LeafTreeInv, CallInv, IndexInv, EraseLabels
  <2>3. Leaf(t).md[index[t]] \in Metadata
    BY <2>1, <2>2, NodeFacts
  <2>4. Goes(t, "erase")
    BY <1>1, <1>3, <2>1, <2>3 DEF Goes, Types
  <2>5. Fits("erase", calls[t].op) /\ Active(t) /\ pc[t] \notin {"swing"} \cup Settled
    BY <1>1 DEF Fits, Labels, InsertLabels, UpdateLabels, EraseLabels, CompactLabels, LeafTreeInv,
      OpInv, Active, Settled
  <2>6. /\ pc'[t] = "erase" /\ Leaf(t)' = Leaf(t) /\ index' = index /\ calls' = calls
        /\ sw'[t] = Leaf(t).sw /\ md'[t] = Leaf(t).md[index[t]]
    BY <1>1, <1>3 DEF Types, GoTo, Leaf, treeVars, callVars
  <2>7. IndexInv(t)'
    BY <1>3, <2>2, <2>6 DEF IndexInv
  <2>8. CallInv(t)'
    BY <2>6, <2>7 DEF CallInv, InsertInv, UpdateInv, InsertLabels
  <2>9. QED
    BY <1>1, <2>4, <2>5, <2>8, QuietGoes
<1>4. QED
  BY <1>2, <1>3, Zenon DEF Recheck, Leaf


LEMMA BeginKeeps ==
  ASSUME LeafTreeInv, NEW t \in Threads, NEW o \in Operations, NEW k \in Keys,
         NEW v \in Vals \cup {None}, o \in {"insert", "update"} => v \in Vals, Begin(t, o, k, v)
  PROVE  LeafTreeInv'
<1>1. PICK c \in Call : c = [op |-> o, key |-> k, val |-> v] /\ c.op = o /\ c.val = v
  <2>1. PICK d : d = [op |-> o, key |-> k, val |-> v]
    OBVIOUS
  <2>2. d \in Call /\ d.op = o /\ d.val = v
    BY <2>1 DEF Call
  <2>3. QED
    BY <2>1, <2>2
<1>2. /\ Types /\ pc[t] = "idle" /\ left[t] > 0
      /\ \A u \in Threads \ {t} : pc[u] # "idle" => {o, Operation(u)} \in Overlap
      /\ calls' = [calls EXCEPT ![t] = c] /\ left' = [left EXCEPT ![t] = @ - 1]
      /\ protected' = [protected EXCEPT ![t] = TRUE]
      /\ result' = [result EXCEPT ![t] = None]
      /\ GoTo(t, "traverse") /\ UNCHANGED <<treeVars, localVars, aborted>>
  BY <1>1 DEF LeafTreeInv, Begin, At
<1>3. CallTypes'
  <2>1. protected' \in [Threads -> BOOLEAN] /\ result' \in [Threads -> Vals \cup {None, Garbage} \cup BOOLEAN]
    BY <1>2, Zenon DEF Types
  <2>2. left' \in [Threads -> Nat]
    BY <1>2 DEF Types
  <2>3. "traverse" \in Labels
    BY DEF Labels
  <2>4. pc' \in [Threads -> Labels] /\ calls' \in [Threads -> Call \cup {Idle}]
    BY <1>1, <1>2, <2>3 DEF Types, GoTo
  <2>5. QED
    BY <1>2, <2>1, <2>2, <2>4 DEF Types, CallTypes, localVars
<1>4. pc'[t] = "traverse" /\ calls'[t] = c /\ \A u \in Threads \ {t} : pc'[u] = pc[u] /\ calls'[u] = calls[u]
  BY <1>2 DEF Types, GoTo
<1>5. Still(t)
  BY <1>2, <1>4 DEF Still, localVars
<1>6. new_root[t] = 0
  BY <1>2 DEF LeafTreeInv, LeafInv
<1>7. StaysIn(t)
  BY <1>2, <1>4, <1>6 DEF StaysIn, localVars
<1>8. InPlace(t, Leaf(t)) /\ \A u \in Threads \ {t} : Active(u) /\ leaf[u] = leaf[t] => Expected(u, Leaf(t), Leaf(t))
  BY <1>2, NothingInPlace
<1>9. Gently(t)
  BY <1>5, <1>8, InPlaceGently
<1>10. LeafInv'
  BY <1>2, <1>5, <1>7, <1>8, InPlaceLeaves
<1>11. node' \in [Nodes -> Node] /\ NodeInv' /\ root' = root /\ allocated' = allocated
  BY <1>8, InPlaceNodes
<1>12. Types'
  BY <1>2, <1>3, <1>11 DEF CallTypes, Types
<1>13. calls'[t] # Idle
  BY <1>4, IdleIsNoCall
<1>14. OpInv'
  <2>1. OpInv
    BY DEF LeafTreeInv
  <2>2. ASSUME NEW u \in Threads
        PROVE  /\ calls'[u] = Idle <=> pc'[u] \in {"idle"} \cup Settled
               /\ calls'[u].op \in {"insert", "update"} => calls'[u].val \in Vals
               /\ pc'[u] \in InsertLabels => calls'[u].op = "insert"
               /\ pc'[u] \in UpdateLabels => calls'[u].op = "update"
               /\ pc'[u] \in EraseLabels => calls'[u].op = "erase"
               /\ pc'[u] = "fetch" => calls'[u].op = "lookup"
               /\ pc'[u] \in CompactLabels => calls'[u].op \in {"insert", "update"}
    <3>1. CASE u # t
      BY <1>4, <2>1, <3>1 DEF OpInv
    <3>2. CASE u = t
      BY <1>1, <1>4, <1>13, <3>2 DEF InsertLabels, UpdateLabels, EraseLabels, CompactLabels, Settled
    <3>3. QED
      BY <3>1, <3>2
  <2>3. ASSUME NEW w \in Threads, NEW u \in Threads, w # u, pc'[w] # "idle", pc'[u] # "idle"
        PROVE  {Operation(w)', Operation(u)'} \in Overlap
    <3>0. Operation(t)' = o /\ \A x \in Threads \ {t} : Operation(x)' = Operation(x)
      <4>1. Operation(t)' = o
        BY <1>1, <1>4, OperationIs DEF Settled
      <4>2. QED
        BY <1>4, <4>1 DEF Operation
    <3>1. CASE w # t /\ u # t
      BY <1>4, <2>1, <2>3, <3>0, <3>1 DEF OpInv
    <3>2. CASE w = t
      BY <1>2, <1>4, <2>3, <3>0, <3>2
    <3>3. CASE u = t
      <4>1. {Operation(u)', Operation(w)'} \in Overlap
        BY <1>2, <1>4, <2>3, <3>0, <3>3
      <4>2. {Operation(u)', Operation(w)'} = {Operation(w)', Operation(u)'}
        OBVIOUS
      <4>3. QED
        BY <4>1, <4>2
    <3>4. QED
      BY <3>1, <3>2, <3>3
  <2>4. QED
    BY <2>2, <2>3 DEF OpInv
<1>15. ApartInv'
  <2>1. \A u \in Threads : pc'[u] \in {"rewrite", "install"} => u # t
    BY <1>4
  <2>2. \A u \in Threads \ {t} : pc'[u] = pc[u] /\ leaf'[u] = leaf[u] /\ sw'[u] = sw[u]
    BY <1>5 DEF Still
  <2>3. QED
    BY <2>1, <2>2 DEF ApartInv, LeafTreeInv
<1>16. \A u \in Threads \ {t} : CallInv(u)'
  BY <1>9, <1>12, OthersKeep
<1>17. CallInv(t)'
  BY <1>4, WorkIsDone
<1>18. QED
  BY <1>10, <1>11, <1>12, <1>14, <1>15, <1>16, <1>17 DEF LeafTreeInv

-----------------------------------------------------------------------------
\* What SafeOverlap says of two calls.
LEMMA Excluded ==
  ASSUME SafeOverlap, LeafTreeInv, NEW t \in Threads, NEW u \in Threads \ {t}
  PROVE  /\ pc[t] \in InsertLabels => pc[u] \notin InsertLabels \cup UpdateLabels
         /\ pc[t] \in UpdateLabels => pc[u] \notin InsertLabels
<1>1. pc[t] # "idle" /\ pc[u] # "idle" => {Operation(t), Operation(u)} \in Overlap
  BY DEF LeafTreeInv, OpInv
<1>2. {"insert"} \notin Overlap /\ {"insert", "update"} \notin Overlap
  BY DEF SafeOverlap
<1>3. {"insert", "insert"} = {"insert"} /\ {"update", "insert"} = {"insert", "update"}
  OBVIOUS
<1>4. ASSUME NEW x \in Threads
      PROVE  /\ pc[x] \in InsertLabels => pc[x] # "idle" /\ Operation(x) = "insert"
             /\ pc[x] \in UpdateLabels => pc[x] # "idle" /\ Operation(x) = "update"
  <2>1. pc[x] \in InsertLabels \cup UpdateLabels => pc[x] \notin {"idle"} \cup Settled
    BY DEF InsertLabels, UpdateLabels, Settled
  <2>2. /\ pc[x] \in InsertLabels => calls[x].op = "insert"
        /\ pc[x] \in UpdateLabels => calls[x].op = "update"
    BY DEF LeafTreeInv, OpInv
  <2>3. QED
    BY <2>1, <2>2, OperationIs
<1>5. ASSUME NEW x \in Threads, NEW y \in Threads, {Operation(x), Operation(y)} \in Overlap,
             pc[x] \in InsertLabels
      PROVE  pc[y] \notin InsertLabels /\ pc[y] \notin UpdateLabels
  <2>1. Operation(x) = "insert"
    BY <1>4, <1>5
  <2>2. Operation(y) # "insert"
    BY <1>2, <1>3, <1>5, <2>1, Zenon
  <2>3. Operation(y) # "update"
    BY <1>2, <1>5, <2>1, Zenon
  <2>4. QED
    BY <1>4, <2>2, <2>3
<1>6. {Operation(t), Operation(u)} = {Operation(u), Operation(t)}
  OBVIOUS
<1>7. ASSUME pc[t] \in InsertLabels \cup UpdateLabels, pc[u] \in InsertLabels \cup UpdateLabels
      PROVE  {Operation(t), Operation(u)} \in Overlap
  BY <1>1, <1>4, <1>7
<1>8. pc[t] \in InsertLabels => pc[u] \notin InsertLabels \cup UpdateLabels
  BY <1>5, <1>7
<1>9. pc[u] \in InsertLabels => pc[t] \notin UpdateLabels
  BY <1>5, <1>6, <1>7
<1>10. QED
  BY <1>8, <1>9

\* What another call expects of a leaf that is kept.
LEMMA KeptExpected ==
  ASSUME LeafTreeInv, NEW u \in Threads, NEW n \in Node, NEW m \in Node, n = Leaf(u), Kept(n, m),
         pc[u] \in InsertLabels => Untouched(n, m),
         pc[u] \in {"rewrite", "install"} => m.body[sw[u].block] = n.body[sw[u].block]
  PROVE  Expected(u, n, m)
<1>1. Grows(n, m)
  BY KeptIsSame
<1>2. \A i \in Visible(m) : i \in Visible(n) /\ m.md[i] = n.md[i]
  BY NodeFacts DEF Kept
<1>3. pc[u] \in {"rewrite", "install"} => \A i \in Visible(n) : n.md[i].at # sw[u].block
  BY DEF LeafTreeInv, CallInv, UpdateInv
<1>4. QED
  BY <1>1, <1>2, <1>3 DEF Expected

\* t goes on at label l, and its leaf has become m.
LEMMA InPlaceGoes ==
  ASSUME LeafTreeInv, NEW t \in Threads, Active(t), pc[t] \notin {"swing"} \cup Settled,
         NEW l, Goes(t, l), Fits(l, calls[t].op), l \notin {"traverse", "compact", "swing"},
         l = "install" => sw'[t] = sw[t] /\ pc[t] = "rewrite", l # "rewrite",
         NEW m, InPlace(t, m), CallInv(t)',
         \A u \in Threads \ {t} : Active(u) /\ leaf[u] = leaf[t] => Expected(u, Leaf(t), m)
  PROVE  LeafTreeInv'
<1>1. Still(t) /\ StaysIn(t) /\ Moves(t) /\ CallTypes'
  BY GoesIs
<1>2. QED
  BY <1>1, InPlaceKeeps

\* The call of t takes effect or starts anew, and its leaf has become m.
LEMMA InPlaceEnds ==
  ASSUME LeafTreeInv, NEW t \in Threads, Active(t), pc[t] \notin {"swing"} \cup Settled,
         UNCHANGED aborted, NEW m, InPlace(t, m),
         \A u \in Threads \ {t} : Active(u) /\ leaf[u] = leaf[t] => Expected(u, Leaf(t), m),
         Retry(t) \/ \E l : Settles(l, calls[t].op) /\ Succeed(t, l)
  PROVE  LeafTreeInv'
<1>1. Still(t) /\ StaysIn(t) /\ Moves(t) /\ CallTypes' /\ CallInv(t)'
  BY RetryIs, SucceedIs DEF Active
<1>2. QED
  BY <1>1, InPlaceKeeps

\* The leaf of t.
LEMMA LeafFacts ==
  ASSUME LeafTreeInv, NEW t \in Threads
  PROVE  /\ Types /\ leaf[t] \in Nodes /\ node \in [Nodes -> Node]
         /\ Leaf(t) \in Node /\ WellFormed(Leaf(t)) /\ Leaf(t) = node[leaf[t]]
  BY DEF LeafTreeInv, Types, NodeInv, Leaf

\* Nothing that can be seen in the leaf of t changes.
KeptStep(t) == \E m : InPlace(t, m) /\ Kept(Leaf(t), m)

\* The leaf of t, which is not frozen, becomes m as the others expect.
Changed(t, m) ==
  /\ InPlace(t, m) /\ ~Leaf(t).sw.frozen
  /\ \A u \in Threads \ {t} : Active(u) /\ leaf[u] = leaf[t] => Expected(u, Leaf(t), m)

LEMMA QuietIsKept ==
  ASSUME LeafTreeInv, NEW t \in Threads, UNCHANGED treeVars
  PROVE  KeptStep(t)
  BY NothingInPlace, LeafFacts, KeptItself DEF KeptStep

LEMMA FreezeKeeps ==
  ASSUME LeafTreeInv, NEW t \in Threads, FreezeRoot(t)
  PROVE  LeafTreeInv' /\ KeptStep(t)
<1>1. /\ pc[t] = "freeze" /\ node' = [node EXCEPT ![leaf[t]].sw.frozen = TRUE]
      /\ GoTo(t, "compact")
      /\ UNCHANGED <<root, allocated, localVars, callVars, aborted>>
  BY DEF FreezeRoot, At
<1>2. PICK n \in Node : n = Leaf(t) /\ n = node[leaf[t]] /\ WellFormed(n)
  BY LeafFacts
<1>3. PICK m : m = [n EXCEPT !.sw.frozen = TRUE]
  OBVIOUS
<1>4. /\ m \in Node /\ WellFormed(m) /\ Kept(n, m)
      /\ m.sw.frozen /\ m.sw.count = n.sw.count /\ m.sw.block = n.sw.block
      /\ m.md = n.md /\ m.body = n.body
  BY <1>2, <1>3, FreezeNode
<1>5. node' = [node EXCEPT ![leaf[t]] = m]
  BY <1>1, <1>2, <1>3, Zenon
<1>6. InPlace(t, m)
  BY <1>1, <1>2, <1>4, <1>5, KeptIsSame DEF InPlace
<1>7. ASSUME NEW u \in Threads \ {t}, leaf[u] = leaf[t] PROVE Expected(u, n, m)
  <2>1. n = Leaf(u)
    BY <1>2, <1>7 DEF Leaf
  <2>2. Untouched(n, m)
    BY <1>4 DEF Untouched
  <2>3. QED
    BY <1>4, <2>1, <2>2, KeptExpected
<1>8. Types /\ pc'[t] = "compact" /\ \A u \in Threads \ {t} : pc'[u] = pc[u]
  BY <1>1, LeafFacts DEF Types, GoTo
<1>9. Still(t) /\ CallTypes'
  <2>1. "compact" \in Labels
    BY DEF Labels, CompactLabels
  <2>2. QED
    BY <1>1, <1>8, <2>1 DEF Types, CallTypes, Still, GoTo, localVars, callVars
<1>10. StaysIn(t)
  <2>1. new_root[t] = 0 /\ Active(t)
    BY <1>1 DEF LeafTreeInv, LeafInv, Active
  <2>2. node'[leaf[t]] = m /\ leaf' = leaf
    BY <1>1, <1>5, LeafFacts DEF localVars
  <2>3. QED
    BY <1>1, <1>4, <1>8, <2>1, <2>2 DEF StaysIn, localVars
<1>11. Moves(t)
  <2>1. calls[t].op \in {"insert", "update"} /\ calls' = calls
    BY <1>1 DEF LeafTreeInv, OpInv, CompactLabels, callVars
  <2>2. Fits("compact", calls[t].op)
    BY <2>1 DEF Fits, Labels, InsertLabels, UpdateLabels, EraseLabels, CompactLabels, Settled
  <2>3. QED
    BY <1>1, <1>8, <2>1, <2>2 DEF Moves, Continues, Settled
<1>12. CallInv(t)'
  BY <1>8, WorkIsDone
<1>13. KeptStep(t)
  BY <1>2, <1>4, <1>6 DEF KeptStep
<1>14. QED
  BY <1>1, <1>2, <1>6, <1>7, <1>9, <1>10, <1>11, <1>12, <1>13, InPlaceKeeps

-----------------------------------------------------------------------------
\* insert.
LEMMA ReserveKeeps ==
  ASSUME SafeOverlap, LeafTreeInv, NEW t \in Threads, Reserve(t)
  PROVE  LeafTreeInv' /\ KeptStep(t)
<1>1. pc[t] = "reserve"
  BY Zenon DEF Reserve, At
<1>2. PICK n \in Node : n = Leaf(t) /\ n = node[leaf[t]] /\ WellFormed(n)
  BY LeafFacts
<1>3. PICK x : x = BodySize - n.sw.count * MdSize - n.sw.block * RecSize
  OBVIOUS
<1>4. FreeSpace[leaf[t]] = x
  BY <1>2, <1>3, LeafFacts DEF FreeSpace
<1>5. x \in Int /\ MdSize + RecSize \in Int
  <2>1. n.sw.count \in Nat /\ n.sw.block \in Nat
    BY NodeFacts
  <2>2. QED
    BY <1>3, <2>1, SizeFacts
<1>6. CASE Abort(t)
  BY <1>1, <1>6, AbortKeeps, QuietIsKept DEF Abort
<1>7. CASE /\ ~(x < MdSize + RecSize)
           /\ node' = [node EXCEPT ![leaf[t]].sw.count = @ + 1, ![leaf[t]].sw.block = @ + 1,
                                   ![leaf[t]].md[node[leaf[t]].sw.count + 1].at = Reserved]
           /\ GoTo(t, "readback")
           /\ UNCHANGED <<root, allocated, localVars, callVars, aborted>>
  <2>0. /\ ~(x < MdSize + RecSize) /\ GoTo(t, "readback")
        /\ UNCHANGED <<root, allocated, localVars, callVars, aborted>>
    BY <1>7, Zenon
  <2>1. BodySize - n.sw.count * MdSize - n.sw.block * RecSize >= MdSize + RecSize
    <3>1. x >= MdSize + RecSize
      BY <1>5, <2>0
    <3>2. QED
      BY <1>3, <3>1, Zenon
  <2>2. n.sw.count + 1 \in Slots
    <3>1. 1 * MdSize = MdSize
      BY SizeFacts
    <3>2. n.sw.count + 1 \in {0} \cup Slots /\ n.sw.count + 1 \in Nat /\ n.sw.count + 1 # 0
      BY <1>2, <1>3, <2>1, <3>1, NextRecord, NodeFacts
    <3>3. QED
      BY <3>2
  <2>3. PICK m : m = ReservedNode(n)
    OBVIOUS
  <2>4. /\ m \in Node /\ WellFormed(m) /\ Kept(n, m)
        /\ m.sw.frozen = n.sw.frozen /\ m.sw.count = n.sw.count + 1 /\ m.sw.block = n.sw.block + 1
        /\ ~m.md[m.sw.count].visible /\ m.md[m.sw.count].at = Reserved
        /\ m.body = n.body
        /\ \A i \in Visible(m) : m.md[i].at # m.sw.block
    BY <1>2, <2>1, <2>3, ReserveNode
  <2>5. node' = [node EXCEPT ![leaf[t]] = m]
    <3>1. PICK c, a, b : /\ c \in Slots /\ c = n.sw.count + 1
                         /\ a = n.sw.count + 1 /\ b = n.sw.block + 1
      BY <2>2
    <3>2. PICK f : f = [node EXCEPT ![leaf[t]].sw.count = @ + 1]
      OBVIOUS
    <3>3. PICK g : g = [f EXCEPT ![leaf[t]].sw.block = @ + 1]
      OBVIOUS
    <3>4. node' = [g EXCEPT ![leaf[t]].md[c].at = Reserved]
      <4>1. c = node[leaf[t]].sw.count + 1
        BY <1>2, <3>1, Zenon DEF Leaf
      <4>2. node' = [node EXCEPT ![leaf[t]].sw.count = @ + 1, ![leaf[t]].sw.block = @ + 1,
                                 ![leaf[t]].md[c].at = Reserved]
        BY <1>7, <4>1, Zenon
      <4>3. QED
        BY <3>2, <3>3, <4>2, SMTT(60)
    <3>5. PICK n1 : n1 = [n EXCEPT !.sw.count = a]
      OBVIOUS
    <3>6. n1.sw.block = n.sw.block
      BY <3>5 DEF Node, StatusWord
    <3>7. f = [node EXCEPT ![leaf[t]] = n1]
      BY <1>2, <3>1, <3>2, <3>5, Zenon
    <3>8. PICK n2 : n2 = [n1 EXCEPT !.sw.block = b]
      OBVIOUS
    <3>9. leaf[t] \in DOMAIN node /\ f[leaf[t]] = n1 /\ leaf[t] \in DOMAIN f
      BY <3>7, LeafFacts
    <3>10. g = [f EXCEPT ![leaf[t]] = n2]
      BY <3>1, <3>3, <3>6, <3>8, <3>9, Zenon
    <3>11. g = [node EXCEPT ![leaf[t]] = n2] /\ g[leaf[t]] = n2 /\ leaf[t] \in DOMAIN g
      BY <3>7, <3>9, <3>10, LeafFacts
    <3>12. PICK q : q = [n2 EXCEPT !.md[c].at = Reserved]
      OBVIOUS
    <3>13. q = m
      <4>1. n1 = [sw |-> [n.sw EXCEPT !.count = a], md |-> n.md, body |-> n.body]
        BY <3>5 DEF Node
      <4>2. n2 = [sw |-> [n.sw EXCEPT !.count = a, !.block = b], md |-> n.md, body |-> n.body]
        BY <3>8, <4>1
      <4>3. q = [sw |-> [n.sw EXCEPT !.count = a, !.block = b],
                 md |-> [n.md EXCEPT ![c] = [n.md[c] EXCEPT !.at = Reserved]], body |-> n.body]
        BY <3>12, <4>2
      <4>4. QED
        BY <2>3, <3>1, <4>3 DEF ReservedNode
    <3>14. node' = [g EXCEPT ![leaf[t]] = q]
      BY <3>4, <3>11, <3>12, Zenon
    <3>15. QED
      BY <3>11, <3>13, <3>14, LeafFacts
  <2>6. InPlace(t, m)
    BY <1>2, <2>0, <2>4, <2>5, KeptIsSame DEF InPlace
  <2>7. calls[t].op = "insert" /\ Active(t) /\ pc[t] \notin {"swing"} \cup Settled
    BY <1>1 DEF LeafTreeInv, OpInv, InsertLabels, Active, Settled
  <2>8. ASSUME NEW u \in Threads \ {t}, Active(u), leaf[u] = leaf[t] PROVE Expected(u, Leaf(t), m)
    <3>1. n = Leaf(u)
      BY <1>2, <2>8 DEF Leaf
    <3>2. pc[u] \notin InsertLabels /\ pc[u] \notin UpdateLabels
      BY <1>1, Excluded DEF InsertLabels
    <3>3. QED
      BY <1>2, <2>4, <3>1, <3>2, KeptExpected
  <2>9. Goes(t, "readback")
    BY <2>0, LeafFacts DEF Goes, Types, localVars
  <2>10. Fits("readback", calls[t].op)
    BY <2>7 DEF Fits, Labels, InsertLabels, UpdateLabels, EraseLabels, CompactLabels, Settled
  <2>11. /\ pc'[t] = "readback" /\ Leaf(t)' = m /\ calls' = calls
    BY <2>0, <2>5, LeafFacts DEF Types, GoTo, Leaf, localVars, callVars
  <2>12. m.sw.count >= 1
    <3>1. n.sw.count \in Nat
      BY NodeFacts
    <3>2. QED
      BY <2>4, <3>1
  <2>13. InsertInv(t)'
    BY <2>4, <2>11, <2>12 DEF InsertInv
  <2>14. CallInv(t)'
    BY <2>11, <2>13 DEF CallInv, IndexInv, UpdateInv, UpdateLabels, EraseLabels
  <2>15. KeptStep(t)
    BY <1>2, <2>4, <2>6 DEF KeptStep
  <2>16. QED
    BY <1>1, <1>2, <2>6, <2>7, <2>8, <2>9, <2>10, <2>14, <2>15, InPlaceGoes
<1>8. QED
  BY <1>4, <1>6, <1>7, Zenon DEF Reserve

\* What a call that is to write its record has reserved.
LEMMA OwnRecord ==
  ASSUME LeafTreeInv, NEW t \in Threads, pc[t] \in {"write", "publish", "rewrite", "install"}
  PROVE  /\ sw[t].block \in 1 .. Leaf(t).sw.block /\ sw[t].block \in Blocks
         /\ \A i \in Visible(Leaf(t)) : Leaf(t).md[i].at # sw[t].block
         /\ [key |-> calls[t].key, val |-> calls[t].val] \in [key : Keys, val : Vals]
         /\ pc[t] \in {"write", "publish"} =>
              /\ sw[t].count = Leaf(t).sw.count /\ sw[t].block = Leaf(t).sw.block
              /\ sw[t].count \in 1 .. Leaf(t).sw.count /\ sw[t].count \in Slots
<1>1. PICK n \in Node : n = Leaf(t) /\ WellFormed(n)
  BY LeafFacts
<1>2. n.sw.count \in Nat /\ n.sw.block \in Nat /\ n.sw.count <= n.sw.block
  BY <1>1, NodeFacts DEF WellFormed
<1>3. ASSUME pc[t] \in {"write", "publish"}
      PROVE  /\ sw[t].count = n.sw.count /\ sw[t].block = n.sw.block /\ n.sw.count >= 1
             /\ \A i \in Visible(n) : n.md[i].at # sw[t].block
  <2>1. InsertInv(t)
    BY DEF LeafTreeInv, CallInv
  <2>2. QED
    BY <1>1, <1>3, <2>1 DEF InsertInv, InsertLabels
<1>4. ASSUME pc[t] \in {"rewrite", "install"}
      PROVE  /\ sw[t].block \in 1 .. n.sw.block
             /\ \A i \in Visible(n) : n.md[i].at # sw[t].block
  <2>1. UpdateInv(t)
    BY DEF LeafTreeInv, CallInv
  <2>2. QED
    BY <1>1, <1>4, <2>1 DEF UpdateInv
<1>5. /\ sw[t].block \in 1 .. n.sw.block
      /\ \A i \in Visible(n) : n.md[i].at # sw[t].block
  BY <1>2, <1>3, <1>4
<1>6. 1 .. n.sw.block \subseteq Blocks /\ 1 .. n.sw.count \subseteq Slots
  BY NodeFacts
<1>7. [key |-> calls[t].key, val |-> calls[t].val] \in [key : Keys, val : Vals]
  <2>1. calls[t] \in Call \cup {Idle} /\ calls[t] # Idle /\ calls[t].op \in {"insert", "update"}
    BY DEF LeafTreeInv, Types, OpInv, InsertLabels, UpdateLabels, Settled
  <2>2. calls[t].key \in Keys /\ calls[t].val \in Vals
    BY <2>1, IdleIsNoCall DEF LeafTreeInv, OpInv
  <2>3. QED
    BY <2>2
<1>8. pc[t] \in {"write", "publish"} => sw[t].count \in 1 .. n.sw.count
  BY <1>2, <1>3
<1>9. QED
  BY <1>1, <1>3, <1>5, <1>6, <1>7, <1>8

\* The leaf after the call of t has written its record.
Wrote(t, m) ==
  /\ InPlace(t, m) /\ Kept(Leaf(t), m) /\ m.sw = Leaf(t).sw /\ m.md = Leaf(t).md
  /\ m.body[sw[t].block] = [key |-> calls[t].key, val |-> calls[t].val]
  /\ \A x \in Blocks \ {sw[t].block} : m.body[x] = Leaf(t).body[x]

LEMMA WriteIs ==
  ASSUME LeafTreeInv, NEW t \in Threads, pc[t] \in {"write", "rewrite"}, WriteRecord(t),
         UNCHANGED <<root, allocated>>
  PROVE  \E m \in Node : Wrote(t, m)
<1>1. PICK n \in Node : n = Leaf(t) /\ n = node[leaf[t]] /\ WellFormed(n)
  BY LeafFacts
<1>2. PICK r : r = [key |-> calls[t].key, val |-> calls[t].val]
  OBVIOUS
<1>3. PICK b : b = sw[t].block
  OBVIOUS
<1>4. b \in Blocks /\ r \in [key : Keys, val : Vals] /\ \A i \in Visible(n) : n.md[i].at # b
  BY <1>1, <1>2, <1>3, OwnRecord
<1>5. r \in [key : Keys \cup {None}, val : Vals \cup {None}]
  BY <1>4
<1>6. PICK m : m = WrittenNode(n, b, r)
  OBVIOUS
<1>7. /\ m \in Node /\ WellFormed(m) /\ Kept(n, m) /\ m.sw = n.sw /\ m.md = n.md
      /\ m.body[b] = r /\ \A x \in Blocks \ {b} : m.body[x] = n.body[x]
  BY <1>1, <1>4, <1>5, <1>6, WriteNode
<1>8. node' = [node EXCEPT ![leaf[t]] = m]
  BY <1>1, <1>2, <1>3, <1>6, Zenon DEF WriteRecord, WrittenNode
<1>9. InPlace(t, m)
  BY <1>1, <1>7, <1>8, KeptIsSame DEF InPlace
<1>10. QED
  BY <1>1, <1>2, <1>3, <1>7, <1>9 DEF Wrote

LEMMA WriteIsKept ==
  ASSUME LeafTreeInv, NEW t \in Threads, pc[t] \in {"write", "rewrite"}, WriteRecord(t),
         UNCHANGED <<root, allocated>>
  PROVE  KeptStep(t)
  BY WriteIs DEF Wrote, KeptStep

LEMMA InsertWriteKeeps ==
  ASSUME SafeOverlap, LeafTreeInv, NEW t \in Threads, InsertWrite(t)
  PROVE  LeafTreeInv'
<1>1. /\ pc[t] = "write" /\ WriteRecord(t) /\ UNCHANGED <<root, allocated, aborted>>
  BY DEF InsertWrite, At
<1>2. PICK n \in Node : n = Leaf(t) /\ n = node[leaf[t]] /\ WellFormed(n)
  BY LeafFacts
<1>3. PICK m \in Node :
        /\ InPlace(t, m) /\ Kept(n, m) /\ m.sw = n.sw /\ m.md = n.md
        /\ m.body[sw[t].block] = [key |-> calls[t].key, val |-> calls[t].val]
  <2>1. PICK m \in Node : Wrote(t, m)
    BY <1>1, WriteIs
  <2>2. QED
    BY <1>2, <2>1 DEF Wrote
<1>4. calls[t].op = "insert" /\ Active(t) /\ pc[t] \notin {"swing"} \cup Settled
  BY <1>1 DEF LeafTreeInv, OpInv, InsertLabels, Active, Settled
<1>5. ASSUME NEW u \in Threads \ {t}, Active(u), leaf[u] = leaf[t] PROVE Expected(u, Leaf(t), m)
  <2>1. n = Leaf(u)
    BY <1>2, <1>5 DEF Leaf
  <2>2. pc[u] \notin InsertLabels /\ pc[u] \notin {"rewrite", "install"}
    BY <1>1, Excluded DEF InsertLabels, UpdateLabels
  <2>3. QED
    BY <1>2, <1>3, <2>1, <2>2, KeptExpected
<1>6. CASE Retry(t)
  BY <1>1, <1>3, <1>4, <1>5, <1>6, InPlaceEnds
<1>7. CASE /\ ~sw[t].frozen /\ md' = [md EXCEPT ![t] = n.md[sw[t].count]]
           /\ GoTo(t, "publish") /\ UNCHANGED <<leaf, index, sw, new_root, callVars>>
  <2>1. sw[t].count = n.sw.count /\ sw[t].block = n.sw.block /\ sw[t].count \in Slots
    BY <1>1, <1>2, OwnRecord
  <2>2. n.md[sw[t].count] \in Metadata
    BY <2>1, NodeFacts
  <2>3. Goes(t, "publish")
    BY <1>1, <1>7, <2>2, LeafFacts DEF Goes, Types
  <2>4. Fits("publish", calls[t].op)
    BY <1>4 DEF Fits, Labels, InsertLabels, UpdateLabels, EraseLabels, CompactLabels, Settled
  <2>5. pc'[t] = "publish" /\ Leaf(t)' = m /\ calls' = calls /\ sw' = sw
    BY <1>3, <1>7, LeafFacts DEF InPlace, Types, GoTo, Leaf, callVars
  <2>6. InsertInv(t)
    BY DEF LeafTreeInv, CallInv
  <2>7. Visible(m) = Visible(n)
    BY <1>3 DEF Kept
  <2>8. InsertInv(t)'
    BY <1>1, <1>2, <1>3, <1>7, <2>1, <2>5, <2>6, <2>7 DEF InsertInv, InsertLabels
  <2>9. CallInv(t)'
    BY <2>5, <2>8 DEF CallInv, IndexInv, UpdateInv, UpdateLabels, EraseLabels
  <2>10. QED
    BY <1>1, <1>3, <1>4, <1>5, <2>3, <2>4, <2>9, InPlaceGoes
<1>8. QED
  BY <1>2, <1>6, <1>7 DEF InsertWrite

\* The record of t is made visible: nobody has changed the leaf, so it is not
\* frozen.
LEMMA PublishIs ==
  ASSUME SafeOverlap, LeafTreeInv, NEW t \in Threads, pc[t] = "publish",
         Leaf(t).sw = sw[t], UNCHANGED <<root, allocated>>,
         node' = [node EXCEPT ![leaf[t]].md[sw[t].count] = [visible |-> TRUE, at |-> sw[t].block]]
  PROVE  \E m : Changed(t, m)
<1>1. PICK n \in Node : n = Leaf(t) /\ n = node[leaf[t]] /\ WellFormed(n)
  BY LeafFacts
<1>2. PICK i, b, r : i = sw[t].count /\ b = sw[t].block /\ r = [key |-> calls[t].key, val |-> calls[t].val]
  OBVIOUS
<1>3. /\ i = n.sw.count /\ i \in 1 .. n.sw.count /\ b \in 1 .. n.sw.block
      /\ r \in [key : Keys, val : Vals]
  BY <1>1, <1>2, OwnRecord
<1>4. InsertInv(t)
  BY DEF LeafTreeInv, CallInv
<1>5. ~n.md[i].visible /\ n.md[i].at = Reserved /\ ~sw[t].frozen /\ n.body[b] = r
  BY <1>1, <1>2, <1>3, <1>4 DEF InsertInv, InsertLabels
<1>6. n.md[i] # ZeroMetadata
  BY <1>5, SizeFacts DEF Reserved, ZeroMetadata
<1>7. PICK m : m = [n EXCEPT !.md[i] = [visible |-> TRUE, at |-> b]]
  BY Zenon
<1>8. m \in Node /\ WellFormed(m) /\ Grows(n, m)
  <2>1. n.body[b] \in [key : Keys, val : Vals]
    BY <1>3, <1>5
  <2>2. QED
    BY <1>1, <1>3, <1>5, <1>6, <1>7, <2>1, PublishNode, SMTT(60)
<1>9. node' = [node EXCEPT ![leaf[t]] = m]
  BY <1>1, <1>2, <1>7, Zenon
<1>10. ~n.sw.frozen
  BY <1>1, <1>5
<1>11. InPlace(t, m)
  BY <1>1, <1>8, <1>9, <1>10 DEF InPlace
<1>12. ASSUME NEW u \in Threads \ {t}, Active(u), leaf[u] = leaf[t] PROVE Expected(u, Leaf(t), m)
  <2>1. pc[u] \notin InsertLabels /\ pc[u] \notin {"rewrite", "install"}
    BY Excluded DEF InsertLabels, UpdateLabels
  <2>2. QED
    BY <1>1, <1>8, <2>1 DEF Expected
<1>13. QED
  BY <1>1, <1>10, <1>11, <1>12 DEF Changed

LEMMA PublishKeeps ==
  ASSUME SafeOverlap, LeafTreeInv, NEW t \in Threads, Publish(t)
  PROVE  LeafTreeInv' /\ (KeptStep(t) \/ \E m : Changed(t, m))
<1>1. pc[t] = "publish" /\ UNCHANGED <<root, allocated, aborted>>
  BY DEF Publish, At
<1>2. Active(t) /\ calls[t].op = "insert" /\ pc[t] \notin {"idle", "swing"} \cup Settled
  BY <1>1 DEF LeafTreeInv, OpInv, InsertLabels, Active, Settled
<1>3. CASE /\ Leaf(t).sw = sw[t] /\ Succeed(t, "published")
           /\ node' = [node EXCEPT ![leaf[t]].md[sw[t].count] = [visible |-> TRUE, at |-> sw[t].block]]
  <2>1. PICK m : Changed(t, m)
    BY <1>1, <1>3, PublishIs, Zenon
  <2>2. Succeed(t, "published") /\ Settles("published", calls[t].op)
    BY <1>2, <1>3, Zenon DEF Settles
  <2>3. LeafTreeInv'
    BY <1>1, <1>2, <2>1, <2>2, InPlaceEnds DEF Changed
  <2>4. QED
    BY <2>1, <2>3
<1>4. CASE UNCHANGED node /\ Retry(t)
  BY <1>1, <1>2, <1>4, QuietEnd, QuietIsKept DEF treeVars
<1>5. QED
  BY <1>3, <1>4, Zenon DEF Publish, Leaf

-----------------------------------------------------------------------------
\* update.
LEMMA AllocateKeeps ==
  ASSUME SafeOverlap, LeafTreeInv, NEW t \in Threads, Allocate(t)
  PROVE  LeafTreeInv' /\ KeptStep(t)
<1>1. pc[t] = "allocate"
  BY Zenon DEF Allocate, At
<1>2. PICK n \in Node : n = Leaf(t) /\ n = node[leaf[t]] /\ WellFormed(n)
  BY LeafFacts
<1>3. CASE Retry(t) /\ UNCHANGED <<treeVars, aborted>>
  <2>1. pc[t] \notin {"idle", "swing"} \cup Settled
    BY <1>1 DEF Settled
  <2>2. QED
    BY <1>3, <2>1, QuietEnd, QuietIsKept
<1>4. CASE Abort(t)
  BY <1>1, <1>4, AbortKeeps, QuietIsKept DEF Abort
<1>5. CASE /\ n.md[index[t]].visible /\ ~n.sw.frozen /\ FreeSpace[leaf[t]] >= RecSize
           /\ node' = [node EXCEPT ![leaf[t]].sw.block = @ + 1]
           /\ sw' = [sw EXCEPT ![t] = [n.sw EXCEPT !.block = @ + 1]]
           /\ md' = [md EXCEPT ![t] = n.md[index[t]]]
           /\ GoTo(t, "rewrite")
           /\ UNCHANGED <<root, allocated, leaf, index, new_root, callVars, aborted>>
  <2>1. BodySize - n.sw.count * MdSize - n.sw.block * RecSize >= RecSize
    BY <1>2, <1>5, LeafFacts DEF FreeSpace
  <2>2. PICK m : m = [n EXCEPT !.sw.block = n.sw.block + 1]
    OBVIOUS
  <2>3. /\ m \in Node /\ WellFormed(m) /\ Kept(n, m)
        /\ m.sw = [n.sw EXCEPT !.block = n.sw.block + 1]
        /\ m.sw.frozen = n.sw.frozen /\ m.sw.count = n.sw.count /\ m.sw.block = n.sw.block + 1
        /\ m.md = n.md /\ m.body = n.body /\ m.sw.block \in Blocks
        /\ \A i \in Visible(m) : m.md[i].at # m.sw.block
    BY <1>2, <2>1, <2>2, AllocateNode
  <2>4. /\ n.md[index[t]].visible /\ ~n.sw.frozen /\ GoTo(t, "rewrite")
        /\ md' = [md EXCEPT ![t] = n.md[index[t]]]
        /\ UNCHANGED <<root, allocated, leaf, index, new_root, callVars, aborted>>
    BY <1>5, Zenon
  <2>5. sw' = [sw EXCEPT ![t] = m.sw]
    BY <1>5, <2>3, Zenon
  <2>6. node' = [node EXCEPT ![leaf[t]] = m]
    BY <1>2, <1>5, <2>2, Zenon
  <2>7. InPlace(t, m)
    BY <1>2, <2>3, <2>4, <2>6, KeptIsSame DEF InPlace
  <2>8. /\ calls[t].op = "update" /\ Active(t) /\ pc[t] \notin {"idle", "swing"} \cup Settled
        /\ new_root[t] = 0
    BY <1>1 DEF LeafTreeInv, OpInv, UpdateLabels, Active, LeafInv, Settled
  <2>9. ASSUME NEW u \in Threads \ {t}, Active(u), leaf[u] = leaf[t] PROVE Expected(u, Leaf(t), m)
    <3>1. n = Leaf(u)
      BY <1>2, <2>9 DEF Leaf
    <3>2. pc[u] \notin InsertLabels
      BY <1>1, Excluded DEF UpdateLabels
    <3>3. QED
      BY <1>2, <2>3, <3>1, <3>2, KeptExpected
  <2>10. m.sw \in StatusWord /\ index[t] \in 1 .. n.sw.count /\ index[t] \in Visible(n)
    <3>1. /\ index[t] \in 1 .. n.sw.count
          /\ index[t] \in Visible(n) \/ n.md[index[t]] = ZeroMetadata
      BY <1>1, <1>2 DEF LeafTreeInv, CallInv, IndexInv, UpdateLabels
    <3>2. n.md[index[t]] # ZeroMetadata
      BY <2>4 DEF ZeroMetadata
    <3>3. QED
      BY <2>3, <3>1, <3>2, NodeFacts
  <2>11. n.md[index[t]] \in Metadata
    BY <2>10, NodeFacts
  <2>12. /\ Types /\ pc'[t] = "rewrite" /\ sw'[t] = m.sw /\ md'[t] = n.md[index[t]]
         /\ leaf' = leaf /\ index' = index /\ new_root' = new_root /\ calls' = calls
         /\ Leaf(t)' = m
    BY <2>4, <2>5, <2>6, LeafFacts DEF Types, GoTo, callVars, Leaf
  <2>13. Still(t)
    BY <2>4, <2>5, <2>12 DEF Still, Types, GoTo
  <2>14. CallTypes'
    <3>1. "rewrite" \in Labels
      BY DEF Labels, UpdateLabels
    <3>2. pc' \in [Threads -> Labels] /\ sw' \in [Threads -> StatusWord] /\ md' \in [Threads -> Metadata]
      BY <2>4, <2>5, <2>10, <2>11, <2>12, <3>1 DEF Types, GoTo
    <3>3. QED
      BY <2>4, <2>12, <3>2 DEF CallTypes, Types, callVars
  <2>15. StaysIn(t)
    BY <2>8, <2>12 DEF StaysIn
  <2>16. Continues(t)
    BY <2>8, <2>12
    DEF Continues, Fits, Labels, InsertLabels, UpdateLabels, EraseLabels, CompactLabels, Settled
  <2>17. ApartInv'
    <3>1. ASSUME NEW u \in Threads \ {t}, pc[u] \in {"rewrite", "install"}, leaf[u] = leaf[t]
          PROVE  sw[u].block # m.sw.block
      <4>1. sw[u].block \in 1 .. n.sw.block
        BY <1>2, <3>1 DEF LeafTreeInv, CallInv, UpdateInv, Leaf
      <4>2. n.sw.block \in Nat
        BY NodeFacts
      <4>3. QED
        BY <2>3, <4>1, <4>2
    <3>2. \A u \in Threads \ {t} : pc'[u] = pc[u] /\ leaf'[u] = leaf[u] /\ sw'[u] = sw[u]
      BY <2>13 DEF Still
    <3>3. ApartInv
      BY DEF LeafTreeInv
    <3>4. ASSUME NEW v \in Threads, NEW u \in Threads, v # u, leaf'[v] = leaf'[u],
                 pc'[v] \in {"rewrite", "install"}, pc'[u] \in {"rewrite", "install"}
          PROVE  sw'[v].block # sw'[u].block
      <4>1. CASE v # t /\ u # t
        BY <3>2, <3>3, <3>4, <4>1 DEF ApartInv
      <4>2. CASE v = t
        BY <2>12, <3>1, <3>2, <3>4, <4>2
      <4>3. CASE u = t
        BY <2>12, <3>1, <3>2, <3>4, <4>3
      <4>4. QED
        BY <4>1, <4>2, <4>3
    <3>5. QED
      BY <3>4 DEF ApartInv
  <2>18. IndexInv(t)'
    <3>1. index[t] \in Visible(m)
      BY <2>3, <2>10 DEF Kept
    <3>2. QED
      BY <2>3, <2>4, <2>10, <2>12, <3>1 DEF IndexInv
  <2>19. UpdateInv(t)'
    <3>1. m.sw.block \in 1 .. m.sw.block
      BY <2>3, NodeFacts
    <3>2. QED
      BY <2>3, <2>12, <3>1 DEF UpdateInv
  <2>20. CallInv(t)'
    BY <2>12, <2>18, <2>19 DEF CallInv, InsertInv, InsertLabels
  <2>21. KeptStep(t)
    BY <1>2, <2>3, <2>7 DEF KeptStep
  <2>22. QED
    BY <2>7, <2>8, <2>9, <2>13, <2>14, <2>15, <2>16, <2>17, <2>20, <2>21, InPlaceStep
<1>6. QED
  BY <1>2, <1>3, <1>4, <1>5, Zenon DEF Allocate

\* What the other updates of the leaf expect of an update that has its record.
LEMMA Apart ==
  ASSUME LeafTreeInv, NEW t \in Threads, NEW u \in Threads \ {t}, leaf[u] = leaf[t],
         pc[t] \in {"rewrite", "install"}, pc[u] \in {"rewrite", "install"}
  PROVE  sw[u].block # sw[t].block /\ sw[u].block \in Blocks
  BY OwnRecord DEF LeafTreeInv, ApartInv

LEMMA UpdateWriteKeeps ==
  ASSUME SafeOverlap, LeafTreeInv, NEW t \in Threads, UpdateWrite(t)
  PROVE  LeafTreeInv'
<1>1. /\ pc[t] = "rewrite" /\ WriteRecord(t) /\ GoTo(t, "install")
      /\ UNCHANGED <<root, allocated, localVars, callVars, aborted>>
  BY DEF UpdateWrite, At
<1>2. PICK n \in Node : n = Leaf(t) /\ n = node[leaf[t]] /\ WellFormed(n)
  BY LeafFacts
<1>3. PICK m \in Node :
        /\ InPlace(t, m) /\ Kept(n, m) /\ m.sw = n.sw /\ m.md = n.md
        /\ m.body[sw[t].block] = [key |-> calls[t].key, val |-> calls[t].val]
        /\ \A x \in Blocks \ {sw[t].block} : m.body[x] = n.body[x]
  <2>1. PICK m \in Node : Wrote(t, m)
    BY <1>1, WriteIs
  <2>2. QED
    BY <1>2, <2>1 DEF Wrote
<1>4. calls[t].op = "update" /\ Active(t) /\ pc[t] \notin {"swing"} \cup Settled
  BY <1>1 DEF LeafTreeInv, OpInv, UpdateLabels, Active, Settled
<1>5. ASSUME NEW u \in Threads \ {t}, Active(u), leaf[u] = leaf[t] PROVE Expected(u, Leaf(t), m)
  <2>1. n = Leaf(u)
    BY <1>2, <1>5 DEF Leaf
  <2>2. pc[u] \notin InsertLabels
    BY <1>1, Excluded DEF UpdateLabels
  <2>3. pc[u] \in {"rewrite", "install"} => m.body[sw[u].block] = n.body[sw[u].block]
    BY <1>1, <1>3, <1>5, Apart
  <2>4. QED
    BY <1>2, <1>3, <2>1, <2>2, <2>3, KeptExpected
<1>6. Goes(t, "install")
  BY <1>1, LeafFacts DEF Goes, Types, localVars
<1>7. Fits("install", calls[t].op)
  BY <1>4 DEF Fits, Labels, InsertLabels, UpdateLabels, EraseLabels, CompactLabels, Settled
<1>8. pc'[t] = "install" /\ Leaf(t)' = m /\ calls' = calls /\ sw' = sw /\ md' = md /\ index' = index
  BY <1>1, <1>3, LeafFacts DEF InPlace, Types, GoTo, Leaf, callVars, localVars
<1>9. IndexInv(t)'
  <2>1. IndexInv(t)
    BY DEF LeafTreeInv, CallInv
  <2>2. Visible(m) = Visible(n)
    BY <1>3 DEF Kept
  <2>3. QED
    BY <1>1, <1>2, <1>3, <1>8, <2>1, <2>2 DEF IndexInv, UpdateLabels
<1>10. UpdateInv(t)'
  <2>1. UpdateInv(t)
    BY DEF LeafTreeInv, CallInv
  <2>2. Visible(m) = Visible(n)
    BY <1>3 DEF Kept
  <2>3. QED
    BY <1>1, <1>2, <1>3, <1>8, <2>1, <2>2 DEF UpdateInv
<1>11. CallInv(t)'
  BY <1>8, <1>9, <1>10 DEF CallInv, InsertInv, InsertLabels
<1>12. QED
  BY <1>1, <1>3, <1>4, <1>5, <1>6, <1>7, <1>8, <1>11, InPlaceGoes

\* The entry that an update or an erase is to change, if nobody has changed it.
LEMMA OwnEntry ==
  ASSUME LeafTreeInv, NEW t \in Threads, pc[t] \in {"install", "erase"},
         Leaf(t).sw = sw[t], Leaf(t).md[index[t]] = md[t]
  PROVE  /\ ~Leaf(t).sw.frozen /\ Active(t)
         /\ index[t] \in Slots /\ index[t] \in Visible(Leaf(t))
<1>1. PICK n \in Node : n = Leaf(t) /\ WellFormed(n)
  BY LeafFacts
<1>2. /\ index[t] \in 1 .. n.sw.count
      /\ index[t] \in Visible(n) \/ n.md[index[t]] = ZeroMetadata
      /\ md[t].visible /\ ~sw[t].frozen
  <2>1. IndexInv(t)
    BY DEF LeafTreeInv, CallInv
  <2>2. QED
    BY <1>1, <2>1 DEF IndexInv, UpdateLabels, EraseLabels
<1>3. n.md[index[t]] # ZeroMetadata
  BY <1>1, <1>2 DEF ZeroMetadata
<1>4. Active(t) /\ ~n.sw.frozen
  BY <1>1, <1>2 DEF Active
<1>5. index[t] \in Slots
  BY <1>2, NodeFacts
<1>6. QED
  BY <1>1, <1>2, <1>3, <1>4, <1>5

LEMMA InstallStep ==
  ASSUME LeafTreeInv, NEW t \in Threads,
         node' = [node EXCEPT ![leaf[t]].sw.deleted = @ + RecSize, ![leaf[t]].md[index[t]].at = sw[t].block]
  PROVE  node' = [node EXCEPT ![leaf[t]] =
                    InstalledNode(Leaf(t), index[t], Leaf(t).sw.deleted + RecSize, sw[t].block)]
<1>1. PICK n \in Node : n = Leaf(t) /\ n = node[leaf[t]]
  BY LeafFacts, Zenon
<1>2. PICK i, b, d : i = index[t] /\ b = sw[t].block /\ d = n.sw.deleted + RecSize
  BY Zenon
<1>3. PICK f : f = [node EXCEPT ![leaf[t]].sw.deleted = @ + RecSize]
  BY Zenon
<1>4. node' = [f EXCEPT ![leaf[t]].md[i].at = b]
  BY <1>2, <1>3, Zenon
<1>5. PICK n1 : n1 = [n EXCEPT !.sw.deleted = d]
  BY Zenon
<1>6. f = [node EXCEPT ![leaf[t]] = n1]
  BY <1>1, <1>2, <1>3, <1>5, Zenon
<1>7. leaf[t] \in DOMAIN node
  BY LeafFacts, Zenon
<1>8. f[leaf[t]] = n1 /\ leaf[t] \in DOMAIN f
  BY <1>6, <1>7, Zenon
<1>9. PICK q : q = [n1 EXCEPT !.md[i].at = b]
  BY Zenon
<1>10. node' = [f EXCEPT ![leaf[t]] = q]
  BY <1>4, <1>8, <1>9, Zenon
<1>11. node' = [node EXCEPT ![leaf[t]] = q]
  BY <1>6, <1>10, Zenon
<1>12. n1 = [sw |-> [n.sw EXCEPT !.deleted = d], md |-> n.md, body |-> n.body]
  BY <1>5 DEF Node
<1>13. q = [sw |-> [n.sw EXCEPT !.deleted = d],
            md |-> [n.md EXCEPT ![i] = [n.md[i] EXCEPT !.at = b]], body |-> n.body]
  BY <1>9, <1>12
<1>14. QED
  BY <1>1, <1>2, <1>11, <1>13, Zenon DEF InstalledNode

\* The record of t is installed: nobody has changed the leaf.
LEMMA InstallIs ==
  ASSUME SafeOverlap, LeafTreeInv, NEW t \in Threads, pc[t] = "install",
         Leaf(t).sw = sw[t], Leaf(t).md[index[t]] = md[t], UNCHANGED <<root, allocated>>,
         node' = [node EXCEPT ![leaf[t]] =
                    InstalledNode(Leaf(t), index[t], Leaf(t).sw.deleted + RecSize, sw[t].block)]
  PROVE  \E m : Changed(t, m)
<1>1. PICK n \in Node : n = Leaf(t) /\ n = node[leaf[t]] /\ WellFormed(n)
  BY LeafFacts, Zenon
<1>2. PICK i, b, r, d : /\ i = index[t] /\ b = sw[t].block
                        /\ r = [key |-> calls[t].key, val |-> calls[t].val]
                        /\ d = n.sw.deleted + RecSize
  BY Zenon
<1>3. i \in Slots /\ i \in Visible(n) /\ ~n.sw.frozen
  BY <1>1, <1>2, OwnEntry, Zenon
<1>4. /\ b \in 1 .. n.sw.block /\ r \in [key : Keys, val : Vals]
      /\ \A j \in Visible(n) : n.md[j].at # b
  <2>1. pc[t] \in {"write", "publish", "rewrite", "install"}
    BY Zenon
  <2>2. QED
    BY <1>1, <1>2, <2>1, OwnRecord, Zenon
<1>5. n.body[b] = r
  BY <1>1, <1>2, Zenon DEF LeafTreeInv, CallInv, UpdateInv
<1>6. node' = [node EXCEPT ![leaf[t]] = InstalledNode(n, i, d, b)]
  BY <1>1, <1>2, Zenon
<1>7. PICK m : m = InstalledNode(n, i, d, b)
  BY Zenon
<1>8. d \in Nat
  <2>1. n.sw.deleted \in Nat
    BY NodeFacts, Zenon
  <2>2. QED
    BY <1>2, <2>1, SizeFacts
<1>9. n.body[b] \in [key : Keys, val : Vals]
  BY <1>4, <1>5
<1>10. /\ m \in Node /\ WellFormed(m) /\ Grows(n, m)
       /\ m.body = n.body /\ Visible(m) = Visible(n)
       /\ \A j \in Visible(m) : m.md[j].at = b \/ m.md[j].at = n.md[j].at
  BY <1>1, <1>3, <1>4, <1>7, <1>8, <1>9, InstallNode
<1>11. InPlace(t, m)
  BY <1>1, <1>3, <1>6, <1>7, <1>10, Zenon DEF InPlace
<1>12. ASSUME NEW u \in Threads \ {t}, Active(u), leaf[u] = leaf[t] PROVE Expected(u, Leaf(t), m)
  <2>1. pc[u] \notin InsertLabels
    BY Excluded DEF UpdateLabels
  <2>2. ASSUME pc[u] \in {"rewrite", "install"}, NEW j \in Visible(m) PROVE m.md[j].at # sw[u].block
    <3>1. sw[u].block # b
      BY <1>2, <1>12, <2>2, Apart
    <3>2. n.md[j].at # sw[u].block
      <4>1. n = Leaf(u) /\ j \in Visible(n)
        BY <1>1, <1>10, <1>12, <2>2 DEF Leaf
      <4>2. QED
        BY <2>2, <4>1, OwnRecord
    <3>3. QED
      BY <1>10, <3>1, <3>2
  <2>3. QED
    BY <1>1, <1>10, <2>1, <2>2, Zenon DEF Expected
<1>13. QED
  BY <1>1, <1>3, <1>11, <1>12, Zenon DEF Changed

LEMMA UpdateInstallKeeps ==
  ASSUME SafeOverlap, LeafTreeInv, NEW t \in Threads, UpdateInstall(t)
  PROVE  LeafTreeInv' /\ (KeptStep(t) \/ \E m : Changed(t, m))
<1>1. pc[t] = "install" /\ UNCHANGED <<root, allocated, aborted>>
  BY Zenon DEF UpdateInstall, At
<1>2. Active(t) /\ calls[t].op = "update" /\ pc[t] \notin {"swing"} \cup Settled
  BY <1>1 DEF LeafTreeInv, OpInv, UpdateLabels, Active, Settled
<1>3. CASE /\ Leaf(t).sw = sw[t] /\ Leaf(t).md[index[t]] = md[t] /\ Succeed(t, "installed")
           /\ node' = [node EXCEPT ![leaf[t]].sw.deleted = @ + RecSize, ![leaf[t]].md[index[t]].at = sw[t].block]
  <2>1. PICK m : Changed(t, m)
    <3>1. node' = [node EXCEPT ![leaf[t]] =
                     InstalledNode(Leaf(t), index[t], Leaf(t).sw.deleted + RecSize, sw[t].block)]
      BY <1>3, InstallStep, Zenon
    <3>2. Leaf(t).sw = sw[t] /\ Leaf(t).md[index[t]] = md[t]
      BY <1>3, Zenon
    <3>3. QED
      BY <1>1, <3>1, <3>2, InstallIs
  <2>2. Succeed(t, "installed") /\ Settles("installed", calls[t].op)
    BY <1>3, <1>2, Zenon DEF Settles
  <2>3. LeafTreeInv'
    BY <1>1, <1>2, <2>1, <2>2, InPlaceEnds DEF Changed
  <2>4. QED
    BY <2>1, <2>3
<1>4. CASE GoTo(t, "allocate") /\ UNCHANGED <<node, localVars, callVars>>
  <2>1. Goes(t, "allocate") /\ UNCHANGED treeVars
    BY <1>1, <1>4, LeafFacts DEF Goes, Types, localVars, treeVars
  <2>2. Fits("allocate", calls[t].op)
    BY <1>2 DEF Fits, Labels, InsertLabels, UpdateLabels, EraseLabels, CompactLabels, Settled
  <2>3. pc'[t] = "allocate" /\ Leaf(t)' = Leaf(t) /\ calls' = calls /\ sw' = sw /\ md' = md /\ index' = index
    BY <1>1, <1>4, LeafFacts DEF Types, GoTo, Leaf, callVars, localVars
  <2>4. IndexInv(t)
    BY DEF LeafTreeInv, CallInv
  <2>5. IndexInv(t)'
    BY <1>1, <2>3, <2>4 DEF IndexInv, UpdateLabels
  <2>6. CallInv(t)'
    BY <2>3, <2>5 DEF CallInv, InsertInv, InsertLabels, UpdateInv
  <2>7. KeptStep(t)
    BY <2>1, QuietIsKept
  <2>8. QED
    BY <1>2, <2>1, <2>2, <2>6, <2>7, QuietGoes
<1>5. QED
  BY <1>3, <1>4, Zenon DEF UpdateInstall, Leaf

-----------------------------------------------------------------------------
\* erase.
LEMMA EraseStep ==
  ASSUME LeafTreeInv, NEW t \in Threads,
         node' = [node EXCEPT ![leaf[t]].sw.deleted = @ + RecSize + MdSize,
                              ![leaf[t]].md[index[t]] = ZeroMetadata]
  PROVE  node' = [node EXCEPT ![leaf[t]] =
                    ErasedNode(Leaf(t), index[t], Leaf(t).sw.deleted + RecSize + MdSize)]
<1>1. PICK n \in Node : n = Leaf(t) /\ n = node[leaf[t]]
  BY LeafFacts, Zenon
<1>2. PICK i, z, d : i = index[t] /\ z = ZeroMetadata /\ d = n.sw.deleted + RecSize + MdSize
  BY Zenon
<1>3. PICK f : f = [node EXCEPT ![leaf[t]].sw.deleted = @ + RecSize + MdSize]
  BY Zenon
<1>4. node' = [f EXCEPT ![leaf[t]].md[i] = z]
  BY <1>2, <1>3, Zenon
<1>5. PICK n1 : n1 = [n EXCEPT !.sw.deleted = d]
  BY Zenon
<1>6. f = [node EXCEPT ![leaf[t]] = n1]
  BY <1>1, <1>2, <1>3, <1>5, Zenon
<1>7. leaf[t] \in DOMAIN node
  BY LeafFacts, Zenon
<1>8. f[leaf[t]] = n1 /\ leaf[t] \in DOMAIN f
  BY <1>6, <1>7, Zenon
<1>9. PICK q : q = [n1 EXCEPT !.md[i] = z]
  BY Zenon
<1>10. node' = [f EXCEPT ![leaf[t]] = q]
  BY <1>4, <1>8, <1>9, Zenon
<1>11. node' = [node EXCEPT ![leaf[t]] = q]
  BY <1>6, <1>10, Zenon
<1>12. n1 = [sw |-> [n.sw EXCEPT !.deleted = d], md |-> n.md, body |-> n.body]
  BY <1>5 DEF Node
<1>13. q = [sw |-> [n.sw EXCEPT !.deleted = d], md |-> [n.md EXCEPT ![i] = z], body |-> n.body]
  BY <1>9, <1>12
<1>14. QED
  BY <1>1, <1>2, <1>11, <1>13, Zenon DEF ErasedNode

\* The entry of t is erased: nobody has changed the leaf.
LEMMA EraseIs ==
  ASSUME LeafTreeInv, NEW t \in Threads, pc[t] = "erase",
         Leaf(t).sw = sw[t], Leaf(t).md[index[t]] = md[t], UNCHANGED <<root, allocated>>,
         node' = [node EXCEPT ![leaf[t]] =
                    ErasedNode(Leaf(t), index[t], Leaf(t).sw.deleted + RecSize + MdSize)]
  PROVE  \E m : Changed(t, m)
<1>1. PICK n \in Node : n = Leaf(t) /\ n = node[leaf[t]] /\ WellFormed(n)
  BY LeafFacts
<1>2. PICK i, d : i = index[t] /\ d = n.sw.deleted + RecSize + MdSize
  OBVIOUS
<1>3. i \in Visible(n) /\ ~n.sw.frozen
  BY <1>1, <1>2, OwnEntry
<1>4. d \in Nat
  BY <1>2, NodeFacts, SizeFacts
<1>5. PICK m : m = ErasedNode(n, i, d)
  OBVIOUS
<1>6. node' = [node EXCEPT ![leaf[t]] = m]
  BY <1>1, <1>2, <1>5
<1>7. /\ m \in Node /\ WellFormed(m) /\ Grows(n, m) /\ Untouched(n, m)
      /\ \A j \in Visible(m) : j \in Visible(n) /\ m.md[j] = n.md[j]
  BY <1>1, <1>3, <1>4, <1>5, EraseNode
<1>8. InPlace(t, m)
  BY <1>1, <1>3, <1>6, <1>7 DEF InPlace
<1>9. ASSUME NEW u \in Threads \ {t}, Active(u), leaf[u] = leaf[t] PROVE Expected(u, Leaf(t), m)
  <2>1. ASSUME pc[u] \in {"rewrite", "install"}, NEW j \in Visible(m) PROVE m.md[j].at # sw[u].block
    <3>1. n = Leaf(u) /\ j \in Visible(n)
      BY <1>1, <1>7, <1>9, <2>1 DEF Leaf
    <3>2. QED
      BY <1>7, <2>1, <3>1, OwnRecord
  <2>2. m.body = n.body
    BY <1>7 DEF Untouched
  <2>3. QED
    BY <1>1, <1>7, <2>1, <2>2 DEF Expected
<1>10. QED
  BY <1>1, <1>3, <1>8, <1>9 DEF Changed

LEMMA EraseInstallKeeps ==
  ASSUME LeafTreeInv, NEW t \in Threads, EraseInstall(t)
  PROVE  LeafTreeInv' /\ (KeptStep(t) \/ \E m : Changed(t, m))
<1>1. pc[t] = "erase" /\ UNCHANGED <<root, allocated, aborted>>
  BY Zenon DEF EraseInstall, At
<1>2. Active(t) /\ calls[t].op = "erase" /\ pc[t] \notin {"idle", "swing"} \cup Settled
  BY <1>1 DEF LeafTreeInv, OpInv, EraseLabels, Active, Settled
<1>3. CASE /\ Leaf(t).sw = sw[t] /\ Leaf(t).md[index[t]] = md[t] /\ Succeed(t, "erased")
           /\ node' = [node EXCEPT ![leaf[t]].sw.deleted = @ + RecSize + MdSize,
                                   ![leaf[t]].md[index[t]] = ZeroMetadata]
  <2>1. PICK m : Changed(t, m)
    <3>1. node' = [node EXCEPT ![leaf[t]] =
                     ErasedNode(Leaf(t), index[t], Leaf(t).sw.deleted + RecSize + MdSize)]
      BY <1>3, EraseStep, Zenon
    <3>2. Leaf(t).sw = sw[t] /\ Leaf(t).md[index[t]] = md[t]
      BY <1>3, Zenon
    <3>3. QED
      BY <1>1, <3>1, <3>2, EraseIs
  <2>2. Succeed(t, "erased") /\ Settles("erased", calls[t].op)
    BY <1>2, <1>3, Zenon DEF Settles
  <2>3. LeafTreeInv'
    BY <1>1, <1>2, <2>1, <2>2, InPlaceEnds DEF Changed
  <2>4. QED
    BY <2>1, <2>3
<1>4. CASE UNCHANGED node /\ Retry(t)
  BY <1>1, <1>2, <1>4, QuietEnd, QuietIsKept DEF treeVars
<1>5. QED
  BY <1>3, <1>4, Zenon DEF EraseInstall, Leaf

-----------------------------------------------------------------------------
(***************************************************************************)
(* The compaction works on a node of its own, and then swings the root.    *)
(***************************************************************************)

LEMMA ZeroNodeFacts ==
  ZeroNode \in Node /\ WellFormed(ZeroNode)
<1>1. PICK z : z = ZeroNode
  OBVIOUS
<1>2. /\ z.sw = ZeroStatus /\ z.md = [i \in Slots |-> ZeroMetadata]
      /\ z.body = [b \in Blocks |-> NoRecord] /\ z = [sw |-> z.sw, md |-> z.md, body |-> z.body]
  BY <1>1 DEF ZeroNode
<1>3. ZeroStatus \in StatusWord /\ ZeroMetadata \in Metadata
  BY DEF ZeroStatus, StatusWord, ZeroMetadata, Metadata
<1>4. NoRecord \in [key : Keys \cup {None}, val : Vals \cup {None}]
  BY DEF NoRecord
<1>5. /\ z.md \in [Slots -> Metadata]
      /\ z.body \in [Blocks -> [key : Keys \cup {None}, val : Vals \cup {None}]]
  BY <1>2, <1>3, <1>4
<1>6. z \in Node
  BY <1>2, <1>3, <1>5 DEF Node
<1>7. z.sw.count = 0 /\ z.sw.block = 0
  BY <1>2 DEF ZeroStatus
<1>8. Visible(z) = {}
  BY <1>7 DEF Visible
<1>9. WellFormed(z)
  <2>1. 0 * MdSize + 0 * RecSize <= BodySize
    BY SizeFacts
  <2>2. \A i \in Slots : z.md[i] = ZeroMetadata
    BY <1>2
  <2>3. QED
    BY <1>7, <1>8, <2>1, <2>2 DEF WellFormed
<1>10. QED
  BY <1>1, <1>6, <1>9

\* A step that changes no leaf that a call works on.
LEMMA AsideKeeps ==
  ASSUME LeafTreeInv, NEW t \in Threads, Still(t), Moves(t), CallTypes',
         pc'[t] \in {"swing", "traverse"},
         root' \in Nodes, allocated' \subseteq Nodes, node' \in [Nodes -> Node], NodeInv', LeafInv',
         \A u \in Threads : Active(u) => node'[leaf[u]] = node[leaf[u]]
  PROVE  LeafTreeInv'
<1>1. Types'
  BY DEF CallTypes, Types
<1>2. OpInv' /\ ApartInv'
  BY OpKeeps, ApartKeeps DEF Moves
<1>3. \A u \in Threads \ {t} : Active(u) => Expected(u, node[leaf[u]], node'[leaf[u]])
  BY ExpectedItself DEF Leaf
<1>4. Gently(t)
  BY <1>3 DEF Gently
<1>5. \A u \in Threads \ {t} : CallInv(u)'
  BY <1>1, <1>4, OthersKeep
<1>6. CallInv(t)'
  BY WorkIsDone
<1>7. QED
  BY <1>1, <1>2, <1>5, <1>6 DEF LeafTreeInv

\* The copy that a compaction makes.
LEMMA CopyIs ==
  ASSUME LeafTreeInv, NEW t \in Threads, Compact(t)
  PROVE  \E n \in Nodes \ allocated, m \in Node :
           /\ WellFormed(m) /\ node' = [node EXCEPT ![n] = m]
           /\ new_root' = [new_root EXCEPT ![t] = n] /\ allocated' = allocated \cup {n}
<1>1. PICK n \in Nodes \ allocated : \E gone :
        /\ node' = [node EXCEPT ![n] = NodeCompact(Without(node[leaf[t]], gone))]
        /\ new_root' = [new_root EXCEPT ![t] = n] /\ allocated' = allocated \cup {n}
  BY Zenon DEF Compact
<1>2. PICK gone :
        /\ node' = [node EXCEPT ![n] = NodeCompact(Without(node[leaf[t]], gone))]
        /\ new_root' = [new_root EXCEPT ![t] = n] /\ allocated' = allocated \cup {n}
  BY <1>1, Zenon
<1>3. PICK w \in Node : w = Without(node[leaf[t]], gone) /\ WellFormed(w)
  BY LeafFacts, WithoutNode
<1>4. PICK m \in Node : m = NodeCompact(w) /\ WellFormed(m)
  BY <1>3, CompactNode
<1>5. QED
  BY <1>2, <1>3, <1>4, Zenon

LEMMA CompactKeeps ==
  ASSUME LeafTreeInv, NEW t \in Threads, Compact(t)
  PROVE  LeafTreeInv'
<1>1. /\ pc[t] = "compact" /\ GoTo(t, "swing")
      /\ UNCHANGED <<root, leaf, index, sw, md, callVars, aborted>>
  BY DEF Compact, At
<1>2. PICK n \in Nodes \ allocated, m \in Node :
        /\ WellFormed(m) /\ node' = [node EXCEPT ![n] = m]
        /\ new_root' = [new_root EXCEPT ![t] = n] /\ allocated' = allocated \cup {n}
  BY CopyIs
<1>3. /\ Types /\ LeafInv /\ leaf[t] \in Nodes /\ node \in [Nodes -> Node] /\ NodeInv
  BY LeafFacts DEF LeafTreeInv
<1>4. /\ node' \in [Nodes -> Node] /\ node'[n] = m /\ \A x \in Nodes \ {n} : node'[x] = node[x]
  BY <1>2, <1>3
<1>5. NodeInv'
  BY <1>2, <1>3, <1>4 DEF NodeInv
<1>6. /\ pc'[t] = "swing" /\ new_root'[t] = n /\ calls' = calls
      /\ \A u \in Threads \ {t} : pc'[u] = pc[u] /\ new_root'[u] = new_root[u]
  BY <1>1, <1>2, <1>3 DEF Types, GoTo, callVars
<1>7. Still(t)
  BY <1>1, <1>6 DEF Still
<1>8. CallTypes'
  <2>1. "swing" \in Labels
    BY DEF Labels, CompactLabels
  <2>2. pc' \in [Threads -> Labels] /\ new_root' \in [Threads -> Nodes]
    BY <1>1, <1>2, <1>3, <2>1 DEF Types, GoTo
  <2>3. QED
    BY <1>1, <1>3, <2>2 DEF Types, CallTypes, callVars
<1>9. Moves(t) /\ Active(t)
  <2>1. calls[t].op \in {"insert", "update"}
    BY <1>1 DEF LeafTreeInv, OpInv, CompactLabels
  <2>2. Fits("swing", calls[t].op)
    BY <2>1 DEF Fits, Labels, InsertLabels, UpdateLabels, EraseLabels, CompactLabels, Settled
  <2>3. QED
    BY <1>1, <1>6, <2>2 DEF Moves, Continues, Active, Settled
<1>10. \A u \in Threads : leaf[u] \in Nodes \ {n} /\ new_root[u] # n
  BY <1>2, <1>3 DEF LeafInv, Types
<1>11. n \notin {0, root} /\ {0, root} \subseteq allocated'
  BY <1>2, <1>3 DEF LeafInv
<1>12. LeafInv'
  <2>1. ASSUME NEW u \in Threads
        PROVE  /\ leaf'[u] \in allocated' /\ new_root'[u] \in allocated'
               /\ pc'[u] \notin {"idle", "traverse"} /\ leaf'[u] # root' => node'[leaf'[u]].sw.frozen
               /\ pc'[u] \in {"compact", "swing"} => node'[leaf'[u]].sw.frozen
               /\ pc'[u] # "swing" => new_root'[u] = 0
    <3>1. node'[leaf[u]] = node[leaf[u]] /\ leaf' = leaf /\ root' = root
      BY <1>1, <1>4, <1>10
    <3>2. CASE u # t
      BY <1>2, <1>3, <1>6, <3>1, <3>2 DEF LeafInv, Leaf, Active
    <3>3. CASE u = t
      BY <1>1, <1>2, <1>3, <1>6, <3>1, <3>3 DEF LeafInv, Leaf
    <3>4. QED
      BY <3>2, <3>3
  <2>2. ASSUME NEW u \in Threads, pc'[u] = "swing"
        PROVE  /\ new_root'[u] \notin {0, root'}
               /\ \A v \in Threads : new_root'[u] # leaf'[v]
               /\ \A v \in Threads \ {u} : new_root'[u] # new_root'[v]
    <3>1. node'[leaf[u]] = node[leaf[u]] /\ leaf' = leaf /\ root' = root
      BY <1>1, <1>4, <1>10
    <3>2. CASE u = t
      BY <1>6, <1>10, <1>11, <3>1, <3>2
    <3>3. CASE u # t
      <4>1. /\ pc[u] = "swing" /\ new_root'[u] = new_root[u] /\ new_root[u] \in Nodes \ {n}
        BY <1>3, <1>6, <1>10, <2>2, <3>3 DEF Types
      <4>2. \A v \in Threads \ {u} : new_root[u] # new_root'[v]
        BY <1>3, <1>6, <4>1 DEF LeafInv
      <4>3. QED
        BY <1>3, <3>1, <4>1, <4>2 DEF LeafInv, Leaf
    <3>4. QED
      BY <3>2, <3>3
  <2>3. QED
    BY <1>1, <1>11, <2>1, <2>2 DEF LeafInv, Active, Leaf
<1>13. /\ root' \in Nodes /\ allocated' \subseteq Nodes
       /\ \A u \in Threads : node'[leaf[u]] = node[leaf[u]]
  BY <1>1, <1>2, <1>3, <1>4, <1>10 DEF Types
<1>14. QED
  BY <1>1, <1>4, <1>5, <1>6, <1>7, <1>8, <1>9, <1>12, <1>13, AsideKeeps

LEMMA SwingRootKeeps ==
  ASSUME LeafTreeInv, NEW t \in Threads, SwingRoot(t)
  PROVE  LeafTreeInv'
<1>1. CASE Abort(t)
  BY <1>1, AbortKeeps
<1>2. CASE /\ root = leaf[t] /\ root' = new_root[t] /\ Retry(t)
           /\ UNCHANGED <<node, allocated, aborted>>
  <2>1. pc[t] = "swing"
    BY DEF SwingRoot, At
  <2>2. /\ Types /\ LeafInv /\ leaf[t] \in Nodes /\ new_root[t] \in Nodes /\ node \in [Nodes -> Node]
        /\ NodeInv
    BY LeafFacts DEF LeafTreeInv, Types
  <2>3. Still(t) /\ Moves(t) /\ CallTypes'
    BY <1>2, <2>1, RetryIs DEF Settled
  <2>4. pc'[t] = "traverse" /\ leaf'[t] = 0 /\ new_root'[t] = 0
    BY <1>2, <2>2 DEF Types, Retry, GoTo, Reset
  <2>5. \A u \in Threads \ {t} : pc'[u] = pc[u] /\ leaf'[u] = leaf[u] /\ new_root'[u] = new_root[u]
    BY <2>3 DEF Still
  <2>6. /\ new_root[t] \notin {0, root} /\ new_root[t] \in allocated
        /\ \A u \in Threads : new_root[t] # leaf[u]
        /\ \A u \in Threads \ {t} : new_root[t] # new_root[u]
        /\ node[leaf[t]].sw.frozen
    BY <2>1, <2>2 DEF LeafInv, Leaf
  <2>7. ASSUME NEW u \in Threads
        PROVE  /\ leaf'[u] \in allocated' /\ new_root'[u] \in allocated'
               /\ pc'[u] \notin {"idle", "traverse"} /\ leaf'[u] # root' => node'[leaf'[u]].sw.frozen
               /\ pc'[u] \in {"compact", "swing"} => node'[leaf'[u]].sw.frozen
               /\ pc'[u] # "swing" => new_root'[u] = 0
    <3>1. CASE u = t
      BY <1>2, <2>2, <2>4, <3>1 DEF LeafInv
    <3>2. CASE u # t
      BY <1>2, <2>2, <2>5, <2>6, <3>2 DEF LeafInv, Leaf, Active
    <3>3. QED
      BY <3>1, <3>2
  <2>8. ASSUME NEW u \in Threads, pc'[u] = "swing"
        PROVE  /\ new_root'[u] \notin {0, root'}
               /\ \A v \in Threads : new_root'[u] # leaf'[v]
               /\ \A v \in Threads \ {u} : new_root'[u] # new_root'[v]
    <3>1. u # t
      BY <2>4, <2>8
    <3>2. pc[u] = "swing" /\ new_root'[u] = new_root[u] /\ leaf'[u] = leaf[u]
      BY <2>5, <2>8, <3>1
    <3>3. QED
      BY <1>2, <2>2, <2>4, <2>5, <2>6, <3>1, <3>2 DEF LeafInv, Leaf
  <2>9. LeafInv'
    BY <1>2, <2>2, <2>6, <2>7, <2>8 DEF LeafInv, Active, Leaf
  <2>10. NodeInv'
    BY <1>2, <2>2 DEF NodeInv
  <2>11. QED
    BY <1>2, <2>2, <2>3, <2>4, <2>9, <2>10, AsideKeeps DEF Types
<1>3. QED
  BY <1>1, <1>2 DEF SwingRoot

-----------------------------------------------------------------------------
LEMMA InitKeeps ==
  ASSUME Init
  PROVE  LeafTreeInv
<1>1. ZeroNode \in Node /\ WellFormed(ZeroNode)
  BY ZeroNodeFacts
<1>2. /\ ZeroStatus \in StatusWord /\ ZeroMetadata \in Metadata /\ "idle" \in Labels /\ 0 \in Nodes
      /\ MaxCalls \in [Threads -> Nat]
  BY NodesAssumption, CallsAssumption
  DEF ZeroStatus, StatusWord, ZeroMetadata, Metadata, Labels
<1>3. Types
  <2>1. /\ protected \in [Threads -> BOOLEAN] /\ aborted \in BOOLEAN
        /\ result \in [Threads -> Vals \cup {None, Garbage} \cup BOOLEAN]
    BY Zenon DEF Init
  <2>2. QED
    BY <1>1, <1>2, <2>1 DEF Init, Types
<1>4. \A t \in Threads : pc[t] = "idle" /\ calls[t] = Idle /\ leaf[t] = 0 /\ new_root[t] = 0
  BY DEF Init
<1>5. OpInv
  BY <1>4 DEF OpInv, Idle, InsertLabels, UpdateLabels, EraseLabels, CompactLabels, Settled
<1>6. NodeInv
  BY <1>1 DEF NodeInv, Init
<1>7. LeafInv
  BY <1>4 DEF LeafInv, Init, Active
<1>8. ApartInv
  BY <1>4 DEF ApartInv
<1>9. \A t \in Threads : CallInv(t)
  BY <1>4 DEF CallInv, IndexInv, InsertInv, UpdateInv, InsertLabels, UpdateLabels, EraseLabels
<1>10. QED
  BY <1>3, <1>5, <1>6, <1>7, <1>8, <1>9 DEF LeafTreeInv

LEMMA NextKeeps ==
  ASSUME SafeOverlap, LeafTreeInv, [Next]_vars
  PROVE  LeafTreeInv'
<1>1. ASSUME NEW t \in Threads, Step(t) PROVE LeafTreeInv'
  BY <1>1, TraverseKeeps, FreezeKeeps, CompactKeeps, SwingRootKeeps, ScanKeeps, FetchKeeps,
    ReserveKeeps, ReadBackKeeps, InsertWriteKeeps, PublishKeeps, AllocateKeeps, UpdateWriteKeeps,
    UpdateInstallKeeps, RecheckKeeps, EraseInstallKeeps, SettleKeeps, StrayKeeps DEF Step
<1>2. ASSUME NEW t \in Threads, BeginSome(t) PROVE LeafTreeInv'
  <2>1. CASE \E o \in {"insert", "update"}, k \in Keys, v \in Vals : Begin(t, o, k, v)
    BY <2>1, BeginKeeps DEF Operations
  <2>2. CASE \E o \in {"erase", "lookup"}, k \in Keys : Begin(t, o, k, None)
    BY <2>2, BeginKeeps DEF Operations
  <2>3. QED
    BY <1>2, <2>1, <2>2 DEF BeginSome
<1>3. CASE UNCHANGED vars
  <2>1. /\ Types' /\ OpInv' /\ NodeInv' /\ LeafInv' /\ ApartInv'
    BY <1>3 DEF vars, LeafTreeInv, Types, OpInv, NodeInv, LeafInv, ApartInv, Active, Leaf,
      Operation
  <2>2. ASSUME NEW t \in Threads PROVE CallInv(t)'
    <3>1. CallInv(t)
      BY DEF LeafTreeInv
    <3>2. QED
      BY <1>3, <3>1 DEF vars, CallInv, IndexInv, InsertInv, UpdateInv, Leaf
  <2>3. QED
    BY <2>1, <2>2 DEF LeafTreeInv
<1>4. QED
  BY <1>1, <1>2, <1>3 DEF Next

-----------------------------------------------------------------------------
(***************************************************************************)
(* The theorems.                                                           *)
(***************************************************************************)

\* What the steps of insert, update, erase, lookup and the compaction keep, from
\* the empty leaf that the constructor makes: the inductive invariant.
THEOREM LeafInvariant ==
  ASSUME SafeOverlap
  PROVE  Spec => []LeafTreeInv
<1>1. Init => LeafTreeInv
  BY InitKeeps
<1>2. LeafTreeInv /\ [Next]_vars => LeafTreeInv'
  BY NextKeeps
<1>3. QED
  BY <1>1, <1>2, PTL DEF Spec

\* The local i of the search.
IndexOK == index \in [Threads -> {0, 1} \cup Slots]

LEMMA IndexKeeps ==
  ASSUME LeafTreeInv, IndexOK, [Next]_vars
  PROVE  IndexOK'
<1>1. \A t \in Threads : Reset(t) => IndexOK'
  BY DEF Reset, IndexOK
<1>2. index' = index => IndexOK'
  BY DEF IndexOK
<1>3. ASSUME NEW t \in Threads, Scan(t) PROVE IndexOK'
  <2>1. CASE /\ index[t] < Leaf(t).sw.count \/ index[t] + 1 \in Slots
             /\ index' = [index EXCEPT ![t] = index[t] + 1]
    <3>1. Leaf(t).sw.count \in Nat /\ 1 .. Leaf(t).sw.count \subseteq Slots
      BY LeafFacts, NodeFacts
    <3>2. index[t] \in Nat
      BY DEF LeafTreeInv, Types
    <3>3. index[t] + 1 \in Slots
      BY <2>1, <3>1, <3>2
    <3>4. QED
      BY <2>1, <3>3 DEF IndexOK
  <2>2. CASE Reset(t) \/ index' = index
    BY <1>1, <1>2, <2>2
  <2>3. QED
    BY <1>3, <2>1, <2>2, Zenon DEF Scan, Return, localVars, Leaf
<1>4. ASSUME NEW t \in Threads, Traverse(t) PROVE IndexOK'
  BY <1>4 DEF Traverse, IndexOK
<1>5. ASSUME NEW t \in Threads, Step(t), ~Scan(t), ~Traverse(t) PROVE Reset(t) \/ index' = index
  <2>1. FreezeRoot(t) \/ Compact(t) => index' = index
    BY DEF FreezeRoot, Compact, localVars
  <2>2. /\ SwingRoot(t) => Reset(t) \/ index' = index
        /\ Fetch(t) \/ Settle(t) => Reset(t)
        /\ Stray(t) => index' = index
    BY Zenon DEF SwingRoot, Fetch, Settle, Stray, Abort, Retry, Return, localVars
  <2>3. Reserve(t) => index' = index
    BY Zenon DEF Reserve, Abort, localVars
  <2>4. ReadBack(t) \/ UpdateWrite(t) => index' = index
    BY Zenon DEF ReadBack, UpdateWrite, localVars
  <2>5. InsertWrite(t) => Reset(t) \/ index' = index
    BY Zenon DEF InsertWrite, Retry
  <2>6. Publish(t) \/ EraseInstall(t) => Reset(t) \/ index' = index
    BY Zenon DEF Publish, EraseInstall, Retry, Succeed, localVars
  <2>7. Allocate(t) => Reset(t) \/ index' = index
    BY Zenon DEF Allocate, Abort, Retry, localVars
  <2>8. UpdateInstall(t) => index' = index
    BY Zenon DEF UpdateInstall, Succeed, localVars
  <2>9. Recheck(t) => Reset(t) \/ index' = index
    BY Zenon DEF Recheck, Retry
  <2>10. QED
    BY <1>5, <2>1, <2>2, <2>3, <2>4, <2>5, <2>6, <2>7, <2>8, <2>9 DEF Step
<1>6. ASSUME NEW t \in Threads, BeginSome(t) PROVE index' = index
  BY <1>6, Zenon DEF BeginSome, Begin, localVars
<1>7. UNCHANGED vars => index' = index
  BY DEF vars
<1>8. QED
  BY <1>1, <1>2, <1>3, <1>4, <1>5, <1>6, <1>7 DEF Next

LEMMA TypesHold ==
  ASSUME LeafTreeInv, IndexOK
  PROVE  TypeOK
<1>1. Types /\ LeafInv /\ OpInv
  BY DEF LeafTreeInv
<1>2. \A i \in {0, 1} \cup Slots : i \in {0} \cup Slots \cup {Cardinality(Slots) + 1}
  <2>1. PICK q \in Nat : q = BodySize \div (MdSize + RecSize)
    BY SizeFacts
  <2>2. Slots = 1 .. q
    BY <2>1 DEF Slots
  <2>3. CASE q = 0
    <3>1. Cardinality(Slots) = 0
      BY <2>2, <2>3, FS_EmptySet
    <3>2. QED
      BY <3>1
  <2>4. CASE q # 0
    <3>1. 1 \in Slots
      BY <2>2, <2>4
    <3>2. QED
      BY <3>1
  <2>5. QED
    BY <2>3, <2>4
<1>3. ASSUME NEW t \in Threads
      PROVE  /\ calls[t] = Idle <=> pc[t] \in {"idle"} \cup Settled
             /\ leaf[t] \in allocated /\ new_root[t] \in allocated
             /\ sw[t] \in StatusWord /\ md[t] \in Metadata
             /\ index[t] \in {0} \cup Slots \cup {Cardinality(Slots) + 1}
             /\ protected[t] \in BOOLEAN /\ left[t] \in Nat
             /\ result[t] \in Vals \cup {None, Garbage} \cup BOOLEAN
  <2>1. index[t] \in {0, 1} \cup Slots
    BY DEF IndexOK
  <2>2. QED
    BY <1>1, <1>2, <2>1 DEF Types, LeafInv, OpInv
<1>4. QED
  BY <1>1, <1>3 DEF Types, LeafInv, TypeOK

\* The status words, entries and records of every node, the local variables of
\* every call and its results are what their types say, and no call works on a
\* node that has been freed.
THEOREM TypeCorrect ==
  ASSUME SafeOverlap
  PROVE  Spec => []TypeOK
<1>1. Init => LeafTreeInv /\ IndexOK
  BY InitKeeps DEF Init, IndexOK
<1>2. LeafTreeInv /\ IndexOK /\ [Next]_vars => LeafTreeInv' /\ IndexOK'
  BY NextKeeps, IndexKeeps
<1>3. LeafTreeInv /\ IndexOK => TypeOK
  BY TypesHold
<1>4. QED
  BY <1>1, <1>2, <1>3, PTL DEF Spec

-----------------------------------------------------------------------------
FrozenStays ==
  \A n \in allocated : node[n].sw.frozen => Kept(node[n], node'[n])

LEMMA KeptStepFrozen ==
  ASSUME LeafTreeInv, NEW t \in Threads, NEW m, InPlace(t, m)
  PROVE  FrozenStays
  BY InPlaceNodes DEF FrozenStays, LeafTreeInv, Types

\* A compaction keeps every leaf that is frozen.
LEMMA CompactionIs ==
  ASSUME LeafTreeInv, NEW t \in Threads, Compact(t) \/ SwingRoot(t)
  PROVE  FrozenStays
<1>1. node \in [Nodes -> Node] /\ allocated \subseteq Nodes
  BY DEF LeafTreeInv, Types
<1>2. \A x \in allocated : node'[x] = node[x]
  <2>1. CASE Compact(t)
    <3>1. PICK n \in Nodes \ allocated, m \in Node : node' = [node EXCEPT ![n] = m]
      BY <2>1, CopyIs
    <3>2. QED
      BY <1>1, <3>1
  <2>2. CASE SwingRoot(t)
    BY <2>2, Zenon DEF SwingRoot, Abort, treeVars
  <2>3. QED
    BY <2>1, <2>2
<1>3. QED
  BY <1>1, <1>2, KeptItself DEF FrozenStays

\* Every step but a compaction changes the leaf of t in place, or nothing.
LEMMA StepsInPlace ==
  ASSUME SafeOverlap, LeafTreeInv, NEW t \in Threads, Step(t), ~Compact(t), ~SwingRoot(t)
  PROVE  \E m : InPlace(t, m)
<1>1. /\ Traverse(t) \/ Scan(t) \/ Fetch(t) \/ ReadBack(t) \/ Recheck(t) => UNCHANGED treeVars
      /\ Settle(t) \/ Stray(t) => UNCHANGED treeVars
  BY Zenon DEF Traverse, Scan, Fetch, ReadBack, Recheck, Settle, Stray, Abort
<1>2. InsertWrite(t) \/ UpdateWrite(t) => KeptStep(t)
  <2>1. InsertWrite(t) => pc[t] = "write" /\ WriteRecord(t) /\ UNCHANGED <<root, allocated>>
    BY DEF InsertWrite, At
  <2>2. UpdateWrite(t) => pc[t] = "rewrite" /\ WriteRecord(t) /\ UNCHANGED <<root, allocated>>
    BY DEF UpdateWrite, At
  <2>3. QED
    BY <2>1, <2>2, WriteIsKept
<1>3. FreezeRoot(t) \/ Reserve(t) \/ Allocate(t) => KeptStep(t)
  BY FreezeKeeps, ReserveKeeps, AllocateKeeps
<1>4. Publish(t) \/ UpdateInstall(t) \/ EraseInstall(t) => \E m : InPlace(t, m)
  BY PublishKeeps, UpdateInstallKeeps, EraseInstallKeeps DEF KeptStep, Changed
<1>5. QED
  BY <1>1, <1>2, <1>3, <1>4, QuietIsKept DEF Step, KeptStep

LEMMA FrozenKeeps ==
  ASSUME SafeOverlap, LeafTreeInv, LeafTreeInv', Next
  PROVE  \A n \in allocated : node[n].sw.frozen =>
           /\ node'[n].sw.frozen
           /\ VisibleRecords(node'[n]) = VisibleRecords(node[n])
<1>1. PICK t \in Threads : Step(t) \/ BeginSome(t)
  BY DEF Next
<1>2. FrozenStays
  <2>1. CASE Compact(t) \/ SwingRoot(t)
    BY <2>1, CompactionIs
  <2>2. CASE Step(t) /\ ~Compact(t) /\ ~SwingRoot(t)
    BY <2>2, StepsInPlace, KeptStepFrozen
  <2>3. CASE BeginSome(t)
    <3>1. UNCHANGED treeVars
      BY <2>3, Zenon DEF BeginSome, Begin
    <3>2. QED
      BY <3>1, NothingInPlace, KeptStepFrozen
  <2>4. QED
    BY <1>1, <2>1, <2>2, <2>3
<1>3. ASSUME NEW n \in allocated, node[n].sw.frozen
      PROVE  node'[n].sw.frozen /\ VisibleRecords(node'[n]) = VisibleRecords(node[n])
  <2>1. node[n] \in Node /\ node'[n] \in Node /\ Kept(node[n], node'[n])
    BY <1>2, <1>3 DEF FrozenStays, LeafTreeInv, Types
  <2>2. QED
    BY <1>3, <2>1, KeptIsSame DEF Kept
<1>4. QED
  BY <1>3

\* A frozen leaf stays frozen, and what can be seen in it does not change:
\* whatever inserts, updates and erases that began before still do to it, there
\* is nothing that the compaction which copies it out comes too early for.
THEOREM Frozen ==
  ASSUME SafeOverlap
  PROVE  Spec => FrozenIsStable
<1>1. LeafTreeInv /\ LeafTreeInv' /\ [Next]_vars
      => [\A n \in allocated : node[n].sw.frozen =>
            /\ node'[n].sw.frozen
            /\ VisibleRecords(node[n])' = VisibleRecords(node[n])]_vars
  <2>1. \A n : VisibleRecords(node[n])' = VisibleRecords(node'[n])
    BY DEF VisibleRecords, Visible, Record
  <2>2. QED
    BY <2>1, FrozenKeeps
<1>2. Spec => []LeafTreeInv
  BY LeafInvariant
<1>3. QED
  BY <1>1, <1>2, PTL DEF Spec, FrozenIsStable

=============================================================================
