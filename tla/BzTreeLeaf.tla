----------------------------- MODULE BzTreeLeaf -----------------------------
(***************************************************************************)
(* The BzTree of src/bztree while it has height 1: insert, update, erase   *)
(* and lookup on the root leaf, and the compaction of the root that a      *)
(* traversal performs (find_leaf_parent_smo).                              *)
(*                                                                         *)
(* A MwCAS takes effect in one step, but its descriptor is in the words    *)
(* for longer, and the tree loads words without GetValue(): a load may     *)
(* return the descriptor, which then passes for a status word or an entry  *)
(* (InFlight, Torn).  Keys and values all have the same length, so the     *)
(* records of a body are numbered: record b occupies the RecSize bytes     *)
(* that start b * RecSize before the end of the body.  A read of words     *)
(* that is followed by a MwCAS of the same words, and starts again when    *)
(* that fails, is one step; every other read is a step of its own.         *)
(***************************************************************************)
EXTENDS Naturals, FiniteSetsExt

CONSTANTS
  Threads,
  Keys,        \* numbers, in the order of the strings they stand for
  Vals,
  None,        \* std::nullopt
  Garbage,     \* a string made of bytes that are not a value's
  Nodes,       \* numbers of the nodes that may be allocated
  MaxCalls,    \* [Threads -> Nat]: bound on the calls of a thread
  Overlap,     \* the sets of operations that callers let run at the same time
  DirtyReads,  \* a plain load may return a descriptor (FALSE: always a value)
  BodySize,    \* sizeof(Node::body)
  MdSize,      \* sizeof(NodeMetadata)
  RecSize,     \* key.length() + 1 + value.length() + 1
  MinFree,     \* BZTREE_MIN_FREE_SPACE
  MaxDeleted   \* BZTREE_MAX_DELETED_SPACE

ASSUME KeysAssumption == Keys \subseteq Nat
ASSUME ValsAssumption == None \notin Vals
ASSUME NodesAssumption == 0 \in Nodes
ASSUME SizeAssumption ==
  /\ {BodySize, MdSize, RecSize} \subseteq Nat \ {0}
  /\ {MinFree, MaxDeleted} \subseteq Nat
  \* insert and update return false at once for longer records
  /\ MdSize + RecSize <= MinFree
ASSUME DirtyReadsAssumption == DirtyReads \in BOOLEAN
ASSUME CallsAssumption == MaxCalls \in [Threads -> Nat]

VARIABLES
  root,       \* the root leaf, reached through the root object's metadata
  node,       \* [Nodes -> Node]
  allocated,  \* the nodes in use or on the garbage list
  pc,         \* where each thread is in a call
  calls,      \* the call each thread is in: op, key and val
  leaf,       \* the local leaf (md->root_node during a compaction)
  index,      \* the local i
  sw,         \* the local status word: sw, or sw_old before a last MwCAS
  md,         \* the local md_old / nmdi_old
  new_root,   \* the local md_new->root_node
  protected,  \* [Threads -> BOOLEAN]: between epoch.Protect() and Unprotect()
  left,       \* [Threads -> Nat]: calls left
  seen,       \* history: the bindings of the call's key since the call began
  result,     \* what each thread's last call returned, until the next one
  aborted     \* an assertion, a check or a wild access has ended the process

treeVars == <<root, node, allocated>>
localVars == <<leaf, index, sw, md, new_root>>
callVars == <<calls, protected, left, result>>
vars == <<root, node, allocated, pc, calls, leaf, index, sw, md, new_root, protected,
          left, seen, result, aborted>>

Slots == 1 .. BodySize \div (MdSize + RecSize)
Blocks == 1 .. BodySize \div RecSize

StatusWord == [frozen : BOOLEAN, count : {0} \cup Slots, block : {0} \cup Blocks, deleted : Nat]
Reserved == BodySize + 1    \* global_epoch | GLOBAL_EPOCH_OFFSET_BIT
Metadata == [visible : BOOLEAN, at : {0, Reserved} \cup Blocks]
NoRecord == [key |-> None, val |-> None]

ZeroStatus == [frozen |-> FALSE, count |-> 0, block |-> 0, deleted |-> 0]
ZeroMetadata == [visible |-> FALSE, at |-> 0]
ZeroNode == [sw |-> ZeroStatus, md |-> [i \in Slots |-> ZeroMetadata],
             body |-> [b \in Blocks |-> NoRecord]]

\* free_space() of node n.
FreeSpace == [n \in Nodes |-> BodySize - node[n].sw.count * MdSize - node[n].sw.block * RecSize]

\* The root has to be split.
RootIsFull == FreeSpace[root] < MinFree

\* The entries of node n that can be seen, and the record of an entry.
Visible(n) == {i \in 1 .. n.sw.count : n.md[i].visible}
Record(n, i) == n.body[n.md[i].at]

\* The bindings: that of a key is in the first visible record of the root leaf
\* that has the key.
Matches(n, k) == {i \in Visible(n) : Record(n, i).key = k}
Binding(n, k) == IF Matches(n, k) = {} THEN None ELSE Record(n, Min(Matches(n, k))).val
map == [k \in Keys |-> Binding(node[root], k)]

Idle == [op |-> "none", key |-> None, val |-> None]

\* The words of its leaf that the descriptor of u may be in: 0 stands for the
\* status word, and i for entry i.
InFlight(u) ==
  LET count == node[leaf[u]].sw.count IN
  CASE pc[u] \in {"freeze", "compact", "allocate", "rewrite"} -> {0}
    [] pc[u] = "reserve" -> {0, count + 1}
    [] pc[u] = "readback" -> {0, count}
    [] pc[u] \in {"publish", "published"} -> {0, sw[u].count}
    [] pc[u] \in {"install", "installed", "erase", "erased"} -> {0, index[u]}
    [] OTHER -> {}

\* A plain load of word w of node n by t may return the descriptor of another.
Torn(t, n, w) == DirtyReads /\ \E u \in Threads \ {t} : leaf[u] = n /\ w \in InFlight(u)

\* The constructor: an empty leaf as root.
Init ==
  /\ root = 0
  /\ node = [n \in Nodes |-> ZeroNode]
  /\ allocated = {0}
  /\ pc = [t \in Threads |-> "idle"]
  /\ calls = [t \in Threads |-> Idle]
  /\ leaf = [t \in Threads |-> 0]
  /\ index = [t \in Threads |-> 0]
  /\ sw = [t \in Threads |-> ZeroStatus]
  /\ md = [t \in Threads |-> ZeroMetadata]
  /\ new_root = [t \in Threads |-> 0]
  /\ protected = [t \in Threads |-> FALSE]
  /\ left = MaxCalls
  /\ seen = [t \in Threads |-> {}]
  /\ result = [t \in Threads |-> None]
  /\ aborted = FALSE

-----------------------------------------------------------------------------
(***************************************************************************)
(* Calls.                                                                  *)
(***************************************************************************)

At(t, label) == pc[t] = label /\ ~aborted
GoTo(t, label) == pc' = [pc EXCEPT ![t] = label]

\* Forget the local variables of t.
Reset(t) ==
  /\ leaf' = [leaf EXCEPT ![t] = 0]
  /\ index' = [index EXCEPT ![t] = 0]
  /\ sw' = [sw EXCEPT ![t] = ZeroStatus]
  /\ md' = [md EXCEPT ![t] = ZeroMetadata]
  /\ new_root' = [new_root EXCEPT ![t] = 0]

\* The history: every pending call sees the binding of its key.
Observe ==
  seen' = [t \in Threads |-> IF calls'[t] = Idle THEN {}
                             ELSE seen[t] \cup {map'[calls'[t].key]}]

\* The labels of a call whose MwCAS has succeeded and is to be finished.
Settled == {"published", "installed", "erased"}
Operation(u) ==
  CASE pc[u] = "published" -> "insert"
    [] pc[u] = "installed" -> "update"
    [] pc[u] = "erased" -> "erase"
    [] OTHER -> calls[u].op

\* A call is made; it enters the protected region.
Begin(t, o, k, v) ==
  /\ At(t, "idle")
  /\ left[t] > 0
  /\ \A u \in Threads \ {t} : pc[u] # "idle" => {o, Operation(u)} \in Overlap
  /\ calls' = [calls EXCEPT ![t] = [op |-> o, key |-> k, val |-> v]]
  /\ left' = [left EXCEPT ![t] = @ - 1]
  /\ protected' = [protected EXCEPT ![t] = TRUE]
  /\ result' = [result EXCEPT ![t] = None]
  /\ GoTo(t, "traverse")
  /\ UNCHANGED <<treeVars, localVars, aborted>>
  /\ Observe

\* The call returns r.
Return(t, r) ==
  /\ GoTo(t, "idle")
  /\ Reset(t)
  /\ calls' = [calls EXCEPT ![t] = Idle]
  /\ result' = [result EXCEPT ![t] = r]
  /\ protected' = [protected EXCEPT ![t] = FALSE]
  /\ UNCHANGED left

\* The call takes effect: its last MwCAS has succeeded.
Succeed(t, label) ==
  /\ GoTo(t, label)
  /\ calls' = [calls EXCEPT ![t] = Idle]
  /\ result' = [result EXCEPT ![t] = TRUE]
  /\ UNCHANGED <<localVars, protected, left>>

\* That MwCAS is over, and the call returns; erase does so without Unprotect().
Settle(t) ==
  /\ pc[t] \in Settled /\ ~aborted
  /\ GoTo(t, "idle")
  /\ Reset(t)
  /\ protected' = [protected EXCEPT ![t] = pc[t] = "erased"]
  /\ UNCHANGED <<treeVars, calls, left, result, aborted>>
  /\ Observe

\* Unprotect(), and the call of itself with which every operation starts anew.
Retry(t) == GoTo(t, "traverse") /\ Reset(t) /\ UNCHANGED callVars

\* The process ends.
Abort(t) ==
  /\ aborted' = TRUE
  /\ UNCHANGED <<treeVars, pc, localVars, callVars>>

\* The words of its leaf that the next step of t loads.
Loads(t) ==
  LET count == node[leaf[t]].sw.count IN
  CASE pc[t] \in {"freeze", "readback"} -> {0}
    [] pc[t] = "compact" -> 0 .. count
    [] pc[t] \in {"scan", "allocate", "recheck"} -> {0, index[t]}
    [] pc[t] = "fetch" -> {index[t]}
    [] pc[t] = "reserve" -> {0, count + 1}
    [] pc[t] = "write" -> {sw[t].count}
    [] OTHER -> {}

\* A descriptor that passes for a value ends the process: by an access to the
\* address computed from it, by "too large to fit" or another assertion, or as
\* the old value of the next MwCAS, which AddEntry() checks to be a value.
Stray(t) ==
  /\ ~aborted
  /\ \/ \E w \in Loads(t) : Torn(t, leaf[t], w)
     \/ pc[t] = "traverse" /\ DirtyReads /\ \E u \in Threads \ {t} : pc[u] = "swing"
  /\ Abort(t)
  /\ Observe

PerformSMO(t) == calls[t].op \in {"insert", "update"}

-----------------------------------------------------------------------------
(***************************************************************************)
(* find_leaf: a root with too much deleted space is compacted first.  A    *)
(* root that has to be split ends the height-1 tree and this module.  The  *)
(* flag of a descriptor is a high bit of delete_size, which then exceeds   *)
(* any limit.                                                              *)
(***************************************************************************)

Traverse(t) ==
  LET s == node[root].sw
      compact == PerformSMO(t) /\ s.deleted > MaxDeleted
  IN
  /\ At(t, "traverse")
  /\ leaf' = [leaf EXCEPT ![t] = root]
  /\ \/ /\ compact \/ (PerformSMO(t) /\ Torn(t, root, 0))
        /\ GoTo(t, "freeze")
        /\ UNCHANGED index
     \/ /\ ~compact
        /\ PerformSMO(t) => ~RootIsFull
        /\ GoTo(t, "scan")
        /\ index' = [index EXCEPT ![t] = 1]
  /\ UNCHANGED <<treeVars, sw, md, new_root, callVars, aborted>>
  /\ Observe

\* Freeze the root; nothing is checked, so it may be frozen already.
FreezeRoot(t) ==
  /\ At(t, "freeze")
  /\ node' = [node EXCEPT ![leaf[t]].sw.frozen = TRUE]
  /\ GoTo(t, "compact")
  /\ UNCHANGED <<root, allocated, localVars, callVars, aborted>>
  /\ Observe

\* The place of the record of entry i when the visible ones are sorted by key.
Place(n, i) ==
  LET Before(j) == \/ Record(n, j).key < Record(n, i).key
                   \/ Record(n, j).key = Record(n, i).key /\ j < i
  IN  Cardinality({j \in Visible(n) : Before(j)}) + 1

\* copy_in(copy_out(n)): the visible records in the order of their keys.
NodeCompact(n) ==
  LET size == Cardinality(Visible(n))
      Sorted(b) == Record(n, CHOOSE i \in Visible(n) : Place(n, i) = b)
  IN  [sw |-> [ZeroStatus EXCEPT !.count = size, !.block = size],
       md |-> [i \in Slots |-> IF i <= size THEN [visible |-> TRUE, at |-> i] ELSE ZeroMetadata],
       body |-> [b \in Blocks |-> IF b <= size THEN Sorted(b) ELSE NoRecord]]

\* Node n as copy_out sees it that passes over the entries in gone.
Without(n, gone) ==
  [n EXCEPT !.md = [i \in Slots |-> IF i \in gone THEN ZeroMetadata ELSE n.md[i]]]

\* An entry is passed over if a descriptor is in it, and from some entry on all
\* are if one is in the status word.
Compact(t) ==
  LET old == node[leaf[t]] IN
  /\ At(t, "compact")
  /\ \E n \in Nodes \ allocated, last \in 0 .. old.sw.count :
     \E torn \in SUBSET {i \in 1 .. last : Torn(t, leaf[t], i)} :
       /\ last < old.sw.count => Torn(t, leaf[t], 0)
       /\ \A m \in Nodes \ allocated : n <= m
       /\ node' = [node EXCEPT ![n] = NodeCompact(Without(old, torn \cup {i \in Slots : i > last}))]
       /\ new_root' = [new_root EXCEPT ![t] = n]
       /\ allocated' = allocated \cup {n}
  /\ GoTo(t, "swing")
  /\ UNCHANGED <<root, leaf, index, sw, md, callVars, aborted>>
  /\ Observe

\* Mutant of SwingRoot: the old root is freed at once.
SwingAndFree(t) ==
  /\ At(t, "swing")
  /\ \/ /\ root = leaf[t]
        /\ root' = new_root[t]
        /\ allocated' = allocated \ {leaf[t]}
        /\ Retry(t)
        /\ UNCHANGED <<node, aborted>>
     \/ root # leaf[t] /\ Abort(t)
  /\ Observe

\* Swing the root object to the new metadata, if nobody else has; the old root
\* goes to the garbage list.  The loser passes its metadata object to POBJ_FREE
\* where an oid is expected, which clears md_new->root_node, and dereferences
\* that next.
SwingRoot(t) ==
  /\ At(t, "swing")
  /\ \/ /\ root = leaf[t]
        /\ root' = new_root[t]
        /\ Retry(t)
        /\ UNCHANGED <<node, allocated, aborted>>
     \/ root # leaf[t] /\ Abort(t)
  /\ Observe

-----------------------------------------------------------------------------
(***************************************************************************)
(* The search that every operation begins with, one record at a time.      *)
(***************************************************************************)

\* A record whose entry is taken by a descriptor is passed over, and where the
\* scan ends is open while one is in the status word.
Scan(t) ==
  LET n == node[leaf[t]]
      i == index[t]
      c == calls[t]
      found == i \in Matches(n, c.key)
      passed == ~found \/ Torn(t, leaf[t], i)
      more == i < n.sw.count \/ (Torn(t, leaf[t], 0) /\ i + 1 \in Slots)
      end == i >= n.sw.count \/ Torn(t, leaf[t], 0)
  IN
  /\ At(t, "scan")
  /\ \/ /\ passed /\ more
        /\ index' = [index EXCEPT ![t] = i + 1]
        /\ UNCHANGED <<pc, leaf, sw, md, new_root, callVars>>
     \/ found /\ c.op = "insert" /\ Return(t, FALSE)
     \/ found /\ c.op = "lookup" /\ GoTo(t, "fetch") /\ UNCHANGED <<localVars, callVars>>
     \/ found /\ c.op = "update" /\ GoTo(t, "allocate") /\ UNCHANGED <<localVars, callVars>>
     \/ found /\ c.op = "erase" /\ GoTo(t, "recheck") /\ UNCHANGED <<localVars, callVars>>
     \/ /\ passed /\ end
        /\ \/ c.op = "insert" /\ GoTo(t, "reserve") /\ UNCHANGED <<localVars, callVars>>
           \/ c.op # "insert" /\ Return(t, IF c.op = "lookup" THEN None ELSE FALSE)
  /\ UNCHANGED <<treeVars, aborted>>
  /\ Observe

\* lookup reads the metadata once more for the value; that of a record which
\* has been erased since points to the start of the body, into the metadata.
Fetch(t) ==
  LET n == node[leaf[t]]
      at == n.md[index[t]].at
  IN
  /\ At(t, "fetch")
  /\ \/ at # 0 /\ Return(t, n.body[at].val)
     \/ (at = 0 \/ Torn(t, leaf[t], index[t])) /\ Return(t, Garbage)
  /\ UNCHANGED <<treeVars, aborted>>
  /\ Observe

-----------------------------------------------------------------------------
(***************************************************************************)
(* insert.                                                                 *)
(***************************************************************************)

\* Reserve a metadata entry and a record: whether the leaf is frozen is not
\* looked at.
Reserve(t) ==
  LET n == leaf[t]
      s == node[n].sw
  IN
  /\ At(t, "reserve")
  /\ IF FreeSpace[n] < MdSize + RecSize
     THEN Abort(t)
     ELSE /\ node' = [node EXCEPT ![n].sw.count = @ + 1, ![n].sw.block = @ + 1,
                                  ![n].md[s.count + 1].at = Reserved]
          /\ GoTo(t, "readback")
          /\ UNCHANGED <<root, allocated, localVars, callVars, aborted>>
  /\ Observe

\* The status word is read again, and the entry and the record that it counts
\* last are taken for those just reserved.
ReadBack(t) ==
  /\ At(t, "readback")
  /\ sw' = [sw EXCEPT ![t] = node[leaf[t]].sw]
  /\ GoTo(t, "write")
  /\ UNCHANGED <<treeVars, leaf, index, md, new_root, callVars, aborted>>
  /\ Observe

WriteRecord(t) == node' = [node EXCEPT ![leaf[t]].body[sw[t].block] =
                             [key |-> calls[t].key, val |-> calls[t].val]]

InsertWrite(t) ==
  /\ At(t, "write")
  /\ WriteRecord(t)
  /\ IF sw[t].frozen
     THEN Retry(t)
     ELSE /\ md' = [md EXCEPT ![t] = node[leaf[t]].md[sw[t].count]]
          /\ GoTo(t, "publish")
          /\ UNCHANGED <<leaf, index, sw, new_root, callVars>>
  /\ UNCHANGED <<root, allocated, aborted>>
  /\ Observe

\* Make the record visible, unless the status word has changed.
Publish(t) ==
  LET n == leaf[t]
      i == sw[t].count
  IN
  /\ At(t, "publish")
  /\ IF node[n].sw = sw[t] /\ node[n].md[i] = md[t]
     THEN /\ node' = [node EXCEPT ![n].md[i] = [visible |-> TRUE, at |-> sw[t].block]]
          /\ Succeed(t, "published")
     ELSE UNCHANGED node /\ Retry(t)
  /\ UNCHANGED <<root, allocated, aborted>>
  /\ Observe

-----------------------------------------------------------------------------
(***************************************************************************)
(* update.                                                                 *)
(***************************************************************************)

\* Reserve a record, unless the entry or the leaf must not be changed any more.
Allocate(t) ==
  LET n == leaf[t]
      s == node[n].sw
      m == node[n].md[index[t]]
  IN
  /\ At(t, "allocate")
  /\ \/ /\ ~m.visible \/ s.frozen \/ Torn(t, n, 0) \/ Torn(t, n, index[t])
        /\ Retry(t)
        /\ UNCHANGED <<treeVars, aborted>>
     \/ /\ m.visible /\ ~s.frozen /\ FreeSpace[n] < RecSize
        /\ Abort(t)
     \/ /\ m.visible /\ ~s.frozen /\ FreeSpace[n] >= RecSize
        /\ node' = [node EXCEPT ![n].sw.block = @ + 1]
        /\ sw' = [sw EXCEPT ![t] = [s EXCEPT !.block = @ + 1]]
        /\ md' = [md EXCEPT ![t] = m]
        /\ GoTo(t, "rewrite")
        /\ UNCHANGED <<root, allocated, leaf, index, new_root, callVars, aborted>>
  /\ Observe

UpdateWrite(t) ==
  /\ At(t, "rewrite")
  /\ WriteRecord(t)
  /\ GoTo(t, "install")
  /\ UNCHANGED <<root, allocated, localVars, callVars, aborted>>
  /\ Observe

\* Mutant of UpdateInstall: the status word is not part of the MwCAS.
InstallEntryOnly(t) ==
  LET n == leaf[t]
      i == index[t]
  IN
  /\ At(t, "install")
  /\ IF node[n].md[i] = md[t]
     THEN /\ node' = [node EXCEPT ![n].sw.deleted = @ + RecSize, ![n].md[i].at = sw[t].block]
          /\ Succeed(t, "installed")
     ELSE /\ GoTo(t, "allocate")
          /\ UNCHANGED <<node, localVars, callVars>>
  /\ UNCHANGED <<root, allocated, aborted>>
  /\ Observe

\* Swing the entry to the new record.
UpdateInstall(t) ==
  LET n == leaf[t]
      i == index[t]
  IN
  /\ At(t, "install")
  /\ IF node[n].sw = sw[t] /\ node[n].md[i] = md[t]
     THEN /\ node' = [node EXCEPT ![n].sw.deleted = @ + RecSize, ![n].md[i].at = sw[t].block]
          /\ Succeed(t, "installed")
     ELSE /\ GoTo(t, "allocate")
          /\ UNCHANGED <<node, localVars, callVars>>
  /\ UNCHANGED <<root, allocated, aborted>>
  /\ Observe

-----------------------------------------------------------------------------
(***************************************************************************)
(* erase.                                                                  *)
(***************************************************************************)

Recheck(t) ==
  LET s == node[leaf[t]].sw
      m == node[leaf[t]].md[index[t]]
  IN
  /\ At(t, "recheck")
  /\ \/ /\ ~m.visible \/ s.frozen \/ Torn(t, leaf[t], 0) \/ Torn(t, leaf[t], index[t])
        /\ Retry(t)
     \/ /\ m.visible /\ ~s.frozen
        /\ sw' = [sw EXCEPT ![t] = s]
        /\ md' = [md EXCEPT ![t] = m]
        /\ GoTo(t, "erase")
        /\ UNCHANGED <<leaf, index, new_root, callVars>>
  /\ UNCHANGED <<treeVars, aborted>>
  /\ Observe

\* Hide the record.
EraseInstall(t) ==
  LET n == leaf[t]
      i == index[t]
  IN
  /\ At(t, "erase")
  /\ IF node[n].sw = sw[t] /\ node[n].md[i] = md[t]
     THEN /\ node' = [node EXCEPT ![n].sw.deleted = @ + RecSize + MdSize, ![n].md[i] = ZeroMetadata]
          /\ Succeed(t, "erased")
     ELSE UNCHANGED node /\ Retry(t)
  /\ UNCHANGED <<root, allocated, aborted>>
  /\ Observe

-----------------------------------------------------------------------------
Step(t) ==
  \/ Traverse(t) \/ FreezeRoot(t) \/ Compact(t) \/ SwingRoot(t)
  \/ Scan(t) \/ Fetch(t)
  \/ Reserve(t) \/ ReadBack(t) \/ InsertWrite(t) \/ Publish(t)
  \/ Allocate(t) \/ UpdateWrite(t) \/ UpdateInstall(t)
  \/ Recheck(t) \/ EraseInstall(t)
  \/ Settle(t) \/ Stray(t)

BeginSome(t) ==
  \/ \E o \in {"insert", "update"}, k \in Keys, v \in Vals : Begin(t, o, k, v)
  \/ \E o \in {"erase", "lookup"}, k \in Keys : Begin(t, o, k, None)

Next == \E t \in Threads : Step(t) \/ BeginSome(t)

Spec == Init /\ [][Next]_vars

-----------------------------------------------------------------------------
Node == [sw : StatusWord, md : [Slots -> Metadata],
         body : [Blocks -> [key : Keys \cup {None}, val : Vals \cup {None}]]]

TypeOK ==
  /\ root \in allocated
  /\ allocated \subseteq Nodes
  /\ \A n \in Nodes : node[n] \in Node
  /\ \A t \in Threads :
       /\ calls[t] = Idle <=> pc[t] \in {"idle"} \cup Settled
       /\ leaf[t] \in allocated
       /\ new_root[t] \in allocated
       /\ sw[t] \in StatusWord
       /\ md[t] \in Metadata
       /\ index[t] \in {0} \cup Slots \cup {Cardinality(Slots) + 1}
       /\ protected[t] \in BOOLEAN
       /\ left[t] \in Nat
       /\ result[t] \in Vals \cup {None, Garbage} \cup BOOLEAN
  /\ aborted \in BOOLEAN

\* No call overlaps with an insert that may take the record it has reserved.
SafeOverlap == Overlap \cap {{"insert"}, {"insert", "update"}} = {}

Map == INSTANCE ConcurrentMap

\* "these return false on failure" (bztree.h): whatever insert, update, erase
\* and lookup do at the same time, the tree is a linearizable map and each
\* caller is told the truth.
ImplementsMap == Map!Spec

\* The records that can be seen in a node.
VisibleRecords(n) == [i \in Visible(n) |-> Record(n, i)]

\* What copy_out reads from a frozen leaf is the last that there is: a leaf
\* stays frozen, and no update or erase that found its entry before, and no
\* insert that reserved its record before, changes a record that can be seen.
FrozenIsStable ==
  [][\A n \in allocated : node[n].sw.frozen =>
       /\ node'[n].sw.frozen
       /\ VisibleRecords(node[n])' = VisibleRecords(node[n])]_vars

=============================================================================
