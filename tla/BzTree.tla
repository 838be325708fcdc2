------------------------------- MODULE BzTree -------------------------------
(***************************************************************************)
(* The BzTree of src/bztree at any height: the traversal that every        *)
(* operation begins with (find_leaf_parent_smo) and the structure          *)
(* modifications it performs on its way, which freeze nodes, build new     *)
(* ones and swap them in.                                                  *)
(*                                                                         *)
(* What an operation does to the leaf that the traversal has found is one  *)
(* step here; BzTreeLeaf has that part in detail, and shows that it is not *)
(* one step for two calls that write to the same leaf.  The instances of   *)
(* this module have no such calls: at most one thread of them writes.      *)
(*                                                                         *)
(* A MwCAS takes effect in one step, together with the read of its old     *)
(* values where a failure only means another round; but its descriptor is  *)
(* in the words for longer, and the traversal loads words without          *)
(* GetValue(): a load may return the descriptor (InFlight, Torn).  Space   *)
(* is counted in records: every record, of a leaf or of an inner node,     *)
(* takes one unit.                                                         *)
(***************************************************************************)
EXTENDS Naturals, FiniteSets, SequencesExt

CONSTANTS
  Threads,
  Keys,        \* natural numbers, in the order of the strings they stand for
  Vals,
  None,        \* std::nullopt
  Objects,     \* natural numbers, of the objects in the PMDK pool: nodes, metadata
  Programs,    \* what callers do: for each thread, what each of its calls may be;
               \* the first load calls of Loader fill the tree
  Loader,      \* the thread that fills the tree before the others are started
  Overlap,     \* the sets of operations that callers let run at the same time
  BodySize,    \* sizeof(Node::body)
  HeaderSize,  \* sizeof(NodeHeader)
  MinFree,     \* BZTREE_MIN_FREE_SPACE, less than BodySize
  MaxDeleted   \* BZTREE_MAX_DELETED_SPACE

VARIABLES
  metadata,   \* BzPMDKRootObj::metadata
  heap,       \* [Objects -> Node or BzPMDKMetadata]
  allocated,  \* the objects that have not been given back to PMDK
  garbage,    \* the objects on the garbage list, and the threads each waits for
  protected,  \* the threads between epoch.Protect() and Unprotect()
  pc,         \* where each thread is in a call
  calls,      \* the call each thread is in
  loc,        \* the local variables of the traversal
  program,    \* the one of Programs that is run
  made,       \* [Threads -> Nat]: calls made so far
  seen,       \* history: the bindings of the call's key since the call began
  result,     \* what each thread's last call returned, until the next one
  aborted     \* an assert or a wild access has ended the process

treeVars == <<metadata, heap, allocated, garbage>>
vars == <<treeVars, protected, pc, calls, loc, program, made, seen, result, aborted>>

-----------------------------------------------------------------------------
(***************************************************************************)
(* Objects.  The visible records of a node are a function from keys to     *)
(* values, which are the children in an inner node; used counts the        *)
(* invisible ones as well.                                                 *)
(***************************************************************************)

NodeOf(records) ==
  [frozen |-> FALSE, used |-> Cardinality(DOMAIN records), deleted |-> 0, recs |-> records]
EmptyNode == NodeOf(<<>>)
MetadataOf(n, h) == [root |-> n, height |-> h]

free_space(n) == BodySize - n.used

\* The node has to be split before a record is put into it.
Crowded(n) == free_space(n) < MinFree

\* The child of an inner node in which k is: the first whose limit is not below
\* k; the last limit counts as infinity.
Slot(n, k) ==
  LET limits == DOMAIN n.recs IN
  CHOOSE i \in limits :
    IF i < k THEN \A j \in limits : j <= i
    ELSE \A j \in limits : j >= k => i <= j
Before(n, i) == {j \in DOMAIN n.recs : j < i}
After(n, i) == {j \in DOMAIN n.recs : j > i}

\* The leaf in which k is, if one starts at the metadata m.
LeafOf(m, k) ==
  LET Child(n) == n.recs[Slot(n, k)]
      Walk[h \in 1 .. heap[m].height] ==
        IF h = 1 THEN heap[m].root ELSE Child(heap[Walk[h - 1]])
  IN  Walk[heap[m].height]

map ==
  LET Binding(f, k) == IF k \in DOMAIN f THEN f[k] ELSE None
  IN  [k \in Keys |-> Binding(heap[LeafOf(metadata, k)].recs, k)]

-----------------------------------------------------------------------------
(***************************************************************************)
(* Calls.                                                                  *)
(***************************************************************************)

Idle == [op |-> "none", key |-> None, val |-> None]
NoLocals == [md |-> None, grandparent |-> None, gi |-> None, parent |-> None, i |-> None,
             nodes |-> <<>>, depth |-> 1, smo |-> "none", new |-> <<>>, thaw |-> <<>>]

\* The constructor: an empty leaf as root.
Init ==
  /\ metadata = 0
  /\ heap = [o \in Objects |-> IF o = 0 THEN MetadataOf(1, 1) ELSE EmptyNode]
  /\ allocated = {0, 1}
  /\ garbage = <<>>
  /\ protected = {}
  /\ pc = [t \in Threads |-> "idle"]
  /\ calls = [t \in Threads |-> Idle]
  /\ loc = [t \in Threads |-> NoLocals]
  /\ program \in Programs
  /\ made = [t \in Threads |-> 0]
  /\ seen = [t \in Threads |-> {}]
  /\ result = [t \in Threads |-> None]
  /\ aborted = FALSE

At(t, label) == pc[t] = label /\ ~aborted
GoTo(t, label) == pc' = [pc EXCEPT ![t] = label]
SetLocals(t, r) == loc' = [loc EXCEPT ![t] = r]

\* The history: every pending call sees the binding of its key.
Observe ==
  seen' = [t \in Threads |-> IF calls'[t] = Idle THEN {}
                             ELSE seen[t] \cup {map'[calls'[t].key]}]

\* Only the traversal of t has moved on.
Moved == UNCHANGED <<protected, calls, made, result, aborted>> /\ Observe

\* find_leaf_parent_smo returns std::nullopt: the traversal starts again.
Again(t) == GoTo(t, "root") /\ SetLocals(t, NoLocals)

PerformSMO(t) == calls[t].op \in {"insert", "update"}

\* t is no longer in the region in which it was; what only waited for t is
\* destroyed.  (Destroying it later frees less.)
Release(t) ==
  LET waiting == [o \in DOMAIN garbage |-> garbage[o] \ {t}]
      done == {o \in DOMAIN garbage : waiting[o] = {}}
  IN  /\ garbage' = Restrict(waiting, DOMAIN garbage \ done)
      /\ allocated' = allocated \ done

\* garbage.Push of the objects in olds.
Retire(olds) == garbage' = [o \in olds |-> protected] @@ garbage

Begin(t, c) ==
  /\ At(t, "idle")
  /\ \A u \in Threads \ {t} : pc[u] # "idle" => {c.op, calls[u].op} \in Overlap
  /\ calls' = [calls EXCEPT ![t] = c]
  /\ made' = [made EXCEPT ![t] = @ + 1]
  /\ protected' = protected \cup {t}
  /\ Release(t)
  /\ result' = [result EXCEPT ![t] = None]
  /\ GoTo(t, "root")
  /\ UNCHANGED <<metadata, heap, loc, aborted>>
  /\ Observe

\* The call returns r; a successful erase forgets to call Unprotect().
Return(t, r) ==
  /\ GoTo(t, "idle")
  /\ SetLocals(t, NoLocals)
  /\ calls' = [calls EXCEPT ![t] = Idle]
  /\ result' = [result EXCEPT ![t] = r]
  /\ IF calls[t].op = "erase" /\ r = TRUE
     THEN UNCHANGED <<protected, garbage, allocated>>
     ELSE protected' = protected \ {t} /\ Release(t)
  /\ UNCHANGED <<metadata, made, aborted>>

Abort(t) ==
  /\ aborted' = TRUE
  /\ UNCHANGED <<treeVars, protected, pc, calls, loc, made, result>>

-----------------------------------------------------------------------------
(***************************************************************************)
(* Building nodes, out of the records that copy_out has sorted.            *)
(***************************************************************************)

\* The n objects that PMDK allocates next.
Fresh(n) ==
  LET free == Objects \ allocated
      next == {o \in free : Cardinality({p \in free : p < o}) < n}
  IN  SetToSortSeq(next, <)

\* Where node_split cuts records with keys of one length.
LeftSize(n) ==
  LET half == n \div 2 + 1
  IN  IF half + 1 = n THEN half - 1 ELSE half

LeftPart(f) ==
  Restrict(f, {k \in DOMAIN f : Cardinality({j \in DOMAIN f : j < k}) < LeftSize(Cardinality(DOMAIN f))})
RightPart(f) == Restrict(f, DOMAIN f \ DOMAIN LeftPart(f))

\* The two limits that lead to the halves of f.
Halves(f, l, r) == (Max(DOMAIN LeftPart(f)) :> l) @@ (Max(DOMAIN RightPart(f)) :> r)

\* The slot of a parent's records that points to n.
SlotsTo(f, n) == {i \in DOMAIN f : f[i] = n}
Without(f, i) == Restrict(f, DOMAIN f \ {i})

\* node_split can be carried out: "need at least 3 nodes to split", and the
\* parent points to the node.
CanSplit(parent, n) ==
  /\ Cardinality(DOMAIN heap[n].recs) > 2
  /\ parent # None => SlotsTo(heap[parent].recs, n) # {}

\* node_split of n: the new parent, the left and the right half, to be at o.
node_split(parent, n, o) ==
  LET f == heap[n].recs
      p == heap[parent].recs
      halves == Halves(f, o[2], o[3])
      above == IF parent = None THEN halves
               ELSE halves @@ Without(p, Min(SlotsTo(p, n)))
  IN  <<NodeOf(above), NodeOf(LeftPart(f)), NodeOf(RightPart(f))>>

\* node_merge of l and its right neighbour r: the new parent, the new child.
node_merge(parent, l, r, o) ==
  LET p == heap[parent].recs
      i == Min(SlotsTo(p, l))
      next == Min({j \in DOMAIN p : j > i})
  IN  <<NodeOf((next :> o[2]) @@ Without(p, i)), NodeOf(heap[l].recs @@ heap[r].recs)>>

\* copy_in(copy_out(n)).
node_compact(n) == <<NodeOf(heap[n].recs)>>

\* Place the objects os at the numbers o.
Place(t, o, os) ==
  /\ heap' = [x \in Range(o) |-> os[CHOOSE n \in DOMAIN o : o[n] = x]] @@ heap
  /\ allocated' = allocated \cup Range(o)

-----------------------------------------------------------------------------
(***************************************************************************)
(* Descriptors in the words that a traversal loads.                        *)
(***************************************************************************)

\* The nodes an SMO freezes: the parent too, where it will be replaced.
ToFreeze(l) == Range(l.nodes) \cup (IF l.smo = "compact" THEN {} ELSE {l.parent})

\* Where swap_node finds the pointer it changes: in the parent for a compaction,
\* in the grandparent or in the metadata otherwise.
Holder(l) ==
  IF l.smo = "compact" THEN [in |-> l.parent, slot |-> l.i, old |-> l.nodes[1]]
  ELSE [in |-> l.grandparent, slot |-> l.gi, old |-> l.parent]

Where(l) == IF Holder(l).in = None THEN l.md ELSE Holder(l).in

\* The objects that the descriptor of u may be in a word of, before the MwCAS takes
\* effect and after it; None stands for the PMDK root object.
InFlight(u) ==
  LET l == loc[u] IN
  CASE pc[u] \in {"freeze_root", "build_root"} -> Range(l.nodes)
    [] pc[u] \in {"swing_root", "retire_root"} -> {None}
    [] pc[u] \in {"freeze", "build"} -> ToFreeze(l)
    [] pc[u] \in {"swap", "retire"} -> {Where(l)}
    [] pc[u] = "leaf" /\ calls[u].op # "lookup" -> Range(l.nodes)
    [] OTHER -> {}

\* A plain load of the status word of n by t may return the descriptor of another.
Torn(t, n) == \E u \in Threads \ {t} : n \in InFlight(u)

\* The inner node that t is at on its way down.
Parent(t) == IF loc[t].parent = None THEN heap[loc[t].md].root ELSE loc[t].parent

\* The objects of which t loads words next.
Loads(t) ==
  LET l == loc[t] IN
  CASE pc[t] = "root" -> {None, metadata, heap[metadata].root}
    [] pc[t] \in {"freeze_root", "build_root"} -> {l.md} \cup Range(l.nodes)
    [] pc[t] = "descend" -> {l.md, Parent(t)} \cup (IF heap[l.md].height = 1 THEN {}
                                                 ELSE Range(heap[Parent(t)].recs))
    [] pc[t] \in {"freeze", "build", "thaw"} -> ToFreeze(l)
    [] pc[t] = "swap" -> {Where(l)}
    [] pc[t] = "leaf" -> Range(l.nodes)
    [] OTHER -> {}

\* A descriptor that passes for another value than the sizes in FindRoot and Needs
\* ends the process: by an access to the address computed from it, by an assert,
\* or as the old value of a MwCAS, which AddEntry() checks.
Stray(t) ==
  /\ ~aborted
  /\ \E n \in Loads(t) : Torn(t, n)
  /\ Abort(t)
  /\ Observe

-----------------------------------------------------------------------------
(***************************************************************************)
(* The root: it has no parent, and a split changes the height, so a new    *)
(* metadata object is made and swung to.                                   *)
(***************************************************************************)

\* get_metadata(), and the look at the root.
FindRoot(t) ==
  LET r == heap[metadata].root
      n == heap[r]
      smo == CASE n.deleted > MaxDeleted -> "compact"
               [] n.deleted <= MaxDeleted /\ Crowded(n) -> "split"
               [] OTHER -> "none"
      Choose(s) ==
        /\ SetLocals(t, [NoLocals EXCEPT !.md = metadata, !.smo = s, !.nodes = <<r>>])
        /\ GoTo(t, IF s = "none" THEN "descend" ELSE "freeze_root")
  IN
  /\ At(t, "root")
  /\ \/ Choose(IF PerformSMO(t) THEN smo ELSE "none")
     \/ PerformSMO(t) /\ Torn(t, r) /\ Choose("compact")
  /\ UNCHANGED treeVars
  /\ Moved

\* The status word is read once more; whether the root is frozen already is not
\* looked at.
FreezeRoot(t) ==
  /\ At(t, "freeze_root")
  /\ heap' = [heap EXCEPT ![loc[t].nodes[1]].frozen = TRUE]
  /\ GoTo(t, "build_root")
  /\ UNCHANGED <<metadata, allocated, garbage, loc>>
  /\ Moved

\* md->root_node is read once more.
BuildRoot(t) ==
  LET l == loc[t]
      m == heap[l.md]
      split == l.smo = "split"
      o == Fresh(IF split THEN 4 ELSE 2)
      nodes == IF split THEN node_split(None, m.root, Tail(o)) ELSE node_compact(m.root)
  IN
  /\ At(t, "build_root")
  /\ IF split /\ ~CanSplit(None, m.root)
     THEN Abort(t)
     ELSE /\ Place(t, o, <<MetadataOf(o[2], IF split THEN m.height + 1 ELSE m.height)>> \o nodes)
          /\ SetLocals(t, [l EXCEPT !.new = o])
          /\ GoTo(t, "swing_root")
          /\ UNCHANGED <<metadata, garbage, protected, calls, made, result, aborted>>
  /\ Observe

\* The MwCAS of the pointer to the metadata.  Who loses passes the new objects
\* themselves to POBJ_FREE, which takes the address of an oid: the first call
\* clears the root_node that the second one follows.
SwingRoot(t) ==
  /\ At(t, "swing_root")
  /\ IF metadata = loc[t].md
     THEN /\ metadata' = loc[t].new[1]
          /\ GoTo(t, "retire_root")
          /\ UNCHANGED <<heap, allocated, garbage, loc>>
          /\ Moved
     ELSE Abort(t) /\ Observe

\* md->root_node is read a third time.
RetireRoot(t) ==
  /\ At(t, "retire_root")
  /\ Retire({loc[t].md, heap[loc[t].md].root})
  /\ Again(t)
  /\ UNCHANGED <<metadata, heap, allocated>>
  /\ Moved

-----------------------------------------------------------------------------
(***************************************************************************)
(* The way down: one level at a time.                                      *)
(***************************************************************************)

\* Two nodes leave so much space that they should be one.
Mergeable(a, b) == free_space(heap[a]) + free_space(heap[b]) >= MinFree + HeaderSize + BodySize

\* What t may find the child in slot i of p to be in need of, and the nodes it
\* concerns.  A descriptor in place of the child's status word has a large
\* delete_size; as free space it may pass for anything.
Needs(t, p, i) ==
  LET n == heap[p]
      c == n.recs[i]
      left == {n.recs[Max(Before(n, i))] : j \in Before(n, i)}
      right == {n.recs[Min(After(n, i))] : j \in After(n, i)}
      torn == Torn(t, c)
      deleted == heap[c].deleted > MaxDeleted
      fits == torn \/ (~deleted /\ ~Crowded(heap[c]))
      May(a, b) == torn \/ Torn(t, a) \/ Torn(t, b) \/ Mergeable(a, b)
      MayNot(a, b) == torn \/ Torn(t, a) \/ Torn(t, b) \/ ~Mergeable(a, b)
      apart == \A l \in left : MayNot(l, c)
  IN  UNION {IF torn \/ deleted THEN {<<"compact", <<c>>>>} ELSE {},
             IF torn \/ (~deleted /\ Crowded(heap[c])) THEN {<<"split", <<c>>>>} ELSE {},
             {<<"merge", <<l, c>>>> : l \in {l \in left : fits /\ May(l, c)}},
             {<<"merge", <<c, r>>>> : r \in {r \in right : fits /\ apart /\ May(c, r)}},
             IF fits /\ apart /\ \A r \in right : MayNot(c, r) THEN {<<"none", <<c>>>>} ELSE {}}

Descend(t) ==
  LET l == loc[t]
      m == heap[l.md]
      p == Parent(t)
      i == Slot(heap[p], calls[t].key)
      child == heap[p].recs[i]
      \* "opportunistically ensure parent and grandparent are unfrozen"
      Busy(smo) == \/ heap[p].frozen
                   \/ smo # "compact" /\ l.grandparent # None /\ heap[l.grandparent].frozen
      Pass ==
        \/ /\ l.depth + 1 < m.height
           /\ SetLocals(t, [l EXCEPT !.grandparent = p, !.gi = i, !.parent = child, !.depth = @ + 1])
           /\ UNCHANGED pc
        \/ /\ l.depth + 1 >= m.height
           /\ SetLocals(t, [l EXCEPT !.nodes = <<child>>])
           /\ GoTo(t, "leaf")
      Modify(need) ==
        \/ need[1] = "none" /\ Pass
        \/ need[1] # "none" /\ Busy(need[1]) /\ Again(t)
        \/ /\ need[1] # "none" /\ ~Busy(need[1])
           /\ SetLocals(t, [l EXCEPT !.parent = p, !.i = i, !.smo = need[1], !.nodes = need[2]])
           /\ GoTo(t, "freeze")
  IN
  /\ At(t, "descend")
  /\ \/ /\ m.height = 1
        /\ SetLocals(t, [l EXCEPT !.nodes = <<p>>])
        /\ GoTo(t, "leaf")
     \/ m.height > 1 /\ ~PerformSMO(t) /\ Pass
     \/ m.height > 1 /\ PerformSMO(t) /\ \E need \in Needs(t, p, i) : Modify(need)
  /\ UNCHANGED treeVars
  /\ Moved

\* The MwCAS that freezes them expects an unfrozen parent; that the children are
\* not frozen is only checked by a merge.
CanFreeze(l) ==
  /\ l.smo # "compact" => ~heap[l.parent].frozen
  /\ l.smo = "merge" => /\ \A n \in Range(l.nodes) : ~heap[n].frozen
                        /\ Mergeable(l.nodes[1], l.nodes[2])

Freeze(t) ==
  LET l == loc[t] IN
  /\ At(t, "freeze")
  /\ IF CanFreeze(l)
     THEN /\ heap' = [n \in Objects |-> IF n \in ToFreeze(l) THEN [heap[n] EXCEPT !.frozen = TRUE]
                                        ELSE heap[n]]
          /\ GoTo(t, "build")
          /\ UNCHANGED loc
     ELSE Again(t) /\ UNCHANGED heap
  /\ UNCHANGED <<metadata, allocated, garbage>>
  /\ Moved

\* The asserts of node_split and node_merge.
CanBuild(l) ==
  /\ l.smo = "split" => CanSplit(l.parent, l.nodes[1])
  /\ l.smo = "merge" => SlotsTo(heap[l.parent].recs, l.nodes[1]) # {}

Build(t) ==
  LET l == loc[t]
      o == Fresh(CASE l.smo = "compact" -> 1 [] l.smo = "split" -> 3 [] l.smo = "merge" -> 2)
      nodes == CASE l.smo = "compact" -> node_compact(l.nodes[1])
                 [] l.smo = "split" -> node_split(l.parent, l.nodes[1], o)
                 [] l.smo = "merge" -> node_merge(l.parent, l.nodes[1], l.nodes[2], o)
  IN
  /\ At(t, "build")
  /\ IF ~CanBuild(l)
     THEN Abort(t)
     ELSE /\ Place(t, o, nodes)
          /\ SetLocals(t, [l EXCEPT !.new = o])
          /\ GoTo(t, "swap")
          /\ UNCHANGED <<metadata, garbage, protected, calls, made, result, aborted>>
  /\ Observe

\* swap_node succeeds: its parent is not frozen and still points to the old node.
CanSwap(l) ==
  LET h == Holder(l) IN
  IF h.in = None THEN heap[l.md].root = h.old
  ELSE ~heap[h.in].frozen /\ heap[h.in].recs[h.slot] = h.old

\* swap_node fails: also if its second look at the pointer meets the descriptor
\* of another swap.
CanFail(t, l) ==
  \/ ~CanSwap(l)
  \/ \E u \in Threads \ {t} : pc[u] \in {"swap", "retire"} /\ Holder(loc[u]) = Holder(l)

\* The nodes that a failed swap makes usable again, in this order.
ToThaw(l) ==
  CASE l.smo = "compact" -> l.nodes
    [] l.smo = "split" -> <<l.parent>> \o l.nodes
    [] l.smo = "merge" -> l.nodes \o <<l.parent>>

Swap(t) ==
  LET l == loc[t]
      h == Holder(l)
  IN
  /\ At(t, "swap")
  /\ \/ /\ CanSwap(l)
        /\ heap' = IF h.in = None THEN [heap EXCEPT ![l.md].root = l.new[1]]
                   ELSE [heap EXCEPT ![h.in].recs[h.slot] = l.new[1]]
        /\ GoTo(t, "retire")
        /\ UNCHANGED loc
     \/ /\ CanFail(t, l)
        /\ SetLocals(t, [l EXCEPT !.thaw = ToThaw(l)])
        /\ GoTo(t, "thaw")
        /\ UNCHANGED heap
  /\ UNCHANGED <<metadata, allocated, garbage>>
  /\ Moved

\* "success, delete the old nodes"
RetireNodes(t) ==
  /\ At(t, "retire")
  /\ Retire(ToFreeze(loc[t]))
  /\ Again(t)
  /\ UNCHANGED <<metadata, heap, allocated>>
  /\ Moved

\* A plain assignment to the bit-field: the word is loaded, and stored without
\* the bit.  No thread of an instance changes it in between.
Thaw(t) ==
  LET l == loc[t] IN
  /\ At(t, "thaw") /\ l.thaw # <<>>
  /\ heap' = [heap EXCEPT ![Head(l.thaw)].frozen = FALSE]
  /\ SetLocals(t, [l EXCEPT !.thaw = Tail(@)])
  /\ UNCHANGED <<metadata, allocated, garbage, pc>>
  /\ Moved

\* POBJ_FREE is given a new node instead of the address of its oid, and the node's
\* first words, the status word among them, pass for the oid.  That of an empty
\* node is zero, for which there is nothing to free.
Discard(t) ==
  LET l == loc[t] IN
  /\ At(t, "thaw") /\ l.thaw = <<>>
  /\ IF l.smo = "compact" /\ heap[l.new[1]].used = 0
     THEN Again(t) /\ UNCHANGED treeVars /\ Moved
     ELSE Abort(t) /\ Observe

-----------------------------------------------------------------------------
(***************************************************************************)
(* What the operations do to the leaf.                                     *)
(***************************************************************************)

Bound(n, k) == k \in DOMAIN heap[n].recs

\* An operation that finds its leaf frozen leaves the region and begins anew;
\* insert has reserved a record in it all the same.
StartAnew(t, n) ==
  /\ heap' = [heap EXCEPT ![n].used = IF calls[t].op = "insert" THEN @ + 1 ELSE @]
  /\ Release(t)
  /\ Again(t)
  /\ UNCHANGED <<metadata, protected, calls, made, result, aborted>>

\* The operation makes node n into new and succeeds, unless the node is frozen.
Change(t, n, new) ==
  IF heap[n].frozen THEN StartAnew(t, n)
  ELSE heap' = [heap EXCEPT ![n] = new] /\ Return(t, TRUE)

\* A record does not fit: "something went wrong since we never should've seen
\* this from find_leaf's SMOs".
NoRoom(n) == free_space(heap[n]) < 1

Insert(t) ==
  LET n == loc[t].nodes[1]
      c == calls[t]
  IN
  /\ At(t, "leaf") /\ c.op = "insert"
  /\ IF Bound(n, c.key) THEN Return(t, FALSE) /\ UNCHANGED heap
     ELSE IF NoRoom(n) THEN Abort(t)
     ELSE Change(t, n, [heap[n] EXCEPT !.used = @ + 1, !.recs = (c.key :> c.val) @@ @])
  /\ Observe

Update(t) ==
  LET n == loc[t].nodes[1]
      c == calls[t]
  IN
  /\ At(t, "leaf") /\ c.op = "update"
  /\ IF ~Bound(n, c.key) THEN Return(t, FALSE) /\ UNCHANGED heap
     ELSE IF NoRoom(n) /\ ~heap[n].frozen THEN Abort(t)
     ELSE Change(t, n, [heap[n] EXCEPT !.used = @ + 1, !.deleted = @ + 1, !.recs[c.key] = c.val])
  /\ Observe

Erase(t) ==
  LET n == loc[t].nodes[1]
      c == calls[t]
  IN
  /\ At(t, "leaf") /\ c.op = "erase"
  /\ IF ~Bound(n, c.key) THEN Return(t, FALSE) /\ UNCHANGED heap
     ELSE Change(t, n, [heap[n] EXCEPT !.deleted = @ + 1, !.recs = Without(@, c.key)])
  /\ Observe

Lookup(t) ==
  LET n == loc[t].nodes[1]
      c == calls[t]
  IN
  /\ At(t, "leaf") /\ c.op = "lookup"
  /\ Return(t, IF Bound(n, c.key) THEN heap[n].recs[c.key] ELSE None)
  /\ UNCHANGED heap
  /\ Observe

-----------------------------------------------------------------------------
Step(t) ==
  /\ \/ FindRoot(t) \/ FreezeRoot(t) \/ BuildRoot(t) \/ SwingRoot(t) \/ RetireRoot(t)
     \/ Descend(t) \/ Freeze(t) \/ Build(t)
     \/ Swap(t) \/ RetireNodes(t) \/ Thaw(t) \/ Discard(t)
     \/ Insert(t) \/ Update(t) \/ Erase(t) \/ Lookup(t)
     \/ Stray(t)
  /\ UNCHANGED program

Loaded == made[Loader] >= program.load /\ (made[Loader] = program.load => pc[Loader] = "idle")

BeginNext(t) ==
  /\ made[t] < Len(program.calls[t])
  /\ t # Loader => Loaded
  /\ \E c \in program.calls[t][made[t] + 1] : Begin(t, c)
  /\ UNCHANGED program

Next == \E t \in Threads : Step(t) \/ BeginNext(t)

Spec == Init /\ [][Next]_vars

-----------------------------------------------------------------------------
Map == INSTANCE ConcurrentMap

\* Whatever splits, merges and compactions go on, the tree is a linearizable
\* map: no structure modification changes a binding, no write goes to a node
\* that has been replaced, and every caller is told the truth.
ImplementsMap == Map!Spec

\* The nodes and the metadata that a traversal can come to now.
Reachable ==
  LET Level[h \in 1 .. heap[metadata].height] ==
        IF h = 1 THEN {heap[metadata].root} ELSE UNION {Range(heap[n].recs) : n \in Level[h - 1]}
  IN  {metadata} \cup UNION Range(Level)

\* What t has pointers to.
Holds(t) == ({loc[t].md, loc[t].parent, loc[t].grandparent} \cup Range(loc[t].nodes)) \ {None}

\* What is on the garbage list has been removed from the tree, as GarbageList asks
\* of who calls Push(): nothing that a traversal can come to waits to be freed, and
\* nothing that the tree or a traversal points to has been given back to PMDK.
PointersAreLive ==
  /\ Reachable \subseteq allocated
  /\ Reachable \cap DOMAIN garbage = {}
  /\ \A t \in Threads : Holds(t) \subseteq allocated
=============================================================================
