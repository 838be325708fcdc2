# PMwCAS and BzTree: a TLA+ verification project

This directory specifies, model-checks and proves parts of the repository: a
persistent multi-word compare-and-swap (`src/src/mwcas`), the epoch-based
reclamation it rests on (`src/src/common`), the data structures built on top of
it (`src/src/bztree`, `src/src/double-linked-list`), and the thread registry and
allocator below it. Paths are relative to `src/src/` unless they say otherwise.
`PROJECT.json` maps every definition to the source lines it models, and lists
runs, mutants, findings, hazards and theorems.

## 1. Inventory

| Component | State | Operations | Talks to |
|---|---|---|---|
| `EpochManager`, `MinEpochTable` (`common/epoch.{h,cc}`) | `current_epoch_`, `safe_to_reclaim_epoch_`, a table of entries (`thread_id`, `protected_epoch`), one `thread_local` entry pointer | `Protect`, `Unprotect`, `IsProtected`, `BumpCurrentEpoch`, `IsSafeToReclaim` | called by everything that follows pointers |
| `GarbageList` (`common/garbage_list.h`) | a ring of (removal epoch, item), `tail_` | `Push`, `Scavenge`, `Initialize`, `Uninitialize` | stamps with `GetCurrentEpoch`, bumps the epoch, calls the destroy callback |
| `GarbageListUnsafe` (`common/garbage_list_unsafe.h`) | the same, for one thread | the same | the partitions of the descriptor pool |
| `Descriptor` (`mwcas/mwcas.{h,cc}`) | `status_`, `words_` (address, old, new, recycle policy), flag bits in every target word | `AddEntry` and its variants, `PersistentMwCAS`, `VolatileMwCAS`, `CondCAS`, `Cleanup`, `Abort` | helps other descriptors recursively |
| `MwcTargetField` | a target word | `GetValue*` | helps descriptors it meets |
| `DescriptorPool` | array of descriptors, per-thread partitions with free list and garbage list | `AllocateDescriptor`, `FreeDescriptor`, `Recovery`, `InitDescriptors` | `EpochManager`, `GarbageListUnsafe`, `Thread` |
| `Thread` (`common/environment_internal.*`) | a registry of thread-local variables by thread id | construction, `join`, destruction, `RegisterTls`, `ClearTls`, `ClearRegistry` | resets the pool's `tls_part` |
| `BzTree` | nodes with a status word and record metadata, root pointer and height | `insert`, `update`, `erase`, `lookup`, compact, split, merge | its own `EpochManager` and `GarbageList`, a `DescriptorPool` |
| `CASDList`, `MwCASDList` | doubly linked nodes | insert before and after, delete, get next and previous | CAS or MwCAS |
| `TlsAllocator` (`environment/environment_linux.h`) | a counter per NUMA node; slab and free lists per thread | `Allocate`, `Free` | nothing |
| files and async I/O, other allocators, metrics, NVRAM helpers | bookkeeping below the algorithms | | |

Everything concurrent here is lock-free shared memory: the hard behaviours are
interleavings of single loads, stores and CASs of different threads, values read
before and used after somebody else's step, helpers that come too late, the
reuse of memory, store buffering, plain loads of words that hold a descriptor, and
crashes at any step.

What makes each part correct:

- **Epochs.** Nothing that a protected thread can still reach is reclaimed; the
  safe epoch stays below any epoch a removal can still be stamped with; two
  threads never share a table entry; a thread that needs an entry gets one.
- **Garbage list.** A pushed item is destroyed exactly once, and not before the
  manager allows it; a slot is worked on by one thread.
- **MwCAS.** All words change in one atomic step or none does; a failure has a
  reason; the caller is told the truth; every operation returns; a crash plus
  recovery changes no logical value and leaves plain values only.
- **Pool.** A descriptor is in one place; neither it nor the memory it manages is
  given back while somebody can reach it, nor twice; an allocation waits for
  other threads only; a partition belongs to one thread.
- **BzTree.** The tree is a linearizable map across compaction, split and merge;
  the records of a frozen node do not change; no pointer in reach leads to a
  node that was given back; no assert fails; every call returns.
- **Lists.** Insertions and deletions are atomic and keep the order; once nobody
  is at work both directions agree; every walk ends; every call returns.
- **Allocator.** A block is in use or in one free list, blocks do not overlap,
  and no slab is wasted.

`PROJECT.json` ("hazards") lists the places in the code where these can go
wrong, each with the properties that would show it. Not all of these goals are
reached: section 4 says where the code falls short of them, and the properties
that runs check and theorems state are the parts that hold.

## 2. Modules

| Module | Models | State and actions |
|---|---|---|
| `EpochManager` | `common/epoch.{h,cc}` and its clients | variables carry the names of the members; each action is one shared-memory access (`Protect` reads the global epoch, `ReserveEntry` is one probe, `Publish` the store of the protected epoch, `ScanEntry` one load of the scan) |
| `ReclamationProofs` | | theorems about `EpochManager` and `GarbageList` (section 5) |
| `PersistentMwCASProofs`, `VolatileMwCASProofs`, `DescriptorPoolProofs`, `BzTreeLeafProofs`, `DListProofs`, `TlsAllocatorProofs` | | theorems about the module in the name (section 5) |
| `NumberLemmas` | | facts those proofs share: least numbers, induction for a set of numbers, division |
| `GarbageList` | `common/garbage_list.h`, composed with `EpochManager` (EXTENDS) | `slot_epoch`, `slot_item`, `tail`; `PushClaim`, `PushRead`, `PushLock`, `PushFill` are the accesses of `Push`, `Scavenge*` those of `Scavenge` |
| `AtomicMwCAS` | abstract specification: what a multi-word CAS promises | `value`, `outcome`, `result`; `Begin`, `Mismatch`, `Succeed`, `Fail`, `Return`, `Crash` |
| `PersistentMwCAS` | `PersistentMwCAS` and its failure-injecting variant, `CondCAS`, persistent `GetValue`, `Recovery` | words, descriptor status with its dirty bit, one call stack per thread because helping is recursive |
| `VolatileMwCAS` | the volatile build of the same | the same without dirty bits and recovery; entries without an address |
| `GarbageListUnsafe` | `common/garbage_list_unsafe.h`, with the epoch manager in whole operations | a ring per partition; `PushTurn` is one turn of the loop in `Push` |
| `ThreadTls` | `Thread` and its registry | lives and ids of threads, the variable and the registry entry of each id |
| `DescriptorPool` | the pool and the life of a descriptor, composed of the two modules above | free lists, entries with policies, words, blocks of memory; what each thread has reached |
| `ConcurrentMap` | abstract specification: a linearizable map | `map`, the pending calls, and what each has `seen` |
| `BzTreeLeaf` | `insert`, `update`, `erase`, `lookup` on a tree of height 1, and the compaction of its root | nodes with status word, metadata and body; one action per MwCAS, per record scanned and per read that is used later |
| `BzTree` | the tree at any height: traversal and structure modifications | objects in the PMDK pool, the garbage list, the local variables of the traversal |
| `OrderedList` | abstract specification: an ordered list | `list`, the nodes ever inserted, pending calls |
| `IDList` | nodes, sentinels and calls that both lists share | `next`, `prev`, a cursor per thread |
| `MwCASDList`, `CASDList` | the two lists | one action per access to a link |
| `DList` | either list, chosen initially, and the properties of both | |
| `TlsAllocator` | the slab allocator | counters, slabs, free lists, headers |
| `MC*` | | instances for TLC |

Operators named as mutants in a comment are altered copies of the definition
after them; they are used by no specification and exist to show that the
properties notice such a bug.

### EpochManager

The clients are abstracted to *items* that are linked, unlinked, retired
(stamped with an epoch) or free, and to the references that threads hold.
`Access` is a thread in the region following a pointer to a linked item,
`Unlink` the CAS that removes one, `Retire` the stamping, `Reclaim` the destroy
callback. `ReclaimAll` is `GarbageList::Uninitialize`, which asks nobody and
whose caller promises that no thread is in the region.

The table of `GetEntryForThread` is found through *one* `thread_local` pointer,
which is a local of the function and so common to all managers; the model keeps
it that way (`tls`), and `Managers` may have several members.

`StoreBuffering` says which of the stores in `Protect()` and `Unprotect()`, which the
code orders with release semantics, may wait in the thread's store buffer until
`DrainStoreBuffer`, as x86-TSO does; locked instructions of the thread wait for
the buffer. All runs allow it for both, as the code does; the comment in `epoch.h`
164-168 excludes it for `Protect()`. One buffered store per thread is enough, since
the entry is the only plain store that others look at: a second one waits for the first.
`exposed` is a history variable: the items that a thread holds and that were retired
while the thread's own store of its epoch was still on its way to the entry.

### GarbageList and GarbageListUnsafe

`Push` retires the item, claims slots from the ring, advances the epoch every
quarter turn, locks the slot by a CAS of its epoch to the invalid epoch, and
destroys or puts back what was in it. Nothing in the list's actions looks at the
ghost state of an item: the code sees only the epoch of the slot. That the
list nevertheless takes only steps the epoch protocol allows is the refinement
`FollowsEpochProtocol` (every list step is an `EpochManager` step or a stutter
of it). `tail_` is kept modulo the ring size: its wrap-around at 2^64 is a
multiple of the ring size, which is a power of two.

`GarbageListUnsafe` is used by one thread per ring and needs no locks; the
destroy callback, `FreeDescriptor`, is part of the step that calls it.

### PersistentMwCAS and VolatileMwCAS

A word is a value, a pointer to a descriptor (`kMwCASFlag`) or to a word
descriptor (`kCondCASFlag`), with its dirty bit. `Install` is the first CAS of
`CondCAS` with what the install loop does with its result; `CondStatus` reads
the status and `CondSwap` uses it, as two steps, because the code evaluates
`status_ == kStatusUndecided` before the CAS instruction. `Help*` is the branch
for a foreign word descriptor. Phase 1.5 (`Persist`), the decision (`Decide`),
and phase 2 (`Final`, `FinalRetry`, `FinalClear`) follow the code. An entry that
is retried because the word is dirty is a step that is not enabled: the retry
changes nothing until the word does. The sort of the words is reflected in
`AddressAfter`; a helper that sorts again writes the same values back.
`Stop` is where the variants with injected failures abandon an operation.

`PersistentMwCASWithFailure` does not sort; it is modelled as the sorted operation,
stopped.

A crash ends all calls and keeps the memory: process failure with shared memory,
or NVRAM with caches flushed on failure. `Recover` handles one word, and
`InitDescriptors` is a memset (`Clear`, descriptor by descriptor, in any order) and
then one constructor after the other (`Construct`), so a second crash may come
anywhere in a recovery. A failed `RAW_CHECK` ends the process for good: `mode` is
`"invalid_field"` for the one on a word (`mwcas.cc` 197), and `"corrupted"` for the one at
135, which finds a clear descriptor that is not the first (`FindInvalid`). A pool
whose first descriptor is clear passes for a new one. The closing checks of
`Recovery` (`mwcas.cc` 211-223) compare a word with the *descriptor's* address even
for `kCondCASFlag`, a bit pattern that no word ever has; what they intend is
`RecoveredWordsHoldValues`.

`VolatileMwCAS` visits the words in the order in which the caller added them and
skips entries without an address. A helper of a concluded volatile operation
returns as well, but the operation's words are all installed by then.

A descriptor serves one operation in these modules. Reuse is the pool's affair,
and sound only under epoch protection, which every operation is under here.
`ImplementsAtomicMwCAS` maps a word to the value a reader would get
(`LogicalValue`); `outcome` is a history variable that records what became of an
operation, with the CAS of the status as linearization point.

### DescriptorPool and ThreadTls

Who decides an operation, and how, is left open: whoever has reached an undecided
descriptor may take any step that the algorithm makes on its words. What is kept
exactly is who can reach what: a thread reaches a descriptor through a word (or
its own allocation) while it is in the protected region, and drops everything
when it leaves. `cond` is a `CondCAS` between its two CASs. Blocks of memory stand
for what old and new values point to; the recycle policies of the entries free
them when the descriptor is freed, not earlier. A pool can be deleted and another
made, as the tests do with `Thread::ClearRegistry` in between, and threads of one
round (`PerformanceTest::Run`) end before those of the next start, with the same
ids. `MaxPerRegion` is at most three quarters of the descriptors of a partition. With
more operations in one region `AllocateDescriptor` may wait for its own caller: `Push`
bumps the epoch only every quarter of the ring, so that up to a quarter of what is in
the ring when a thread enters its region bears the epoch it enters with.

### BzTreeLeaf

The model takes MwCAS as the atomic operation that `AtomicMwCAS` specifies, except
for one thing: its descriptor is in the words before and after the step in which it
takes effect, and the tree loads words without `GetValue()`. `InFlight` says which
words of its leaf the descriptor of a thread may be in, and `Torn` that a load of
another thread may return it. The flags are bits 61 to 63 (`mwcas.h` 303-307), the top
bits of `delete_size` in a status word and of `total_len` in an entry. So a descriptor in
place of a status word looks like one with far too much deleted space (`Traverse`
compacts) and any record count (`Scan` and `Compact` may stop early or go on); in place
of an entry it may look visible or not (a record is passed over, `Allocate` and
`Recheck` start again, `Fetch` returns `Garbage`). Whatever else comes of it ends the
process (`Stray`): an access to an address computed from it, an assertion, or the check
in `AddEntry` (`mwcas.cc` 330) that an old value is clean. Left out is what a wild
write may hit when it goes unnoticed, and the descriptor that a failed MwCAS or its
helpers leave for a moment. `DirtyReads` turns all this off; only `bztree_insert` does.

All records have the same size, so record `b` of a body is the one that ends where
`block_size` was `b` records; metadata entries refer to records by that number.
A read of words followed by a MwCAS of the same words in a retry loop is one
step (`Reserve`, `Allocate`, `FreezeRoot`); a value that is read and used later
is a local variable (`sw`, `md`) set in a step of its own. `copy_out` is one step:
`FrozenIsStable` shows that, but for descriptors, this loses nothing. The loser of a
race for the root passes `md_new` itself to `POBJ_FREE` (`bztree_helpers.cc` 139-140),
which takes the address of an oid: it clears the first words of the object, and with
them the `root_node` that the next line dereferences; the model ends the process
there. A root that has to be split ends the height-1 tree; `Traverse` stops there, and
`BzTree` goes on. `assert(false)` ("too large to fit") sets `aborted`. `Overlap` says
which operations callers let run at the same time; `{"insert"}` stands for two inserts.
`seen` is a history variable, and a call that changes nothing must return what one
of the moments since its start allows (`ConcurrentMap`); calls that change something
are atomic at their last MwCAS.

### BzTree

`find_leaf_parent_smo` is the heart: `FindRoot` and `Descend` walk and decide,
`FreezeRoot` and `Freeze` freeze what is to be replaced, `BuildRoot` and `Build`
make the new nodes (`node_compact`, `node_split`, `node_merge`), `SwingRoot` and
`Swap` put them in, `RetireRoot` and `RetireNodes` push the old ones to the garbage
list in a later step, reading `md->root_node` again where the code does. A failed
`Swap` thaws the frozen nodes one by one (`Thaw`) and then gives a new node, instead of
the address of its oid, to `POBJ_FREE` (`Discard`; `bztree_helpers.cc` 254, 293-295,
353-354). The status word of that node passes for the pool of the oid; the process ends
unless the node is empty, when the oid is null.

Loads may return descriptors here, too: of the root in `FindRoot`, of a child in
`Needs`, of the pointer that `swap_node` looks at (`CanFail`); everything else that
could come of one ends the process (`Stray`). What `copy_out` reads are values.

What an operation does to the leaf it found is one step. That is wrong for two
operations that write to a leaf at the same time, as `bztree_insert` shows, so the
instances have at most one thread that writes to leaves: the other thread of
`bztree_smo` updates a key that is not there, and takes part by its traversal only.
For the same reason the plain read-modify-write of `Thaw` meets no other write.
Space is counted in records of one size. A retired object is given back as soon as
the threads that were protected when it was retired have left, the earliest the
garbage list can do it. `Programs` fixes for each thread what its calls may be, so
that the tree gets tall without exploring every way of filling it; `Loader` fills it
alone.

### The lists

A link is a pointer with the bit `kNodeDeleted`. `MwCASDList` changes both
directions in one MwCAS, which is one step. Links recur: an insertion after a node and
the deletion of what was inserted leave its next link as it was. With recurring values MwCAS
is one step for two threads only (section 3), so run and theorems about this list are
for two threads (`TwoThreads`).
`CASDList` (after Sundell and Tsigas) changes one link at
a time and repairs: its frames `gn` and `cp` hold the local variables of `GetNext`
and `CorrectPrev`, which the other operations call. A loop that reads a word and
CASes it until that succeeds is one step. `DListCursor` is a thread that moves
along the list from where it stands. The refinement `ImplementsList` takes the
abstract list to be the unmarked nodes in the order of the next links (`NodesIn`), and
shows the abstract list only the calls that may change it (`Changes`).

### TlsAllocator

Everything is local to a thread except the counters of the nodes and the headers
of blocks, which any thread may free into its own lists. Blocks are intervals of
a node's memory. A thread that ends loses its lists and its slab, as in the code.

## 3. Runs

| Run | Result | What it shows |
|---|---|---|
| `epoch` | passes, 288,071 states | two threads, one item, epochs up to 4, with delayed stores in `Protect` and `Unprotect`: nothing is freed under a reader whose protection was visible when the item was retired; the safe epoch lags; entries are exclusive; the search for an entry ends |
| `garbage_list` | passes, 3.4 M states | two threads push, scavenge and read two items through a ring that is always full, with store buffering in both functions |
| `mwcas` | passes, 793,865 states | two conflicting operations, one of which may name a word without changing it, a helping reader, injected failures, up to two crashes, also in the middle of recovery and of `InitDescriptors` |
| `mwcas_recurring` | violation | late helpers apply an operation twice when a value comes back |
| `volatile_mwcas` | passes, 339,983 states | the same for the volatile build, with words added in address order: atomic, a thread that helps comes back to its own operation only by way of one that was decided meanwhile, every call returns, also when an operation was abandoned |
| `pool` | passes, 2.5 M states | three threads, two at a time, four descriptors in two partitions, three blocks, two pools: allocation, abort, helping, retirement, recycling; a descriptor is in one place and is not recycled under a thread that reached it before it was decided |
| `dlist` | passes, 370,928 states | both lists with one or two nodes and one or two more to insert; two threads, two calls and one |
| `bztree_leaf` | passes, 2.3 M states | two threads, two calls each, any operations but the two overlaps below, with racing compactions and loads that return descriptors: entries and records stay within the leaf, and what can be seen in a frozen leaf does not change |
| `bztree_insert` | violation | with all overlaps allowed, even if no load meets a descriptor, an insert that returned true is lost |
| `bztree_smo` | violation | a thread that meets a descriptor in the root's status word compacts a root that another thread is about to replace: a node is retired while the tree still leads to it |
| `bztree_deep` | violation | one thread, sizes of the tests: after an inner node that is not the last of its level is split, a key is missing |
| `allocator` | passes, 296,216 states | two threads, two NUMA nodes, blocks of two sizes, a thread that ends and starts again, slabs that run out |

**Bounds.** `MaxEpoch` = 4 allows three bumps: one that makes a reader's epoch
stale, one that makes the removal epoch safe, and one whose scan overlaps
another. The table has as many entries as threads, and all of them start
at its last entry, so that probes collide and wrap. The ring of one slot makes
every push meet another thread's item: rings of up to four slots bump on every
claim, and larger ones reach the put-back path only with more epochs than can be
explored. Two MwCAS words are the least for which atomicity means something; two
operations conflict on both, on one or follow each other, and a third thread
helps either. `MonotoneOps` are operations under which no word gets a value back
that it had before; `RecurringOps` include one that restores an old value, as
insertions and deletions in a list do. It takes a third thread to do harm with
it: with two threads and the same three operations TLC finds `ImplementsAtomicMwCAS`
to hold in both builds.

In `pool` each partition has two descriptors, so that a thread with three
operations has to recycle, and there are two pools, so that a stale `tls_part`
would show. Thread `t1` uses `kRecycleAlways`, `t2` the policies that depend on the
outcome, and the main thread aborts. In `dlist` three nodes besides the sentinels
let a node, its neighbour and a new one in between be changed at once. In
`bztree_smo` the six first inserts make a tree of height 2 whose last leaf is full;
nodes hold five records. In `allocator` a slab holds two small blocks or one large one,
so that slabs end exactly and with a remainder.

The deadlock check is off where the system may really stop: a push into a full
ring waits for ever once the epochs are used up, and calls are finite in number.

In `bztree_leaf`, `SafePairs` excludes overlaps of insert with insert and of insert with
update, in which a record is taken that another insert has reserved (finding 2). As a
consequence that run never has an insert on a leaf that another thread is compacting,
since only insert and update compact. The body holds three records, so that updates that
collide also reach the `assert(false)`; an update of a leaf that holds one updated
record (`MaxDeleted` = 1) compacts it, so that two threads do so at once within two calls
each.

**Fairness** is weak fairness of the steps of a thread that is in a call, as an
operating system's scheduler provides; nobody is obliged to make calls.
`ReserveTerminates` needs it for the probes of `ReserveEntry` only.
`OperationsReturn` and the `CallsReturn` of the volatile MwCAS and of the lists are
stated over it. In `OperationsReturn` an operation that an
injected failure abandoned after its decision excuses those who wait for it. Nothing
of the kind is stated of BzTree, whose calls start over whenever they meet a
descriptor.

## 4. Findings

Shown by a run:

1. `mwcas_recurring`: all helpers of an operation install the same word
   descriptor pointer, so the CAS in `CondCAS` can succeed on a pointer that was
   installed anew by a late helper after the operation had concluded and its old
   value had been restored. The comment at `mwcas.cc` 394-413 says RDCSS excludes
   this.
2. `bztree_insert`: `insert` reads the status word again after its reservation
   (`bztree.cc` 128) and takes the last entry and record for its own. The
   counterexample: two inserts reserve; one reads back, writes and publishes its
   record; the other then reads the same status word back and overwrites the
   record.
3. `bztree_deep`: `node_split` (`bztree_smos.cc` 127) enters the right half into the
   parent under the last limit of the node it splits, instead of the limit the
   parent had for it. The last limit of an inner node is not used by the
   traversal (`bztree_helpers.cc` 191-192) and may be below keys in its last child,
   which are then routed to the next node and not found.

4. `bztree_smo`: `root_sw->delete_size` (`bztree_helpers.cc` 87) is a plain load. While
   another thread freezes the root and a child for a split, it returns the descriptor,
   whose flags exceed any limit; the status word read next (99) is a value again, of a root
   that is frozen already, which is not looked at. So the root is compacted and new
   metadata is swung in (132-133); the split's `swap_node` still finds its root in the
   old metadata and succeeds there (283), and the child goes to the garbage list (285)
   although the new root leads to it. `garbage_list.h` 43-51 asks for items that were
   removed; the comments at `bztree_helpers.cc` 248-250, 288-289 and 347-348 say that
   "only this thread could have frozen" the nodes.

Seen in states of the runs above, or with other constants of the same modules, and
the reason why the properties say no more than they do:

- While the store of `Protect()` waits in the store buffer, an item that the thread has
  reached already can be retired and freed: `epoch.h` 164-168 says the protected epoch is set
  with a sequentially consistent store, `epoch.cc` 214 stores with release order. TLC
  finds this if `VisibleProtectionHolds` is stated without its exception (`exposed`).
- With two managers even visible protection fails: `GetEntryForThread` (`epoch.cc` 309)
  keeps one entry per thread for all of them.
- A crash between the constructors in `InitDescriptors` (`mwcas.cc` 243-257) leaves a
  finished descriptor before a clear one, and the next `Recovery` stops at
  `RAW_CHECK(i == 0)` (135) and will do so for ever. `mwcas` reaches this; no word refers
  to a descriptor then.
- `RAW_CHECK(val != &word)` (`mwcas.cc` 197) can fail for a word that its operation names
  without changing it: a late helper installs its word descriptor again after the
  operation. Callers do that (`bztree.cc` 149, `bztree_helpers.cc` 47).
- With recurring values and a crash, `RAW_CHECK(val != &word)` (`mwcas.cc` 197) can
  fail in `Recovery`, by the same late helper as in finding 1.
- Helpers of a concluded persistent operation return (`mwcas.cc` 642-646) and
  retry, so progress depends on the threads in phase 2; `mwcas.h` 5-6 says
  lock-free and non-blocking.
- `AddEntry` appends (`mwcas.cc` 326-376) where the comment at `mwcas.h` 207-209
  speaks of sorted entries, and only `PersistentMwCAS` sorts: volatile operations
  with opposite orders help each other in a circle.
- `CondCAS` installs its word descriptor before it looks at the status. With three
  threads at once, a late helper of a failed operation does so after the owner has
  retired the descriptor, and a thread that entered the region since then meets it in
  the word. That thread keeps nobody from recycling the descriptor, yet is about to
  swap in the old value it found there; the comment at `mwcas.cc` 877-879 says that
  "there will be no new accessors" when the descriptor is put into the garbage list. With
  one more operation of the owner on the same word, the stale compare-and-swap succeeds
  on the word descriptor of the new operation and puts a block back that has been
  replaced since, and that the recycle policy has freed or will free once more. `mwcas.h` 54-59
  rules that out. So nothing is stated here about the memory that words lead to: it would
  hold for two threads at a time only.
- `POBJ_FREE` is given objects instead of addresses of oids at `bztree_helpers.cc` 139-143,
  254, 293-295 and 353-354 (correctly at `bztree.h` 141-144): the loser of a race for the
  root and, as a rule, of a race for a pointer ends the process.
- With loads that return descriptors a key that is bound may not be found: `lookup` and
  `update` pass over the record (`bztree.cc` 177-185, 277-280), and a compaction that
  copies at that moment drops it. A lookup may also read the entry of a record that was
  erased since (`Garbage`). So `ImplementsMap` fails for most overlaps of two calls, and
  is refuted by `bztree_insert` even without such loads.
- In BzTree, `md->root_node` is read several times (`bztree_helpers.cc` 85, 120, 136,
  156) while `swap_node` changes it in place: with a root that fills up again at
  once, another root than the frozen one is split, or
  `assert(sorted.size() > 2)` fails.
- An erase whose compaction replaces the child that another thread has decided to
  split makes `assert(i != parent_kv.end())` (`bztree_smos.cc` 121) fail.
- Compaction does not ask whether the leaf is frozen already, and the loser's plain
  store (`bztree_helpers.cc` 252) opens a leaf that was replaced.

## 5. Proofs

`ReclamationProofs`, about `EpochManager`, for any number of threads, managers, items, any table size and any start indices:

- `BaseInvariant`: `BaseInv == TypeOK /\ TableInv /\ ClockInv` is inductive. Types
  alone are not: that `epoch - 1` in `StoreSafeEpoch` is a natural number needs
  every epoch a scan works with to be at least 1 and to lie below the global one
  (`ClockInv`), and stores to `protected_epoch[tls[t]]` need a thread that
  publishes to have an entry, and that entry to be its own (`TableInv`). This
  holds with or without store buffering, for one manager or many.
- `TypeCorrect`, `SafeEpochLags`, `ExclusiveEntries` follow from it.
- `ReclamationIsSafe`: with one manager, whichever of the stores in `Protect()` and
  `Unprotect()` are delayed, `Spec => []VisibleProtectionHolds`. The inductive
  invariant `SafeInv` adds `BufferedIsCurrent` (a store in flight is that of the last
  call, `Protect()` or `Unprotect()`), `RegionIsPublished` (a thread in the region whose
  store has arrived shows an epoch that has been current), `HeldInRegion` (references
  are dropped on leaving) and `HeldIsGuarded`: if a thread holds a retired item that is
  not `exposed`, its store has arrived, and the removal epoch is above the safe epoch, at least the epoch
  the thread published, and at least the minimum of every scan that has already passed
  the thread's entry; a scan that has not passed it will still meet the published
  epoch. The last part is what a scan that is not atomic needs. The assumption is
  necessary: with two managers TLC finds a violation.

The constants' assumptions are the named ASSUMEs of `EpochManager`; the bound
`MaxEpoch` is an arbitrary natural number, so the theorems cover every number of
bumps.

The same module about `GarbageList`, for any ring size as well (`ListSpec` is the list
composed with the manager):

- `ListInvariant`: `ListInv == ListTypeOK /\ BaseInv /\ RingInv` is inductive. The
  code destroys an item by looking at the epoch of its slot only; `RingInv` is why
  that suffices. `LockInv`: a slot with the invalid epoch has exactly one thread
  working on it, and a thread about to lock one expects a valid epoch. `ItemInv`: an
  unlocked slot shows the removal epoch of the item in it, the thread that locked a
  slot remembers it (`prior`), and a thread that pushes has the item's epoch
  (`stamp`). `OnceInv`: no item waits twice, and every retired item waits somewhere.
  The compare-and-swap may succeed on a slot that was emptied and filled again since
  it was read: what counts is that it shows the epoch of the item then in it, which
  is why `ItemInv` says nothing of a thread that has only read the slot. The steps
  are grouped by what they do to the ring (`QuietStep`, `MoveStep`, `LockingStep`,
  `RestoreStep`, `ReplaceStep`, `PushStartStep`, `UninitializeStep`), and `RingStep`
  assigns every action to one of them.
- `ListTypeCorrect`, `SlotLocks` and `OnePlace` follow from it.
- `ListFollowsProtocol`: `ListSpec => Spec`, the refinement, from the step simulation
  `ListStepSimulation`. `ReplaceReclaims` is its core: a slot given new contents is a
  `Reclaim` of the manager's protocol.
- `ListReclamationIsSafe`: with it, `ReclamationIsSafe` carries over to the list, under
  the same assumption.

`PersistentMwCASProofs`, for any threads, descriptors, words, operations, injected
failures and number of crashes:

- `TypeCorrect` and `Recovered` (`RecoveredWordsHoldValues`) need no assumption on the
  operations. The inductive invariant is `BaseInv == TypeOK /\ StackInv /\ DescInv /\
  WordInv`. `StackInv` says what each call knows from where it is: in the install loop
  all words before its own are installed, unless the operation is decided meanwhile; what a
  `CondCAS` is about to swap in is its descriptor, or the old value if the operation is
  decided. `DescInv` relates the status of a descriptor to its outcome and its entries, and
  `WordInv` says that words point only to descriptors in use that have them as targets,
  and during recovery only to those that `Recovery` has still to look at.
- `Atomicity` (`ImplementsAtomicMwCAS`) is a refinement, proved from a step simulation:
  the CAS of the status is the step `Succeed` or `Fail` of `AtomicMwCAS`, and all other steps
  on words leave every logical value alone. The difficult ones are the CASs of
  `CondCAS` and its kin, which use a status read earlier. They are harmless if the word
  cannot hold the old value again: the theorem assumes `ValuesOrdered(Before)`, some partial
  order in which every entry leads from its old to its new value, and the invariant gains
  `MovedOn(Before)`: every word is at or beyond the new values of the operations that
  succeeded on it. Without the assumption `mwcas_recurring` refutes the property.
- `RecoveryChecks` (`RecoveryChecksHold`), under the same assumption: the `RAW_CHECK` on a
  word fails for no word that its operation changes, since a word whose operation is
  concluded has moved on. A word that is named with its old value as the new one has not,
  and section 4 says what becomes of it. Crashes between the steps of `InitDescriptors` are
  included in all these theorems.

`VolatileMwCASProofs`, for any threads, descriptors, words, operations, readers and injected
failures, from `VolatileAssumption` (an operation has a target, and no address twice):

- `TypeCorrect` needs no assumption on the operations. The inductive invariant is again
  `BaseInv == TypeOK /\ StackInv /\ DescInv /\ WordInv`. The entries are a list here, and the
  words of an undecided operation are installed from the first on: wherever a word refers to
  it, all before that one hold the pointer to it (`Prefix`).
- `NoCircular` (`NoCircularHelping`) assumes `WordsOrdered(Below)`: there is a strict order in
  which every caller adds its words. `HelpInv` is about the calls on the stack of a
  thread: each waits at a word that the operation helped next held when it was called, and still
  holds if it is undecided (`Waits`); so the words that undecided operations wait for rise from
  call to call (`Rises`), and a thread that came back to one of them would be waiting for a
  word below its own (`NoCircle`). The invariant speaks of all calls between two places of the
  stack, since whichever of them is decided breaks the chain there.
- `Atomicity` (`ImplementsAtomicMwCAS`) follows the argument for the persistent build, from
  `ValuesOrdered(Before)` and with `MovedOn(Before)`: the volatile code has the same late
  `CondCAS`, so without the assumption the property is false here too.
  `MCVolatile` checks that the operations of the run satisfy both hypotheses.

`DescriptorPoolProofs`, for any number of threads, partitions, descriptors, words, blocks,
operations and pools, from `IdsAssumption` (an id for each thread), `PoolAssumption`
(the sizes that the constructor computes), `CallersAssumption` (a partition for each
worker, `MaxPerRegion` as above) and `NamesAssumption`. `PoolInvariant` is built in layers,
each kept by every step with the help of those before it:

- `TlsInv`: ids of living threads differ, a partition that is assigned is registered and of
  the pool there is now, and no two workers share one. The round-robin assignment is not
  checked for collisions by the code. The proof counts: a partition is `Behind` the next
  one by no more than the workers that are `Done` getting partitions, of which
  there are at most as many as partitions. `OwnPartition` follows.
- `BusyInv` (who is in an operation), `PlaceInv` (the place of each descriptor) and
  `RingInv` (slots are filled in the order of their epochs). A partition has as many slots
  as descriptors, and one of its descriptors is with the thread that pushes, so some slot
  is empty; as `Scavenge` empties the oldest slots first, the slot at `tail` is. `InOnePlace`
  follows.
- `EpochInv`, `StatusInv` and `ReachInv`: whatever a thread has reached is `Guarded`, that is,
  its owner is still at it, or it was retired with an epoch not before the one in which the
  reader entered, which keeps the safe epoch below. `Linked` and `Reached` follow.
- `WaitInv`: what bears the current epoch is younger than the last bump in its ring
  (`BumpInv`), and of what a thread finds in its ring only the newest quarter and what it has
  retired itself may be as young as its region (`OlderInv`). If the free list is
  empty, and the thread has nothing allocated, the ring is full (counting again), so the slot at
  `tail` is older than the region: `WaitsForOthers`.

`TlsAllocatorProofs`, for any number of threads, nodes, sizes and calls:

- `AllocatorInvariant`: `AllocatorInv == MemoryInv /\ ListInv` is inductive. `MemoryInv` is
  the geometry: nodes give out whole slabs, slabs and blocks are apart, and the rest of a
  slab is apart from all blocks. `ListInv` says that there are sequences of blocks of which
  `head`, `tail` and `next` are the representation, with no block twice in them.
- `DisjointBlocks`, `BlocksInOnePlace` and `UsedSlabs` follow from it.

`BzTreeLeafProofs`, for any number of threads, keys, values, nodes and calls and any sizes that
satisfy `SizeAssumption`, with loads that return descriptors or without. Its theorems assume
`SafeOverlap`: callers let no two inserts overlap, and no insert and update. All other overlaps,
of any number of calls, are covered.

- `LeafInvariant`: `LeafTreeInv` is inductive. `NodeInv`: entries and records fit into the body,
  and a visible entry has a record. `LeafInv`: a leaf that is no longer the root is frozen, and
  a node that is to become the root is known to one thread. `CallInv` is what each call knows of
  a leaf that others change meanwhile: the entry an insert has reserved is still the last one
  and the record it writes is nobody's (this is where overlapping inserts and updates would
  break it), the entry found is visible until it is erased, the record an update took is visible
  nowhere and not that of another update (`ApartInv`).
- A step is described by what it does to its leaf: `Kept` (nothing visible changes), and
  `Expected(u, n, m)`, what a call `u` must be able to rely on when its leaf goes from `n` to
  `m`. One lemma says what each kind of write does to a node (`FreezeNode`, `AllocateNode`,
  `ReserveNode`, `WriteNode`, `PublishNode`, `InstallNode`, `EraseNode`, `CompactNode`), and
  `InPlaceKeeps` that what is `Expected` keeps the invariant. A compaction that passes over
  entries because of a descriptor compacts the node without them (`WithoutNode`). The MwCASs
  compare the whole status word, and that is why nothing visible changes in a frozen leaf.
- `TypeCorrect`, and `Frozen` (`FrozenIsStable`): updates still write the records they took
  in a leaf that was frozen since, but no visible record of it changes.

`DListProofs`, about `MwCASDList`, for any number of nodes and calls and any first list, and
for two threads: the theorems assume `TwoThreads`, although no proof step needs it, because
MwCAS is one step in this module, and that is justified for no more threads (section 2). The theorems say `Spec /\ sync_method = "kSyncMwCAS" => ...`: the method is chosen
initially and never changes. The assumptions are those of `IDList`: there are finitely many
nodes, a first list has none of them twice, and no two threads insert the same node
(each gets its own from `NewNode`).

- `MwListInvariant`: `MwInv == MwTypeOK /\ ListInv /\ LinkInv /\ OrderInv /\ CallInv` is
  inductive. `ListInv` says there is a sequence, from the head to the tail, of exactly the
  unmarked members, which the links of both directions agree with; an insertion puts an element
  into it (`InsertList`), a deletion takes one out (`DeleteList`). That is not enough, as calls
  may start from deleted nodes, whose links nobody repairs: `OrderInv` says there is a strict
  order of *all* nodes that have ever been members which every link follows, so that a walk
  cannot go round. A new node is put above its predecessor and all that is below that, and
  below its successor and all that is above that (`InsertLinks`). `CallInv` is what a call knows from where it is;
  in `Delete`, that a next pointer read as marked means the node is deleted for good, so
  that `prev->next` cannot lead to it any more when it is looked at next.
- `MwLinksAgree`, `MwChecksHold` and `MwCursorSkipsDeleted` follow from it.
- `MwTraversalsEnd`: a walk along links that follow the order meets no node twice, and
  there are only so many nodes (`WalkMeets`).
- `MwImplementsList`: the sequence of `ListInv` is what the refinement mapping computes
  (`ListWalk`, `NodesInIs`), so each step can be simulated on it (`StepsRefine`). An insertion
  is in the right place because a call that does not stand at the node it was given any more
  has found that node deleted.

Only model-checked:

- the liveness properties (`ReserveTerminates`, `OperationsReturn`, the `CallsReturn`), since
  TLAPS does not handle ENABLED;
- that MwCAS is one step for two threads when values recur: a bounded check of three
  operations (section 3);
- all of `CASDList`, where an invariant has to say how far the repair of each link has come;
- all of `BzTree`, about which there are only the two refutations.

No module has a RECURSIVE operator.

## 6. Not modelled, and the plan

Not modelled:

- `environment_windows.*` (not compiled on the platform of the tree) and the file,
  thread pool and async I/O wrappers of both environments: operating system
  calls.
- `DefaultAllocator`, `PMDKAllocator`: one call of a library each.
- The RTM install path: hardware transactions replace `CondCAS` there.
- Caches that lose unflushed lines at power failure: `PersistAddress` (`mwcas.h`
  170-173) flushes the descriptor's field `address_`, not the word, so a model of it
  would have no recovery to check.
- `BzTree::destroy` and the reopening of a tree (not implemented in the code), debug
  printing.
- The dirty bits of `CASDList` under PMEM.
- `EpochManager::Uninitialize`, the destructors of the pool's partitions (never run)
  and of `TlsAllocator`.
- Metrics, benchmarks, vendored libraries.

Worth proving next: `LinksAgree` and `ChecksHold` for `CASDList`.
