---------------------------- MODULE TlsAllocator -----------------------------
(***************************************************************************)
(* TlsAllocator (src/environment/environment_linux.h): blocks of memory    *)
(* with a hidden header, cut from slabs that threads take from the memory  *)
(* of a NUMA node; freed blocks wait in lists of the thread that freed     *)
(* them, one list per size, and never go back.                             *)
(*                                                                         *)
(* An address is <<node, offset in bytes>>.  Everything is local to a      *)
(* thread except the counters of the nodes, the blocks, which any thread   *)
(* may free, and their headers.                                            *)
(***************************************************************************)
EXTENDS Naturals, FiniteSets, SequencesExt

CONSTANTS
  Threads,
  Nodes,            \* NUMA nodes
  kCacheLineSize,   \* also the size of a Header
  kSlabSize,
  kNumaMemorySize,
  Sizes,            \* the sizes that callers ask for, in bytes
  MaxAllocations,   \* bound on the allocations of all threads
  MaxExits,         \* bound on the threads that end
  Null

\* The sizes of the code, and callers that ask for no more than a slab holds:
\* for more, Allocate would take slab after slab until the node has none.
ASSUME SizesAssumption ==
  /\ kCacheLineSize \in Nat \ {0} /\ kSlabSize \in Nat \ {0} /\ kNumaMemorySize \in Nat \ {0}
  /\ Sizes \subseteq Nat
  /\ \E k \in 1 .. kSlabSize : kSlabSize = k * kCacheLineSize
  /\ \E k \in 1 .. kNumaMemorySize : kNumaMemorySize = k * kSlabSize
  /\ \A n \in Sizes : n > 0 /\ n + kCacheLineSize <= kSlabSize

ASSUME BoundsAssumption == MaxAllocations \in Nat /\ MaxExits \in Nat
ASSUME NullAssumption == Null \notin Nodes \X Nat   \* it is no address

VARIABLES
  numa_allocated,   \* [Nodes -> Nat]: numa_allocated_
  slab,             \* [Threads -> [memory, allocated]]: the thread_local Slab
  head, tail,       \* [Threads -> [Classes -> address or Null]]: tls_blocks
  size, next,       \* the headers: functions of the addresses of the blocks
  live,             \* the blocks that callers have
  want,             \* [Threads -> Nat]: the nSize of the call it is in, 0 if none
  allocations, exits,
  aborted           \* an ALWAYS_ASSERT has failed

listVars == <<head, tail, size, next>>
vars == <<numa_allocated, slab, listVars, live, want, allocations, exits, aborted>>

\* nSize rounded up, with the header; and the size of the data it leaves.
Rounded(n) == ((n + kCacheLineSize + kCacheLineSize - 1) \div kCacheLineSize) * kCacheLineSize
Class(nSize) == nSize - kCacheLineSize
Classes == {Class(Rounded(n)) : n \in Sizes}

NoSlab == [memory |-> Null, allocated |-> 0]
NoBlocks == [c \in Classes |-> Null]
At(memory, offset) == <<memory[1], memory[2] + offset>>

Init ==
  /\ numa_allocated = [i \in Nodes |-> 0]
  /\ slab = [t \in Threads |-> NoSlab]
  /\ head = [t \in Threads |-> NoBlocks]
  /\ tail = [t \in Threads |-> NoBlocks]
  /\ size = <<>> /\ next = <<>>
  /\ live = {}
  /\ want = [t \in Threads |-> 0]
  /\ allocations = 0 /\ exits = 0
  /\ aborted = FALSE

\* TlsAllocate is called.
Allocate(t) ==
  /\ ~aborted /\ want[t] = 0 /\ allocations < MaxAllocations
  /\ \E n \in Sizes : want' = [want EXCEPT ![t] = Rounded(n)]
  /\ allocations' = allocations + 1
  /\ UNCHANGED <<numa_allocated, slab, listVars, live, exits, aborted>>

Calling(t) == ~aborted /\ want[t] # 0
Returns(t, b) ==
  /\ live' = live \cup {b}
  /\ want' = [want EXCEPT ![t] = 0]

\* BlockList::Get, if the list of the size is not empty.
\* Mutant: the tail stays when the last block is taken.
TailStays(t, c) == tail
TailAfterGet(t, c) == [tail EXCEPT ![t][c] = IF head[t][c] = @ THEN Null ELSE @]
Get(t) ==
  LET c == Class(want[t])
  IN  /\ Calling(t)
      /\ head[t][c] # Null
      /\ head' = [head EXCEPT ![t][c] = IF @ = tail[t][c] THEN Null ELSE next[@]]
      /\ tail' = TailAfterGet(t, c)
      /\ Returns(t, head[t][c])
      /\ UNCHANGED <<numa_allocated, slab, size, next, allocations, exits, aborted>>

\* Slab::Allocate: the slab has room.
\* Mutant: the block itself is not counted.
HasRoomForSome(t) == slab[t].memory # Null /\ slab[t].allocated < kSlabSize
HasRoom(t) == slab[t].memory # Null /\ slab[t].allocated + want[t] <= kSlabSize

Extend(f, a, v) == [x \in DOMAIN f \cup {a} |-> IF x = a THEN v ELSE f[x]]
Cut(t) ==
  LET b == At(slab[t].memory, slab[t].allocated)
  IN  /\ Calling(t)
      /\ head[t][Class(want[t])] = Null
      /\ HasRoom(t)
      /\ slab' = [slab EXCEPT ![t].allocated = @ + want[t]]
      /\ size' = Extend(size, b, Class(want[t]))
      /\ next' = Extend(next, b, Null)
      /\ Returns(t, b)
      /\ UNCHANGED <<numa_allocated, head, tail, allocations, exits, aborted>>

\* It has not, or is not there: take another from the node that the thread
\* happens to run on, and retry.
\* Mutant: the new slab counts as full as the one before.
FullSlab(t, node) == [slab[t] EXCEPT !.memory = <<node, numa_allocated[node]>>]
NewSlab(t, node) == [memory |-> <<node, numa_allocated[node]>>, allocated |-> 0]
TakeSlab(t) ==
  /\ Calling(t)
  /\ head[t][Class(want[t])] = Null
  /\ ~HasRoom(t)
  /\ \E node \in Nodes :
       /\ numa_allocated' = [numa_allocated EXCEPT ![node] = @ + kSlabSize]
       /\ slab' = [slab EXCEPT ![t] = NewSlab(t, node)]
       /\ aborted' = (numa_allocated[node] >= kNumaMemorySize)
  /\ UNCHANGED <<listVars, live, want, allocations, exits>>

\* Free, by any thread: BlockList::Put, or the first block of its size.
Free(t) ==
  /\ ~aborted /\ want[t] = 0
  /\ \E b \in live :
       LET c == size[b]
       IN  /\ live' = live \ {b}
           /\ head' = [head EXCEPT ![t][c] = IF @ = Null THEN b ELSE @]
           /\ tail' = [tail EXCEPT ![t][c] = b]
           /\ next' = [a \in DOMAIN next |->
                         IF a = b THEN Null
                         ELSE IF a = tail[t][c] THEN b ELSE next[a]]
  /\ UNCHANGED <<numa_allocated, slab, size, want, allocations, exits, aborted>>

\* A thread ends, with its lists and the rest of its slab; the next thread
\* starts with neither.
ExitThread(t) ==
  /\ ~aborted /\ want[t] = 0 /\ exits < MaxExits
  /\ <<slab[t], head[t]>> # <<NoSlab, NoBlocks>>
  /\ slab' = [slab EXCEPT ![t] = NoSlab]
  /\ head' = [head EXCEPT ![t] = NoBlocks]
  /\ tail' = [tail EXCEPT ![t] = NoBlocks]
  /\ exits' = exits + 1
  /\ UNCHANGED <<numa_allocated, size, next, live, want, allocations, aborted>>

Next ==
  \E t \in Threads : Allocate(t) \/ Get(t) \/ Cut(t) \/ TakeSlab(t) \/ Free(t) \/ ExitThread(t)

Spec == Init /\ [][Next]_vars

-----------------------------------------------------------------------------
\* The blocks of a list, from its head along next to its tail; Null last if the
\* chain ends before it, and as many as there are blocks if it never does.
Chain(t, c) ==
  LET follow[k \in 0 .. Cardinality(DOMAIN next)] ==
        IF k = 0 THEN <<head[t][c]>>
        ELSE IF Last(follow[k - 1]) \in {Null, tail[t][c]} THEN follow[k - 1]
        ELSE Append(follow[k - 1], next[Last(follow[k - 1])])
  IN  IF head[t][c] = Null THEN <<>> ELSE follow[Cardinality(DOMAIN next)]

\* A block is with one caller or once in one list, or was lost with a thread
\* that ended; every list leads to its tail, through blocks of its size.
InLists(b) == {x \in Threads \X Classes \X (1 .. Cardinality(DOMAIN next)) :
                 x[3] \in DOMAIN Chain(x[1], x[2]) /\ Chain(x[1], x[2])[x[3]] = b}
BlocksAreInOnePlace ==
  /\ \A t \in Threads, c \in Classes :
       /\ head[t][c] = Null <=> tail[t][c] = Null
       /\ head[t][c] # Null => Last(Chain(t, c)) = tail[t][c] /\ next[tail[t][c]] = Null
       /\ \A i \in DOMAIN Chain(t, c) : size[Chain(t, c)[i]] = c
  /\ \A b \in DOMAIN size :
       LET places == Cardinality(InLists(b)) + (IF b \in live THEN 1 ELSE 0)
       IN  places = 1 \/ (places = 0 /\ exits > 0)

\* No two blocks share memory, header and data, whichever threads cut them and
\* wherever they wait; every one is in the memory of its node, and behind the
\* part of it that slabs have still to take.
Bytes(b) == {<<b[1], i>> : i \in b[2] .. b[2] + kCacheLineSize + size[b] - 1}
BlocksAreDisjoint ==
  /\ \A b, c \in DOMAIN size : b # c => Bytes(b) \cap Bytes(c) = {}
  /\ \A b \in DOMAIN size : b[2] + kCacheLineSize + size[b] <= numa_allocated[b[1]]
  /\ ~aborted => \A i \in Nodes : numa_allocated[i] <= kNumaMemorySize

\* A call takes one slab at most, so it returns or stops the process: a slab
\* that was taken has a block, or is the one that its thread is about to cut
\* from.
SlabStarts(i) == {k \in 0 .. numa_allocated[i] - 1 : k % kSlabSize = 0}
SlabsAreUsed ==
  aborted \/ \A i \in Nodes : \A k \in SlabStarts(i) :
    \/ \E b \in DOMAIN size : b[1] = i /\ b[2] \in k .. k + kSlabSize - 1
    \/ \E t \in Threads : Calling(t) /\ slab[t] = [memory |-> <<i, k>>, allocated |-> 0]
=============================================================================
