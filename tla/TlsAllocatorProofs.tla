------------------------- MODULE TlsAllocatorProofs -------------------------
(***************************************************************************)
(* Proofs about TlsAllocator, for any threads, NUMA nodes, sizes and       *)
(* bounds.                                                                 *)
(*                                                                         *)
(* MemoryInv is about where slabs and blocks are: slabs are apart from one *)
(* another, and the part of a slab that is left from all blocks.  ListInv  *)
(* is about the free lists: there are sequences of blocks, all different,  *)
(* whose ends are head and tail and whose elements next links.             *)
(***************************************************************************)
EXTENDS TlsAllocator, NumberLemmas, FiniteSetTheorems, SequenceTheorems

Addresses == Nodes \X Nat

\* The values of the variables.
TypeOK ==
  /\ numa_allocated \in [Nodes -> Nat]
  /\ slab \in [Threads -> [memory : Addresses \cup {Null}, allocated : 0 .. kSlabSize]]
  /\ head \in [Threads -> [Classes -> Addresses \cup {Null}]]
  /\ tail \in [Threads -> [Classes -> Addresses \cup {Null}]]
  /\ size \in [DOMAIN size -> Classes] /\ DOMAIN size \subseteq Addresses
  /\ next \in [DOMAIN size -> DOMAIN size \cup {Null}]
  /\ live \subseteq DOMAIN size
  /\ want \in [Threads -> {0} \cup {Rounded(n) : n \in Sizes}]
  /\ allocations \in Nat /\ exits \in Nat /\ aborted \in BOOLEAN

HasSlab(t) == slab[t].memory # Null
Node(t) == slab[t].memory[1]
Start(t) == slab[t].memory[2]
End(b) == b[2] + kCacheLineSize + size[b]

\* What slabs take of a node is whole slabs, and no more than there is.
CountInv ==
  \A i \in Nodes :
    /\ \E m \in Nat : numa_allocated[i] = m * kSlabSize
    /\ ~aborted => numa_allocated[i] <= kNumaMemorySize

\* Slabs are apart from one another, and the rest of a slab from all blocks.
SlabInv ==
  \A t \in Threads : HasSlab(t) =>
    /\ Start(t) + kSlabSize <= numa_allocated[Node(t)]
    /\ \A u \in Threads : u # t /\ HasSlab(u) /\ Node(u) = Node(t) =>
         Start(t) + kSlabSize <= Start(u) \/ Start(u) + kSlabSize <= Start(t)
    /\ \A b \in DOMAIN size : b[1] = Node(t) =>
         End(b) <= Start(t) + slab[t].allocated \/ Start(t) + kSlabSize <= b[2]

\* Blocks are within what slabs have taken, and apart from one another.
BlockInv ==
  \A b \in DOMAIN size :
    /\ End(b) <= numa_allocated[b[1]]
    /\ \A c \in DOMAIN size : b # c /\ b[1] = c[1] => End(b) <= c[2] \/ End(c) <= b[2]

\* A thread that has just taken a slab is about to cut a block from it.
UsedInv ==
  /\ \A t \in Threads : HasSlab(t) /\ slab[t].allocated = 0 =>
       want[t] # 0 /\ head[t][Class(want[t])] = Null
  /\ ~aborted => \A i \in Nodes : \A q \in Nat : q * kSlabSize < numa_allocated[i] =>
       \/ \E b \in DOMAIN size : b[1] = i /\ b[2] \in q * kSlabSize .. q * kSlabSize + kSlabSize - 1
       \/ \E t \in Threads : slab[t] = [memory |-> <<i, q * kSlabSize>>, allocated |-> 0]

MemoryInv == TypeOK /\ CountInv /\ SlabInv /\ BlockInv /\ UsedInv

-----------------------------------------------------------------------------
\* The sizes of the code, without how they relate.
LEMMA Positive ==
  kCacheLineSize \in Nat \ {0} /\ kSlabSize \in Nat \ {0} /\ kNumaMemorySize \in Nat \ {0}
  BY SizesAssumption

\* A request is rounded up to more than a header and at most a slab.
LEMMA RoundedSize ==
  ASSUME NEW n \in Sizes
  PROVE  /\ Rounded(n) \in Nat /\ kCacheLineSize < Rounded(n) /\ Rounded(n) <= kSlabSize
         /\ Class(Rounded(n)) \in Classes /\ Class(Rounded(n)) \in Nat \ {0}
<1>1. PICK k \in 1 .. kSlabSize : kSlabSize = k * kCacheLineSize
  BY SizesAssumption
<1>2. n \in Nat \ {0} /\ k \in Nat /\ n + kCacheLineSize <= k * kCacheLineSize
  BY <1>1, SizesAssumption
<1>3. /\ Rounded(n) \in Nat /\ Rounded(n) > kCacheLineSize /\ Rounded(n) <= k * kCacheLineSize
  BY <1>2, RoundUpToMultiple, SizesAssumption DEF Rounded
<1>4. QED
  BY <1>1, <1>3, SizesAssumption DEF Class, Classes

\* The classes are positive numbers.
LEMMA ClassesArePositive == Classes \subseteq Nat \ {0}
  BY RoundedSize DEF Classes

\* The size that a call wants, with its header.
LEMMA WantedSize ==
  ASSUME TypeOK, NEW t \in Threads, want[t] # 0
  PROVE  /\ want[t] \in Nat /\ kCacheLineSize < want[t] /\ want[t] <= kSlabSize
         /\ Class(want[t]) \in Classes /\ Class(want[t]) \in Nat \ {0}
         /\ kCacheLineSize + Class(want[t]) = want[t]
<1>1. PICK n \in Sizes : want[t] = Rounded(n)
  BY DEF TypeOK
<1>2. QED
  BY <1>1, RoundedSize, SizesAssumption DEF Class

\* An address is a node and an offset.
LEMMA AddressParts ==
  ASSUME NEW a \in Addresses
  PROVE  a[1] \in Nodes /\ a[2] \in Nat /\ a = <<a[1], a[2]>>
  BY DEF Addresses

\* A block has a place and a size, and takes some memory.
LEMMA BlockParts ==
  ASSUME TypeOK, NEW b \in DOMAIN size
  PROVE  b[1] \in Nodes /\ b[2] \in Nat /\ size[b] \in Nat \ {0} /\ End(b) \in Nat /\ b[2] < End(b)
<1>1. b[1] \in Nodes /\ b[2] \in Nat
  BY AddressParts DEF TypeOK
<1>2. size[b] \in Nat \ {0}
  BY ClassesArePositive DEF TypeOK
<1>3. QED
  BY <1>1, <1>2, Positive DEF End

\* A slab is somewhere in the memory of a node.
LEMMA SlabParts ==
  ASSUME TypeOK, NEW t \in Threads
  PROVE  /\ slab[t].allocated \in Nat /\ slab[t].allocated <= kSlabSize
         /\ HasSlab(t) => /\ Node(t) \in Nodes /\ Start(t) \in Nat
                          /\ slab[t].memory = <<Node(t), Start(t)>>
<1>1. slab[t].allocated \in Nat /\ slab[t].allocated <= kSlabSize
  BY Positive DEF TypeOK
<1>2. ASSUME HasSlab(t) PROVE slab[t].memory \in Addresses
  BY <1>2 DEF TypeOK, HasSlab
<1>3. QED
  BY <1>1, <1>2, AddressParts DEF Node, Start

\* No slab has been taken when the allocator is constructed.
LEMMA InitMemory == Init => MemoryInv
<1> SUFFICES ASSUME Init PROVE MemoryInv
  OBVIOUS
<1>1. DOMAIN size = {} /\ size \in [DOMAIN size -> Classes]
  BY DEF Init
<1>2. TypeOK
  <2>1. next \in [DOMAIN size -> DOMAIN size \cup {Null}]
    BY DEF Init
  <2>2. slab \in [Threads -> [memory : Addresses \cup {Null}, allocated : 0 .. kSlabSize]]
    BY Positive DEF Init, NoSlab
  <2>3. QED
    BY <1>1, <2>1, <2>2 DEF Init, TypeOK, NoBlocks
<1>3. CountInv
  <2>1. 0 = 0 * kSlabSize
    BY Positive
  <2>2. QED
    BY <2>1, Positive DEF Init, CountInv
<1>4. SlabInv /\ BlockInv
  BY <1>1 DEF Init, SlabInv, BlockInv, HasSlab, NoSlab
<1>5. UsedInv
  <2>1. \A q \in Nat : q * kSlabSize \in Nat
    BY Positive
  <2>2. QED
    BY <2>1 DEF Init, UsedInv, HasSlab, NoSlab
<1>6. QED
  BY <1>2, <1>3, <1>4, <1>5 DEF MemoryInv

\* A step that takes no memory: blocks move between callers and lists.
Quiet == UNCHANGED <<numa_allocated, slab, size, aborted>>

\* Such a step keeps the invariant, if it does not disturb a thread that is
\* about to cut from a new slab.
LEMMA QuietStep ==
  ASSUME MemoryInv, TypeOK', Quiet,
         \A t \in Threads : HasSlab(t) /\ slab[t].allocated = 0 =>
           want'[t] # 0 /\ head'[t][Class(want'[t])] = Null
  PROVE  MemoryInv'
<1>1. CountInv'
  BY DEF MemoryInv, CountInv, Quiet
<1>2. SlabInv'
  BY DEF MemoryInv, SlabInv, Quiet, HasSlab, Node, Start, End
<1>3. BlockInv'
  BY DEF MemoryInv, BlockInv, Quiet, End
<1>4. UsedInv'
  BY DEF MemoryInv, UsedInv, Quiet, HasSlab
<1>5. QED
  BY <1>1, <1>2, <1>3, <1>4 DEF MemoryInv

\* The call of TlsAllocate.
LEMMA AllocateMemory ==
  ASSUME MemoryInv, NEW t \in Threads, Allocate(t)
  PROVE  MemoryInv'
<1>1. TypeOK'
  BY DEF MemoryInv, TypeOK, Allocate, listVars
<1>2. Quiet /\ head' = head
  BY DEF Allocate, Quiet, listVars
<1>3. ASSUME NEW u \in Threads, HasSlab(u), slab[u].allocated = 0
      PROVE  want'[u] # 0 /\ head'[u][Class(want'[u])] = Null
  <2>1. want[u] # 0 /\ head[u][Class(want[u])] = Null
    BY <1>3 DEF MemoryInv, UsedInv
  <2>2. u # t /\ want'[u] = want[u]
    BY <2>1 DEF Allocate, MemoryInv, TypeOK
  <2>3. QED
    BY <1>2, <2>1, <2>2
<1>4. QED
  BY <1>1, <1>2, <1>3, QuietStep

\* BlockList::Get.
LEMMA GetMemory ==
  ASSUME MemoryInv, NEW t \in Threads, Get(t), head[t][Class(want[t])] \in DOMAIN size
  PROVE  MemoryInv'
<1> DEFINE c == Class(want[t])
<1>0. want[t] # 0 /\ c \in Classes /\ TypeOK
  BY WantedSize DEF MemoryInv, Get, Calling
<1>1. TypeOK'
  <2>1. head' \in [Threads -> [Classes -> Addresses \cup {Null}]]
    <3>1. next[head[t][c]] \in Addresses \cup {Null}
      BY <1>0 DEF TypeOK
    <3>2. QED
      BY <3>1, <1>0 DEF Get, TypeOK
  <2>2. tail' \in [Threads -> [Classes -> Addresses \cup {Null}]]
    BY <1>0 DEF Get, TypeOK, TailAfterGet
  <2>3. live' \subseteq DOMAIN size /\ want' \in [Threads -> {0} \cup {Rounded(n) : n \in Sizes}]
    BY <1>0 DEF Get, TypeOK, Returns
  <2>4. QED
    BY <1>0, <2>1, <2>2, <2>3 DEF Get, TypeOK
<1>2. Quiet /\ head[t][c] # Null
  BY DEF Get, Quiet
<1>3. ASSUME NEW u \in Threads, HasSlab(u), slab[u].allocated = 0
      PROVE  want'[u] # 0 /\ head'[u][Class(want'[u])] = Null
  <2>1. want[u] # 0 /\ head[u][Class(want[u])] = Null
    BY <1>3 DEF MemoryInv, UsedInv
  <2>2. u # t
    BY <2>1, <1>2
  <2>3. want'[u] = want[u] /\ head'[u] = head[u]
    BY <1>0, <2>2 DEF Get, Returns, TypeOK
  <2>4. QED
    BY <2>1, <2>3
<1>4. QED
  BY <1>1, <1>2, <1>3, QuietStep

\* Free, which is BlockList::Put.
LEMMA FreeMemory ==
  ASSUME MemoryInv, NEW t \in Threads, Free(t)
  PROVE  MemoryInv'
<1>0. PICK b \in live : Free(t)!2!(b)
  BY DEF Free
<1> DEFINE c == size[b]
<1>1. TypeOK /\ b \in DOMAIN size /\ c \in Classes /\ b \in Addresses
  BY DEF MemoryInv, TypeOK
<1>2. TypeOK'
  <2>1. head' \in [Threads -> [Classes -> Addresses \cup {Null}]]
    BY <1>0, <1>1 DEF TypeOK
  <2>2. tail' \in [Threads -> [Classes -> Addresses \cup {Null}]]
    BY <1>0, <1>1 DEF TypeOK
  <2>3. next' \in [DOMAIN size -> DOMAIN size \cup {Null}]
    BY <1>0, <1>1 DEF TypeOK
  <2>4. QED
    BY <1>0, <1>1, <2>1, <2>2, <2>3 DEF Free, TypeOK
<1>3. Quiet
  BY DEF Free, Quiet
<1>4. ASSUME NEW u \in Threads, HasSlab(u), slab[u].allocated = 0
      PROVE  want'[u] # 0 /\ head'[u][Class(want'[u])] = Null
  <2>1. want[u] # 0 /\ head[u][Class(want[u])] = Null
    BY <1>4 DEF MemoryInv, UsedInv
  <2>2. u # t
    BY <2>1 DEF Free
  <2>3. want'[u] = want[u] /\ head'[u] = head[u]
    BY <1>0, <1>1, <2>2 DEF Free, TypeOK
  <2>4. QED
    BY <2>1, <2>3
<1>5. QED
  BY <1>2, <1>3, <1>4, QuietStep

\* Cut adds a block that was not there, between what its slab has given away
\* and the end of the slab.
LEMMA CutBlock ==
  ASSUME MemoryInv, NEW t \in Threads, Cut(t)
  PROVE  \E b \in Addresses :
             /\ b = At(slab[t].memory, slab[t].allocated)
             /\ HasSlab(t) /\ Node(t) \in Nodes /\ Start(t) \in Nat
             /\ b \notin DOMAIN size
             /\ b[1] = Node(t) /\ b[2] = Start(t) + slab[t].allocated
             /\ DOMAIN size' = DOMAIN size \cup {b}
             /\ \A x \in DOMAIN size : size'[x] = size[x] /\ End(x)' = End(x)
             /\ size'[b] = Class(want[t]) /\ End(b)' = Start(t) + slab[t].allocated + want[t]
             /\ slab[t].allocated + want[t] <= kSlabSize
             /\ slab' = [slab EXCEPT ![t].allocated = @ + want[t]]
<1>1. /\ TypeOK /\ want[t] # 0 /\ slab[t].memory # Null /\ slab[t].allocated + want[t] <= kSlabSize
      /\ slab' = [slab EXCEPT ![t].allocated = @ + want[t]]
  BY DEF MemoryInv, Cut, Calling, HasRoom
<1>2. slab[t].memory \in Addresses /\ slab[t].allocated \in Nat
  BY <1>1 DEF TypeOK
<1>3. PICK i \in Nodes, k \in Nat, al \in Nat, w \in Nat :
        slab[t].memory = <<i, k>> /\ slab[t].allocated = al /\ want[t] = w
  BY <1>1, <1>2, WantedSize DEF Addresses
<1>4. PICK b \in Addresses : b = <<i, k + al>>
  <2>1. k + al \in Nat
    OBVIOUS
  <2>2. <<i, k + al>> \in Addresses
    BY <2>1 DEF Addresses
  <2>3. QED
    BY <2>2
<1>5. b = At(slab[t].memory, slab[t].allocated)
  BY <1>3, <1>4 DEF At
<1>6. HasSlab(t) /\ Node(t) = i /\ Start(t) = k /\ b[1] = i /\ b[2] = k + al
  BY <1>1, <1>3, <1>4 DEF HasSlab, Node, Start
<1>7. b \notin DOMAIN size
  <2> SUFFICES ASSUME b \in DOMAIN size PROVE FALSE
    OBVIOUS
  <2>1. End(b) <= k + al \/ k + kSlabSize <= k + al
    BY <1>3, <1>6 DEF MemoryInv, SlabInv
  <2>2. size[b] \in Nat \ {0}
    BY <1>1, ClassesArePositive DEF TypeOK
  <2>3. End(b) > k + al
    BY <1>6, <2>2, Positive DEF End
  <2>4. w > 0 /\ al + w <= kSlabSize
    BY <1>1, <1>3
  <2>5. QED
    BY <2>1, <2>2, <2>3, <2>4, <1>6, Positive DEF End
<1>8. size' = Extend(size, b, Class(want[t]))
  BY <1>5 DEF Cut
<1>9. DOMAIN size' = DOMAIN size \cup {b} /\ size'[b] = Class(want[t])
  BY <1>8 DEF Extend
<1>10. \A x \in DOMAIN size : size'[x] = size[x]
  BY <1>7, <1>8 DEF Extend
<1>11. End(b)' = k + al + w
  <2>1. Class(want[t]) \in Nat /\ kCacheLineSize + Class(want[t]) = w
    BY <1>1, <1>3, WantedSize
  <2>2. End(b)' = k + al + kCacheLineSize + Class(want[t])
    BY <1>6, <1>9 DEF End
  <2>3. QED
    BY <2>1, <2>2, Positive
<1>12. QED
  BY <1>1, <1>3, <1>5, <1>6, <1>7, <1>9, <1>10, <1>11 DEF End

\* A block that is cut from a slab is apart from all other blocks, and from the
\* rest of every slab.
LEMMA CutMemory ==
  ASSUME MemoryInv, NEW t \in Threads, Cut(t)
  PROVE  MemoryInv'
<1>1. /\ TypeOK /\ want[t] # 0 /\ want[t] \in Nat /\ want[t] > 0
      /\ Class(want[t]) \in Classes /\ slab[t].allocated \in Nat
  BY WantedSize, Positive DEF MemoryInv, Cut, Calling, TypeOK
<1>3. PICK b \in Addresses :
      /\ b = At(slab[t].memory, slab[t].allocated)
      /\ HasSlab(t) /\ Node(t) \in Nodes /\ Start(t) \in Nat
      /\ b \notin DOMAIN size
      /\ b[1] = Node(t) /\ b[2] = Start(t) + slab[t].allocated
      /\ DOMAIN size' = DOMAIN size \cup {b}
      /\ \A x \in DOMAIN size : size'[x] = size[x] /\ End(x)' = End(x)
      /\ size'[b] = Class(want[t]) /\ End(b)' = Start(t) + slab[t].allocated + want[t]
      /\ slab[t].allocated + want[t] <= kSlabSize
      /\ slab' = [slab EXCEPT ![t].allocated = @ + want[t]]
  BY CutBlock
<1>4. PICK k \in Nat, al \in Nat, w \in Nat, i \in Nodes :
        Start(t) = k /\ slab[t].allocated = al /\ want[t] = w /\ Node(t) = i
  BY <1>1, <1>3
<1>5. /\ numa_allocated' = numa_allocated /\ aborted' = aborted /\ head' = head /\ tail' = tail
      /\ next' = Extend(next, b, Null) /\ live' = live \cup {b} /\ want' = [want EXCEPT ![t] = 0]
      /\ allocations' = allocations /\ exits' = exits
  BY <1>3 DEF Cut, Returns
<1>6. /\ \A u \in Threads : slab'[u].memory = slab[u].memory
      /\ \A u \in Threads \ {t} : slab'[u] = slab[u]
      /\ slab'[t].allocated = al + w
  BY <1>1, <1>3, <1>4 DEF TypeOK
<1>7. TypeOK'
  <2>1. slab' \in [Threads -> [memory : Addresses \cup {Null}, allocated : 0 .. kSlabSize]]
    <3>1. slab[t].allocated + want[t] \in 0 .. kSlabSize
      BY <1>1, <1>3, Positive
    <3>2. slab' = [slab EXCEPT ![t].allocated = slab[t].allocated + want[t]]
      BY <1>3
    <3>3. QED
      BY <1>1, <3>1, <3>2 DEF TypeOK
  <2>2. size' = Extend(size, b, Class(want[t]))
    BY <1>3 DEF Cut
  <2>3. size' \in [DOMAIN size' -> Classes]
    BY <1>1, <1>3, <2>2 DEF TypeOK, Extend
  <2>4. next' \in [DOMAIN size' -> DOMAIN size' \cup {Null}]
    BY <1>1, <1>3, <1>5 DEF TypeOK, Extend
  <2>5. want' \in [Threads -> {0} \cup {Rounded(n) : n \in Sizes}]
    BY <1>1, <1>5 DEF TypeOK
  <2>6. QED
    BY <1>1, <1>3, <1>5, <2>1, <2>3, <2>4, <2>5 DEF TypeOK
<1>8. CountInv'
  BY <1>5 DEF MemoryInv, CountInv
<1>9. SlabInv'
  <2> SUFFICES ASSUME NEW u \in Threads, HasSlab(u)'
               PROVE  /\ (Start(u) + kSlabSize <= numa_allocated[Node(u)])'
                      /\ \A v \in Threads : v # u /\ HasSlab(v)' /\ Node(v)' = Node(u)' =>
                           \/ Start(u)' + kSlabSize <= Start(v)' 
                           \/ Start(v)' + kSlabSize <= Start(u)'
                      /\ \A x \in DOMAIN size' : x[1] = Node(u)' =>
                           \/ End(x)' <= Start(u)' + slab'[u].allocated 
                           \/ Start(u)' + kSlabSize <= x[2]
    BY DEF SlabInv
  <2>1. \A v \in Threads : HasSlab(v)' = HasSlab(v) /\ Start(v)' = Start(v) /\ Node(v)' = Node(v)
    BY <1>6 DEF HasSlab, Start, Node
  <2>2. /\ Start(u) + kSlabSize <= numa_allocated[Node(u)]
        /\ \A v \in Threads : v # u /\ HasSlab(v) /\ Node(v) = Node(u) =>
             Start(u) + kSlabSize <= Start(v) \/ Start(v) + kSlabSize <= Start(u)
        /\ \A x \in DOMAIN size : x[1] = Node(u) =>
             End(x) <= Start(u) + slab[u].allocated \/ Start(u) + kSlabSize <= x[2]
    BY <2>1 DEF MemoryInv, SlabInv
  <2>3. PICK ku \in Nat, au \in Nat : Start(u) = ku /\ slab[u].allocated = au
    BY <1>1, <2>1, SlabParts
  <2>4. ASSUME NEW x \in DOMAIN size', x[1] = Node(u)'
        PROVE  End(x)' <= Start(u)' + slab'[u].allocated \/ Start(u)' + kSlabSize <= x[2]
    <3>1. CASE x \in DOMAIN size
      <4>1. PICK e \in Nat : e = End(x)
        BY <3>1, <1>1, BlockParts
      <4>2. End(x)' = e
        BY <4>1, <3>1, <1>3
      <4>3. e <= ku + au \/ ku + kSlabSize <= x[2]
        BY <2>1, <2>2, <2>3, <2>4, <3>1, <4>1
      <4>4. au <= slab'[u].allocated /\ slab'[u].allocated \in Nat
        BY <1>4, <1>6, <2>3
      <4>5. QED
        BY <2>1, <2>3, <4>2, <4>3, <4>4
    <3>2. CASE x = b /\ u = t
      BY <3>2, <2>1, <1>3, <1>4, <1>6
    <3>3. CASE x = b /\ u # t
      <4>1. ku + kSlabSize <= k \/ k + kSlabSize <= ku
        BY <3>3, <2>1, <2>2, <2>3, <2>4, <1>3, <1>4
      <4>2. End(x)' = k + al + w /\ x[2] = k + al /\ al + w <= kSlabSize
        BY <3>3, <1>3, <1>4
      <4>3. k + al + w <= ku + au \/ ku + kSlabSize <= k + al
        BY <4>1, <4>2, Positive
      <4>4. QED
        BY <4>2, <4>3, <3>3, <2>1, <2>3, <1>6
    <3>4. QED
      BY <3>1, <3>2, <3>3, <1>3
  <2>5. QED
    BY <2>1, <2>2, <2>4, <1>5
<1>10. BlockInv'
  <2>1. ASSUME NEW x \in DOMAIN size, x[1] = i
        PROVE  End(x)' <= b[2] \/ End(b)' <= x[2]
    <3>1. PICK e \in Nat, y \in Nat : e = End(x) /\ y = x[2]
      BY <1>1, BlockParts
    <3>2. e <= k + al \/ k + kSlabSize <= y
      BY <2>1, <3>1, <1>3, <1>4 DEF MemoryInv, SlabInv
    <3>3. End(x)' = e /\ End(b)' = k + al + w /\ b[2] = k + al /\ al + w <= kSlabSize
      BY <3>1, <1>3, <1>4
    <3>4. QED
      BY <3>1, <3>2, <3>3, Positive
  <2>2. End(b)' <= numa_allocated[b[1]]
    <3>1. PICK n \in Nat : n = numa_allocated[i]
      BY <1>1 DEF TypeOK
    <3>2. k + kSlabSize <= n
      BY <3>1, <1>3, <1>4 DEF MemoryInv, SlabInv
    <3>3. QED
      BY <3>1, <3>2, <1>3, <1>4, Positive
  <2>3. \A x \in DOMAIN size : End(x)' = End(x)
    BY <1>3
  <2>4. QED
    BY <2>1, <2>2, <2>3, <1>3, <1>4, <1>5 DEF MemoryInv, BlockInv
<1>11. UsedInv'
  <2>1. ASSUME NEW u \in Threads, HasSlab(u)', slab'[u].allocated = 0
        PROVE  want'[u] # 0 /\ head'[u][Class(want'[u])] = Null
    <3>1. u # t /\ HasSlab(u) /\ slab[u].allocated = 0
      BY <2>1, <1>1, <1>4, <1>6 DEF HasSlab
    <3>2. want'[u] = want[u]
      BY <3>1, <1>1, <1>5 DEF TypeOK
    <3>3. QED
      BY <3>1, <3>2, <1>5 DEF MemoryInv, UsedInv
  <2>2. ASSUME ~aborted', NEW j \in Nodes, NEW q \in Nat, q * kSlabSize < numa_allocated'[j]
        PROVE  \/ \E x \in DOMAIN size' : /\ x[1] = j 
                                          /\ x[2] \in q * kSlabSize .. q * kSlabSize + kSlabSize - 1
               \/ \E u \in Threads : slab'[u] = [memory |-> <<j, q * kSlabSize>>, allocated |-> 0]
    <3>1. PICK o \in Nat : o = q * kSlabSize
      BY Positive
    <3>2. \/ \E x \in DOMAIN size : x[1] = j /\ x[2] \in o .. o + kSlabSize - 1
          \/ \E u \in Threads : slab[u] = [memory |-> <<j, o>>, allocated |-> 0]
      BY <3>1, <2>2, <1>5 DEF MemoryInv, UsedInv
    <3>3. CASE \E x \in DOMAIN size : x[1] = j /\ x[2] \in o .. o + kSlabSize - 1
      BY <3>1, <3>3, <1>3
    <3>4. CASE \E u \in Threads \ {t} : slab[u] = [memory |-> <<j, o>>, allocated |-> 0]
      BY <3>1, <3>4, <1>6
    <3>5. CASE slab[t] = [memory |-> <<j, o>>, allocated |-> 0]
      <4>1. i = j /\ k = o /\ al = 0
        BY <3>5, <1>4 DEF Node, Start
      <4>2. b[1] = j /\ b[2] \in o .. o + kSlabSize - 1
        BY <4>1, <1>3, <1>4, Positive
      <4>3. QED
        BY <4>2, <3>1, <1>3
    <3>6. QED
      BY <3>2, <3>3, <3>4, <3>5
  <2>3. QED
    BY <2>1, <2>2 DEF UsedInv
<1>12. QED
  BY <1>7, <1>8, <1>9, <1>10, <1>11 DEF MemoryInv

\* A thread ends; the rest of its slab is lost.
LEMMA ExitMemory ==
  ASSUME MemoryInv, NEW t \in Threads, ExitThread(t)
  PROVE  MemoryInv'
<1>1. TypeOK /\ want[t] = 0 /\ slab' = [slab EXCEPT ![t] = NoSlab]
  BY DEF MemoryInv, ExitThread
<1>2. \A u \in Threads \ {t} : slab'[u] = slab[u] /\ head'[u] = head[u]
  BY DEF MemoryInv, ExitThread, TypeOK
<1>3. slab'[t] = NoSlab /\ ~HasSlab(t)'
  BY <1>1 DEF TypeOK, HasSlab, NoSlab
<1>4. UNCHANGED <<numa_allocated, size, next, live, want, allocations, aborted>>
  BY DEF ExitThread
<1>5. ASSUME NEW u \in Threads, HasSlab(u)'
      PROVE  /\ u # t /\ HasSlab(u) /\ slab'[u] = slab[u]
             /\ Node(u)' = Node(u) /\ Start(u)' = Start(u)
  BY <1>2, <1>3, <1>5 DEF HasSlab, Node, Start
<1>6. TypeOK'
  <2>1. slab' \in [Threads -> [memory : Addresses \cup {Null}, allocated : 0 .. kSlabSize]]
    BY <1>1, Positive DEF NoSlab, TypeOK
  <2>2. QED
    BY <1>1, <2>1 DEF TypeOK, ExitThread, NoBlocks
<1>7. CountInv' /\ BlockInv'
  BY <1>4 DEF MemoryInv, CountInv, BlockInv, End
<1>8. SlabInv'
  BY <1>4, <1>5 DEF MemoryInv, SlabInv, End
<1>9. UsedInv'
  <2>1. ASSUME NEW u \in Threads, HasSlab(u)', slab'[u].allocated = 0
        PROVE  want'[u] # 0 /\ head'[u][Class(want'[u])] = Null
    BY <2>1, <1>2, <1>4, <1>5 DEF MemoryInv, UsedInv
  <2>2. ASSUME NEW u \in Threads, NEW m, m # Null, slab[u] = [memory |-> m, allocated |-> 0]
        PROVE  slab'[u] = [memory |-> m, allocated |-> 0]
    <3>1. HasSlab(u) /\ slab[u].allocated = 0
      BY <2>2 DEF HasSlab
    <3>2. want[u] # 0
      BY <3>1 DEF MemoryInv, UsedInv
    <3>3. QED
      BY <2>2, <3>2, <1>1, <1>2
  <2>3. ASSUME NEW i \in Nodes, NEW q \in Nat
        PROVE  <<i, q * kSlabSize>> # Null
    <3>1. q * kSlabSize \in Nat
      BY Positive
    <3>2. <<i, q * kSlabSize>> \in Nodes \X Nat
      BY <3>1
    <3>3. QED
      BY <3>2, NullAssumption
  <2>4. QED
    BY <2>1, <2>2, <2>3, <1>4 DEF MemoryInv, UsedInv
<1>10. QED
  BY <1>6, <1>7, <1>8, <1>9 DEF MemoryInv

\* A slab that is taken is apart from all slabs and blocks: it starts where the
\* counter of its node stood.
LEMMA TakeSlabMemory ==
  ASSUME MemoryInv, NEW t \in Threads, TakeSlab(t)
  PROVE  MemoryInv'
<1>1. /\ TypeOK /\ ~aborted /\ want[t] # 0 /\ head[t][Class(want[t])] = Null /\ ~HasRoom(t)
      /\ want[t] \in Nat /\ want[t] <= kSlabSize
  BY WantedSize DEF MemoryInv, TakeSlab, Calling
<1>2. PICK i \in Nodes : 
        /\ numa_allocated' = [numa_allocated EXCEPT ![i] = @ + kSlabSize]
        /\ slab' = [slab EXCEPT ![t] = NewSlab(t, i)]
        /\ aborted' = (numa_allocated[i] >= kNumaMemorySize)
  BY DEF TakeSlab
<1>3. PICK n \in Nat, m \in Nat : n = numa_allocated[i] /\ n = m * kSlabSize /\ n <= kNumaMemorySize
  BY <1>1 DEF MemoryInv, CountInv, TypeOK
<1>4. UNCHANGED <<head, tail, size, next, live, want, allocations, exits>>
  BY DEF TakeSlab, listVars
<1>5. \A j \in Nodes \ {i} : numa_allocated'[j] = numa_allocated[j]
  BY <1>1, <1>2 DEF TypeOK
<1>6. numa_allocated'[i] = n + kSlabSize /\ aborted' = (n >= kNumaMemorySize)
  BY <1>1, <1>2, <1>3 DEF TypeOK
<1>20. n = numa_allocated[i] /\ n <= kNumaMemorySize
  BY <1>3
<1>7. \A j \in Nodes : /\ numa_allocated[j] \in Nat /\ numa_allocated'[j] \in Nat
                       /\ numa_allocated[j] <= numa_allocated'[j]
  <2>1. numa_allocated'[i] \in Nat /\ numa_allocated[i] <= numa_allocated'[i]
    BY <1>20, <1>6, Positive
  <2>2. \A j \in Nodes : numa_allocated[j] \in Nat
    BY <1>1 DEF TypeOK
  <2>3. QED
    BY <2>1, <2>2, <1>5
<1>8. slab'[t] = [memory |-> <<i, n>>, allocated |-> 0] /\ \A u \in Threads \ {t} : slab'[u] = slab[u]
  BY <1>1, <1>2, <1>3 DEF TypeOK, NewSlab
<1>9. <<i, n>> \in Addresses /\ <<i, n>> # Null
  BY <1>3, NullAssumption DEF Addresses
<1>10. HasSlab(t)' /\ Node(t)' = i /\ Start(t)' = n
  BY <1>8, <1>9 DEF HasSlab, Node, Start
<1>11. \A u \in Threads \ {t} : HasSlab(u)' = HasSlab(u) /\ Node(u)' = Node(u) /\ Start(u)' = Start(u)
  BY <1>8 DEF HasSlab, Node, Start
<1>12. TypeOK'
  <2>1. slab' \in [Threads -> [memory : Addresses \cup {Null}, allocated : 0 .. kSlabSize]]
    <3>1. NewSlab(t, i) \in [memory : Addresses \cup {Null}, allocated : 0 .. kSlabSize]
      BY <1>3, <1>9, Positive DEF NewSlab
    <3>2. QED
      BY <3>1, <1>1, <1>2 DEF TypeOK
  <2>2. numa_allocated' \in [Nodes -> Nat] /\ aborted' \in BOOLEAN
    BY <1>1, <1>2, <1>7 DEF TypeOK
  <2>3. QED
    BY <1>1, <1>4, <2>1, <2>2 DEF TypeOK
<1>13. CountInv'
  <2>1. (m + 1) * kSlabSize = n + kSlabSize
    BY <1>3, Positive
  <2>2. ASSUME ~aborted' PROVE n + kSlabSize <= kNumaMemorySize
    <3>1. PICK k \in 1 .. kNumaMemorySize : kNumaMemorySize = k * kSlabSize
      BY SizesAssumption
    <3>2. k - 1 \in Nat /\ k = (k - 1) + 1 /\ k \in Nat
      BY Positive
    <3>8. ~(n >= kNumaMemorySize)
      BY <2>2, <1>6, Zenon
    <3>7. n < kNumaMemorySize
      BY <3>8, Positive
    <3>3. m * kSlabSize < ((k - 1) + 1) * kSlabSize
      BY <3>1, <3>2, <3>7, <1>3
    <3>4. m <= k - 1
      BY <3>2, <3>3, MultiplesOrder, Positive
    <3>5. (m + 1) * kSlabSize <= k * kSlabSize
      BY <3>2, <3>4, Positive
    <3>6. QED
      BY <2>1, <3>1, <3>5
  <2>3. QED
    BY <2>1, <2>2, <1>1, <1>5, <1>6 DEF MemoryInv, CountInv
<1>14. ASSUME NEW b \in DOMAIN size
       PROVE  End(b)' = End(b) /\ (b[1] = i => End(b) <= n)
  BY <1>3, <1>4 DEF MemoryInv, BlockInv, End
<1>15. BlockInv'
  <2>1. ASSUME NEW b \in DOMAIN size
        PROVE  End(b) <= numa_allocated'[b[1]]
    <3>1. End(b) \in Nat /\ End(b) <= numa_allocated[b[1]] /\ b[1] \in Nodes
      BY <1>1, BlockParts DEF MemoryInv, BlockInv
    <3>2. QED
      BY <3>1, <1>7
  <2>2. QED
    BY <2>1, <1>4, <1>14 DEF MemoryInv, BlockInv
<1>16. SlabInv'
  <2>1. ASSUME NEW u \in Threads \ {t}, HasSlab(u)
        PROVE  /\ Node(u) \in Nodes /\ Start(u) \in Nat
               /\ Start(u) + kSlabSize <= numa_allocated'[Node(u)]
               /\ Node(u) = i => Start(u) + kSlabSize <= n
    <3>1. Node(u) \in Nodes /\ Start(u) \in Nat /\ Start(u) + kSlabSize <= numa_allocated[Node(u)]
      BY <2>1, <1>1, SlabParts DEF MemoryInv, SlabInv
    <3>2. Start(u) + kSlabSize \in Nat /\ numa_allocated[Node(u)] <= numa_allocated'[Node(u)]
      BY <3>1, <1>7, Positive
    <3>3. QED
      BY <3>1, <3>2, <1>7, <1>20
  <2>2. ASSUME NEW u \in Threads, HasSlab(u)' PROVE (Start(u) + kSlabSize <= numa_allocated[Node(u)])'
    BY <2>1, <2>2, <1>6, <1>10, <1>11, Positive
  <2>3. ASSUME NEW u \in Threads, NEW v \in Threads, u # v, HasSlab(u)', HasSlab(v)', Node(v)' = Node(u)'
        PROVE  Start(u)' + kSlabSize <= Start(v)' \/ Start(v)' + kSlabSize <= Start(u)'
    <3>1. CASE u = t
      BY <3>1, <2>1, <2>3, <1>10, <1>11
    <3>2. CASE v = t
      BY <3>2, <2>1, <2>3, <1>10, <1>11
    <3>3. CASE u # t /\ v # t
      BY <3>3, <2>3, <1>11 DEF MemoryInv, SlabInv
    <3>4. QED
      BY <3>1, <3>2, <3>3
  <2>4. ASSUME NEW u \in Threads, HasSlab(u)', NEW b \in DOMAIN size, b[1] = Node(u)'
        PROVE  End(b)' <= Start(u)' + slab'[u].allocated \/ Start(u)' + kSlabSize <= b[2]
    <3>1. CASE u = t
      <4>1. End(b) <= n + 0
        BY <3>1, <2>4, <1>10, <1>14, <1>3
      <4>2. QED
        BY <3>1, <4>1, <1>8, <1>10, <1>14
    <3>2. CASE u # t
      BY <3>2, <2>4, <1>8, <1>11, <1>14 DEF MemoryInv, SlabInv
    <3>3. QED
      BY <3>1, <3>2
  <2>5. QED
    BY <2>2, <2>3, <2>4, <1>4 DEF SlabInv
<1>17. UsedInv'
  <2>1. ASSUME NEW u \in Threads, HasSlab(u)', slab'[u].allocated = 0
        PROVE  want'[u] # 0 /\ head'[u][Class(want'[u])] = Null
    BY <2>1, <1>1, <1>4, <1>8, <1>11 DEF MemoryInv, UsedInv
  <2>2. ~(HasSlab(t) /\ slab[t].allocated = 0)
    BY <1>1, Positive DEF HasRoom, HasSlab
  <2>3. ASSUME ~aborted', NEW j \in Nodes, NEW q \in Nat, q * kSlabSize < numa_allocated'[j]
        PROVE  \/ \E x \in DOMAIN size' : /\ x[1] = j
                                          /\ x[2] \in q * kSlabSize .. q * kSlabSize + kSlabSize - 1
               \/ \E u \in Threads : slab'[u] = [memory |-> <<j, q * kSlabSize>>, allocated |-> 0]
    <3>1. PICK o \in Nat : o = q * kSlabSize
      BY Positive
    <3>2. CASE o < numa_allocated[j]
      <4>1. \/ \E x \in DOMAIN size : x[1] = j /\ x[2] \in o .. o + kSlabSize - 1
            \/ \E u \in Threads : slab[u] = [memory |-> <<j, o>>, allocated |-> 0]
        BY <3>1, <3>2, <1>1 DEF MemoryInv, UsedInv
      <4>2. <<j, o>> # Null
        BY NullAssumption
      <4>3. ASSUME slab[t] = [memory |-> <<j, o>>, allocated |-> 0] PROVE FALSE
        BY <4>2, <4>3, <2>2 DEF HasSlab
      <4>4. QED
        BY <3>1, <4>1, <4>3, <1>4, <1>8
    <3>3. CASE ~(o < numa_allocated[j])
      <4>1. j = i /\ o >= n /\ o < n + kSlabSize
        BY <2>3, <3>1, <3>3, <1>5, <1>6, <1>20, <1>7, Positive
      <4>2. q * kSlabSize < (m + 1) * kSlabSize
        BY <3>1, <4>1, <1>3, Positive
      <4>3. q <= m
        BY <4>2, MultiplesOrder, Positive
      <4>4. o <= n
        BY <4>3, <3>1, <1>3, Positive
      <4>5. o = n
        BY <4>1, <4>4
      <4>6. QED
        BY <3>1, <4>1, <4>5, <1>8
    <3>4. QED
      BY <3>2, <3>3
  <2>4. QED
    BY <2>1, <2>3 DEF UsedInv
<1>18. QED
  BY <1>12, <1>13, <1>15, <1>16, <1>17 DEF MemoryInv

-----------------------------------------------------------------------------
\* p is the list of blocks of size c of thread t, in order.
IsList(t, c, p) ==
  /\ p = <<>> => head[t][c] = Null /\ tail[t][c] = Null
  /\ p # <<>> => head[t][c] = p[1] /\ tail[t][c] = p[Len(p)] /\ next[p[Len(p)]] = Null
  /\ \A i \in 1 .. Len(p) - 1 : next[p[i]] = p[i + 1]
  /\ \A i \in 1 .. Len(p) : size[p[i]] = c /\ p[i] \notin live

\* No block is twice in the lists.
Once(lists) ==
  \A t, u \in Threads, c, d \in Classes :
    \A i \in 1 .. Len(lists[t][c]), j \in 1 .. Len(lists[u][d]) :
      lists[t][c][i] = lists[u][d][j] => t = u /\ c = d /\ i = j

\* All lists of all threads; without threads that ended no block is lost.
AreLists(lists) ==
  /\ lists \in [Threads -> [Classes -> Seq(DOMAIN size)]]
  /\ \A t \in Threads, c \in Classes : IsList(t, c, lists[t][c])
  /\ Once(lists)
  /\ exits = 0 => \A b \in DOMAIN size :
       b \in live \/ \E t \in Threads, c \in Classes : \E i \in 1 .. Len(lists[t][c]) : lists[t][c][i] = b

ListInv == IsFiniteSet(DOMAIN size) /\ \E lists : AreLists(lists)

\* The sequence of the first element.
LEMMA OneElement ==
  ASSUME NEW S, NEW p \in Seq(S), p # <<>>
  PROVE  SubSeq(p, 1, 1) = <<p[1]>>
<1>1. p[1] \in S /\ 1 \in 1 .. Len(p)
  OBVIOUS
<1>2. SubSeq(p, 1, 1) \in Seq(S) /\ Len(SubSeq(p, 1, 1)) = 1 /\ SubSeq(p, 1, 1)[1] = p[1]
  BY <1>1
<1>3. <<p[1]>> \in Seq(S) /\ Len(<<p[1]>>) = 1 /\ <<p[1]>>[1] = p[1]
  BY <1>1
<1>4. PICK u \in Seq(S), v \in Seq(S) : u = SubSeq(p, 1, 1) /\ v = <<p[1]>>
  BY <1>2, <1>3
<1>5. Len(u) = Len(v) /\ \A i \in 1 .. Len(u) : u[i] = v[i]
  BY <1>2, <1>3, <1>4
<1>6. u = v
  BY <1>5, SeqEqual
<1>7. QED
  BY <1>4, <1>6

\* Following next from head to tail visits the list, in order, and ends.
LEMMA ChainIsList ==
  ASSUME NEW t \in Threads, NEW c \in Classes, NEW S, NEW p \in Seq(S), Null \notin S, IsList(t, c, p),
         \A i, j \in 1 .. Len(p) : p[i] = p[j] => i = j,
         Cardinality(DOMAIN next) \in Nat, Len(p) <= Cardinality(DOMAIN next)
  PROVE  Chain(t, c) = p
<1>1. CASE p = <<>>
  BY <1>1 DEF Chain, IsList
<1>2. CASE p # <<>>
  <2> DEFINE N == Cardinality(DOMAIN next)
             step(f, k) == IF k = 0 THEN <<head[t][c]>>
                           ELSE IF Last(f[k - 1]) \in {Null, tail[t][c]} THEN f[k - 1]
                           ELSE Append(f[k - 1], next[Last(f[k - 1])])
             pre == [k \in 0 .. N |-> SubSeq(p, 1, IF k + 1 <= Len(p) THEN k + 1 ELSE Len(p))]
             follow == CHOOSE f : f = [k \in 0 .. N |-> step(f, k)]
  <2>1. Len(p) \in Nat \ {0} /\ N \in Nat /\ Len(p) <= N
    BY <1>2
  <2>2. head[t][c] = p[1] /\ tail[t][c] = p[Len(p)] /\ \A i \in 1 .. Len(p) - 1 : next[p[i]] = p[i + 1]
    BY <1>2 DEF IsList
  <2>3. head[t][c] # Null
    BY <2>1, <2>2
  <2>4. pre[0] = <<head[t][c]>>
    <3>1. pre[0] = SubSeq(p, 1, 1)
      BY <2>1
    <3>2. QED
      BY <3>1, <2>2, <1>2, OneElement
  <2>5. ASSUME NEW k \in 1 .. N
        PROVE  pre[k] = IF Last(pre[k - 1]) \in {Null, tail[t][c]} THEN pre[k - 1]
                        ELSE Append(pre[k - 1], next[Last(pre[k - 1])])
    <3>1. k \in Nat /\ k - 1 \in 0 .. N /\ k \in 0 .. N
      BY <2>1
    <3>2. CASE k + 1 <= Len(p)
      <4>1. pre[k] = SubSeq(p, 1, k + 1) /\ pre[k - 1] = SubSeq(p, 1, k)
        BY <2>1, <3>1, <3>2
      <4>2. k \in 1 .. Len(p) /\ k \in 1 .. Len(p) - 1 /\ k # Len(p)
        BY <2>1, <3>1, <3>2
      <4>3. Last(pre[k - 1]) = p[k]
        BY <4>1, <4>2 DEF Last
      <4>4. p[k] # Null /\ p[k] # tail[t][c]
        BY <4>2, <2>1, <2>2
      <4>5. SubSeq(p, 1, k + 1) = Append(SubSeq(p, 1, k), p[k + 1])
        BY <4>2
      <4>6. QED
        BY <4>1, <4>2, <4>3, <4>4, <4>5, <2>2
    <3>3. CASE ~(k + 1 <= Len(p))
      <4>1. pre[k] = SubSeq(p, 1, Len(p)) /\ pre[k - 1] = SubSeq(p, 1, Len(p))
        <5>1. (IF k <= Len(p) THEN k ELSE Len(p)) = Len(p)
          BY <2>1, <3>1, <3>3
        <5>2. pre[k - 1] = SubSeq(p, 1, IF (k - 1) + 1 <= Len(p) THEN (k - 1) + 1 ELSE Len(p))
          BY <3>1
        <5>3. (k - 1) + 1 = k
          BY <3>1
        <5>4. QED
          BY <5>1, <5>2, <5>3, <3>1, <3>3
      <4>2. SubSeq(p, 1, Len(p)) = p
        OBVIOUS
      <4>3. Last(pre[k - 1]) = tail[t][c]
        BY <4>1, <4>2, <2>2 DEF Last
      <4>4. QED
        BY <4>1, <4>3
    <3>4. QED
      BY <3>2, <3>3
  <2>6. pre = [k \in 0 .. N |-> step(pre, k)]
    <3>1. ASSUME NEW k \in 0 .. N PROVE pre[k] = step(pre, k)
      <4>1. CASE k = 0
        BY <4>1, <2>4
      <4>2. CASE k # 0
        <5>1. k \in 1 .. N
          BY <4>2, <2>1
        <5>2. QED
          BY <5>1, <4>2, <2>5
      <4>3. QED
        BY <4>1, <4>2
    <3> DEFINE q == [k \in 0 .. N |-> step(pre, k)]
    <3>2. pre = [k \in 0 .. N |-> pre[k]]
      OBVIOUS
    <3> HIDE DEF pre, step
    <3>3. QED
      BY <3>1, <3>2
  <2> HIDE DEF pre
  <2>7. follow = [k \in 0 .. N |-> step(follow, k)]
    <3> HIDE DEF step
    <3>1. QED
      BY <2>6
  <2> HIDE DEF follow
  <2>8. \A k \in 0 .. N : follow[k] = pre[k]
    <3> DEFINE same == {k \in Nat : k \in 0 .. N => follow[k] = pre[k]}
    <3>1. 0 \in same
      <4>1. follow[0] = <<head[t][c]>>
        BY <2>1, <2>7
      <4>2. QED
        BY <4>1, <2>4
    <3>2. ASSUME NEW k \in Nat, k \in same PROVE k + 1 \in same
      <4> SUFFICES ASSUME k + 1 \in 0 .. N PROVE follow[k + 1] = pre[k + 1]
        OBVIOUS
      <4>1. k \in 0 .. N /\ k + 1 \in 1 .. N /\ (k + 1) - 1 = k /\ k + 1 # 0
        BY <2>1
      <4>2. follow[k] = pre[k]
        BY <3>2, <4>1
      <4>3. follow[k + 1] = step(follow, k + 1)
        <5> HIDE DEF step
        <5>1. QED
          BY <2>7
      <4>4. pre[k + 1] = IF Last(pre[k]) \in {Null, tail[t][c]} THEN pre[k]
                         ELSE Append(pre[k], next[Last(pre[k])])
        BY <4>1, <2>5
      <4>5. QED
        BY <4>1, <4>2, <4>3, <4>4
    <3> HIDE DEF same
    <3>3. Nat \subseteq same
      BY <3>1, <3>2, SetInduction
    <3>4. QED
      BY <3>3, <2>1 DEF same
  <2>9. pre[N] = p
    <3>1. (IF N + 1 <= Len(p) THEN N + 1 ELSE Len(p)) = Len(p)
      BY <2>1
    <3>2. N \in 0 .. N /\ SubSeq(p, 1, Len(p)) = p
      BY <2>1
    <3>3. QED
      BY <3>1, <3>2 DEF pre
  <2>10. Chain(t, c) = follow[N]
    BY <2>3 DEF Chain, follow
  <2>11. QED
    BY <2>1, <2>8, <2>9, <2>10
<1>3. QED
  BY <1>1, <1>2

\* The lists put each block in one place.
LEMMA ListsAreOnePlace ==
  ASSUME TypeOK, ListInv
  PROVE  BlocksAreInOnePlace
<1>1. PICK lists : AreLists(lists)
  BY DEF ListInv
<1>2. PICK N \in Nat : N = Cardinality(DOMAIN next) /\ N = Cardinality(DOMAIN size)
  BY FS_CardinalityType DEF ListInv, TypeOK
<1>3. Null \notin DOMAIN size
  BY NullAssumption DEF TypeOK, Addresses
<1>4. ASSUME NEW t \in Threads, NEW c \in Classes
      PROVE  /\ lists[t][c] \in Seq(DOMAIN size) /\ IsList(t, c, lists[t][c])
             /\ Chain(t, c) = lists[t][c] /\ Len(lists[t][c]) \in 0 .. N
  <2>1. PICK p \in Seq(DOMAIN size) : p = lists[t][c]
    BY <1>1 DEF AreLists
  <2>2. IsList(t, c, p) /\ \A i, j \in 1 .. Len(p) : p[i] = p[j] => i = j
    BY <1>1, <2>1 DEF AreLists, Once
  <2>3. Len(p) <= N
    <3>1. p \in [1 .. Len(p) -> DOMAIN size] /\ Len(p) \in Nat
      OBVIOUS
    <3>2. p \in Injection(1 .. Len(p), DOMAIN size)
      BY <2>2, <3>1 DEF Injection, IsInjective
    <3>3. Cardinality(1 .. Len(p)) <= Cardinality(DOMAIN size)
      BY <3>2, FS_Injection DEF ListInv
    <3>4. Cardinality(1 .. Len(p)) = Len(p)
      <4>1. PICK n \in Nat : n = Len(p)
        BY <3>1
      <4>2. Cardinality(1 .. n) = n
        BY FS_Interval
      <4>3. QED
        BY <4>1, <4>2
    <3>5. QED
      BY <3>3, <3>4, <1>2
  <2>4. Chain(t, c) = p
    BY <2>2, <2>3, <1>2, <1>3, ChainIsList
  <2>5. QED
    BY <2>1, <2>2, <2>3, <2>4
<1>5. ASSUME NEW t \in Threads, NEW c \in Classes
      PROVE  /\ head[t][c] = Null <=> tail[t][c] = Null
             /\ head[t][c] # Null => Last(Chain(t, c)) = tail[t][c] /\ next[tail[t][c]] = Null
             /\ \A i \in DOMAIN Chain(t, c) : size[Chain(t, c)[i]] = c
  <2>1. PICK p \in Seq(DOMAIN size) : p = Chain(t, c) /\ IsList(t, c, p)
    BY <1>4
  <2>2. p # <<>> => p[1] # Null /\ p[Len(p)] # Null
    BY <1>3
  <2>3. QED
    BY <2>1, <2>2 DEF IsList, Last
<1>6. ASSUME NEW b \in DOMAIN size
      PROVE  LET places == Cardinality(InLists(b)) + (IF b \in live THEN 1 ELSE 0)
             IN  places = 1 \/ (places = 0 /\ exits > 0)
  <2>1. ASSUME NEW x, x \in InLists(b)
        PROVE  \E t \in Threads, c \in Classes, i \in 1 .. N :
                 x = <<t, c, i>> /\ i \in 1 .. Len(lists[t][c]) /\ lists[t][c][i] = b
    <3>1. x \in Threads \X Classes \X (1 .. N) /\ x[3] \in DOMAIN Chain(x[1], x[2]) 
          /\ Chain(x[1], x[2])[x[3]] = b
      BY <2>1, <1>2 DEF InLists
    <3>2. PICK t \in Threads, c \in Classes, i \in 1 .. N : x = <<t, c, i>>
      BY <3>1
    <3>3. i \in DOMAIN Chain(t, c) /\ Chain(t, c)[i] = b
      BY <3>1, <3>2
    <3>4. QED
      BY <3>2, <3>3, <1>4
  <2>2. ASSUME NEW t \in Threads, NEW c \in Classes, NEW i \in 1 .. Len(lists[t][c]), lists[t][c][i] = b
        PROVE  <<t, c, i>> \in InLists(b)
    <3>1. i \in 1 .. N /\ i \in DOMAIN Chain(t, c) /\ Chain(t, c)[i] = b
      BY <2>2, <1>4
    <3>2. QED
      BY <3>1, <1>2 DEF InLists
  <2>3. CASE \E t \in Threads, c \in Classes : \E i \in 1 .. Len(lists[t][c]) : lists[t][c][i] = b
    <3>1. PICK t \in Threads, c \in Classes : \E i \in 1 .. Len(lists[t][c]) : lists[t][c][i] = b
      BY <2>3
    <3>2. PICK i \in 1 .. Len(lists[t][c]) : lists[t][c][i] = b
      BY <3>1
    <3>3. InLists(b) = {<<t, c, i>>}
      <4>1. <<t, c, i>> \in InLists(b)
        BY <3>2, <2>2
      <4>2. ASSUME NEW x \in InLists(b) PROVE x = <<t, c, i>>
        <5>1. PICK u \in Threads, d \in Classes, j \in 1 .. N :
                x = <<u, d, j>> /\ j \in 1 .. Len(lists[u][d]) /\ lists[u][d][j] = b
          BY <2>1
        <5>2. t = u /\ c = d /\ i = j
          BY <3>2, <5>1, <1>1 DEF AreLists, Once
        <5>3. QED
          BY <5>1, <5>2
      <4>3. QED
        BY <4>1, <4>2
    <3>4. Cardinality(InLists(b)) = 1
      BY <3>3, FS_Singleton
    <3>5. b \notin live
      BY <3>2, <1>4 DEF IsList
    <3>6. QED
      BY <3>4, <3>5
  <2>4. CASE ~\E t \in Threads, c \in Classes : \E i \in 1 .. Len(lists[t][c]) : lists[t][c][i] = b
    <3>1. InLists(b) = {}
      <4>1. ASSUME NEW x \in InLists(b) PROVE FALSE
        BY <2>1, <2>4
      <4>2. QED
        BY <4>1
    <3>2. Cardinality(InLists(b)) = 0
      BY <3>1, FS_EmptySet
    <3>3. b \in live \/ exits > 0
      <4>1. b \in live \/ exits # 0
        BY <2>4, <1>1 DEF AreLists
      <4>2. QED
        BY <4>1 DEF TypeOK
    <3>4. QED
      BY <3>2, <3>3
  <2>5. QED
    BY <2>3, <2>4
<1>7. QED
  BY <1>5, <1>6 DEF BlocksAreInOnePlace

\* All lists are empty when the allocator is constructed.
LEMMA InitLists == Init => ListInv
<1> SUFFICES ASSUME Init PROVE ListInv
  OBVIOUS
<1>1. DOMAIN size = {}
  BY DEF Init
<1>2. IsFiniteSet(DOMAIN size)
  BY <1>1, FS_EmptySet
<1> DEFINE none == [t \in Threads |-> [c \in Classes |-> <<>>]]
<1>3. AreLists(none)
  <2>1. none \in [Threads -> [Classes -> Seq(DOMAIN size)]]
    BY <1>1
  <2>2. ASSUME NEW t \in Threads, NEW c \in Classes PROVE none[t][c] = <<>> /\ IsList(t, c, <<>>)
    BY DEF Init, IsList, NoBlocks
  <2>3. \A t \in Threads, c \in Classes : none[t][c] = <<>> /\ IsList(t, c, none[t][c])
    BY <2>2
  <2> HIDE DEF none
  <2>4. Once(none)
    BY <2>3 DEF Once
  <2>5. QED
    BY <2>1, <2>3, <2>4, <1>1 DEF AreLists
<1>4. QED
  BY <1>2, <1>3 DEF ListInv

\* Different lists have no block in common.
LEMMA ListsApart ==
  ASSUME NEW lists, AreLists(lists), NEW t \in Threads, NEW u \in Threads,
         NEW c \in Classes, NEW d \in Classes, u # t \/ d # c
  PROVE  \A i \in 1 .. Len(lists[t][c]), j \in 1 .. Len(lists[u][d]) : lists[t][c][i] # lists[u][d][j]
<1>1. Once(lists)
  BY DEF AreLists
<1>2. QED
  BY <1>1 DEF Once

\* No block is twice in p.
NoRepeats(p) == \A i, j \in 1 .. Len(p) : p[i] = p[j] => i = j

\* A step keeps every list but the one of thread t and size c, and p has no block of theirs.
OthersKept(lists, t, c, p) ==
  \A u \in Threads, d \in Classes : u # t \/ d # c =>
    /\ IsList(u, d, lists[u][d])'
    /\ \A i \in 1 .. Len(p), j \in 1 .. Len(lists[u][d]) : p[i] # lists[u][d][j]

\* After a step with p the list of thread t and size c, every block is live or in a list,
\* unless a thread has exited.
NoneLost(lists, t, c, p) ==
  exits' = 0 => \A b \in DOMAIN size' :
    \/ b \in live'
    \/ \E i \in 1 .. Len(p) : p[i] = b
    \/ \E u \in Threads, d \in Classes :
         /\ u # t \/ d # c
         /\ \E i \in 1 .. Len(lists[u][d]) : lists[u][d][i] = b

\* A step that may change the list of blocks of size c of thread t, to p.
LEMMA OneListStep ==
  ASSUME NEW lists, AreLists(lists), NEW t \in Threads, NEW c \in Classes,
         DOMAIN size \subseteq DOMAIN size', NEW p \in Seq(DOMAIN size'),
         IsList(t, c, p)', NoRepeats(p), OthersKept(lists, t, c, p), NoneLost(lists, t, c, p)
  PROVE  \E new : AreLists(new)'
<1> DEFINE new == [lists EXCEPT ![t][c] = p]
<1>1. lists \in [Threads -> [Classes -> Seq(DOMAIN size)]]
  BY DEF AreLists
<1>2. lists \in [Threads -> [Classes -> Seq(DOMAIN size')]]
  <2>1. \A q \in Seq(DOMAIN size) : q \in Seq(DOMAIN size')
    BY SeqMonotonic
  <2>2. \A u \in Threads : lists[u] \in [Classes -> Seq(DOMAIN size')]
    BY <1>1, <2>1
  <2>3. QED
    BY <1>1, <2>2
<1>3. new \in [Threads -> [Classes -> Seq(DOMAIN size')]]
  BY <1>2
<1>4. new[t][c] = p /\ \A u \in Threads, d \in Classes : u # t \/ d # c => new[u][d] = lists[u][d]
  BY <1>2
<1> HIDE DEF new
<1>5. ASSUME NEW u \in Threads, NEW d \in Classes PROVE IsList(u, d, new[u][d])'
  <2>1. CASE u = t /\ d = c
    BY <2>1, <1>4
  <2>2. CASE u # t \/ d # c
    BY <2>2, <1>4 DEF OthersKept
  <2>3. QED
    BY <2>1, <2>2
<1>6. Once(new)
  <2> SUFFICES ASSUME NEW u \in Threads, NEW v \in Threads, NEW d \in Classes, NEW e \in Classes,
                      NEW i \in 1 .. Len(new[u][d]), NEW j \in 1 .. Len(new[v][e]),
                      new[u][d][i] = new[v][e][j]
               PROVE  u = v /\ d = e /\ i = j
    BY DEF Once
  <2>1. CASE (u = t /\ d = c) /\ (v = t /\ e = c)
    BY <2>1, <1>4 DEF NoRepeats
  <2>2. CASE (u = t /\ d = c) /\ ~(v = t /\ e = c)
    BY <2>2, <1>4 DEF OthersKept
  <2>3. CASE ~(u = t /\ d = c) /\ (v = t /\ e = c)
    BY <2>3, <1>4 DEF OthersKept
  <2>4. CASE ~(u = t /\ d = c) /\ ~(v = t /\ e = c)
    <3>1. new[u][d] = lists[u][d] /\ new[v][e] = lists[v][e]
      BY <2>4, <1>4
    <3>2. Once(lists)
      BY DEF AreLists
    <3>3. QED
      BY <3>1, <3>2 DEF Once
  <2>5. QED
    BY <2>1, <2>2, <2>3, <2>4
<1>7. ASSUME exits' = 0, NEW b \in DOMAIN size'
      PROVE  \/ b \in live'
             \/ \E u \in Threads, d \in Classes : \E i \in 1 .. Len(new[u][d]) : new[u][d][i] = b
  <2>1. CASE \E i \in 1 .. Len(p) : p[i] = b
    BY <2>1, <1>4
  <2>2. CASE \E u \in Threads, d \in Classes :
                /\ u # t \/ d # c
                /\ \E i \in 1 .. Len(lists[u][d]) : lists[u][d][i] = b
    <3>1. PICK u \in Threads, d \in Classes :
                /\ u # t \/ d # c
                /\ \E i \in 1 .. Len(lists[u][d]) : lists[u][d][i] = b
      BY <2>2
    <3>2. new[u][d] = lists[u][d]
      BY <3>1, <1>4
    <3>3. QED
      BY <3>1, <3>2
  <2>3. QED
    BY <2>1, <2>2, <1>7 DEF NoneLost
<1>8. AreLists(new)'
  BY <1>3, <1>5, <1>6, <1>7 DEF AreLists, Once
<1>9. QED
  BY <1>8

\* Get takes the first block of a list.
LEMMA GetLists ==
  ASSUME TypeOK, ListInv, NEW t \in Threads, Get(t)
  PROVE  ListInv' /\ head[t][Class(want[t])] \in DOMAIN size
<1>1. PICK lists : AreLists(lists)
  BY DEF ListInv
<1>2. PICK c \in Classes : c = Class(want[t]) /\ want[t] # 0
  BY WantedSize DEF Get, Calling
<1>3. PICK q \in Seq(DOMAIN size) : q = lists[t][c] /\ IsList(t, c, q)
  BY <1>1 DEF AreLists
<1>4. /\ head[t][c] # Null
      /\ head' = [head EXCEPT ![t][c] = IF @ = tail[t][c] THEN Null ELSE next[@]]
      /\ tail' = [tail EXCEPT ![t][c] = IF head[t][c] = @ THEN Null ELSE @]
      /\ live' = live \cup {head[t][c]}
      /\ UNCHANGED <<size, next, exits>>
  BY <1>2 DEF Get, TailAfterGet, Returns
<1>5. q # <<>> /\ head[t][c] = q[1] /\ tail[t][c] = q[Len(q)]
  BY <1>3, <1>4 DEF IsList
<1>6. PICK p \in Seq(DOMAIN size) : p = Tail(q)
  BY <1>5, HeadTailProperties
<1>20. PICK n \in Nat : n = Len(p)
  OBVIOUS
<1>7. n = Len(p) /\ Len(q) = n + 1 /\ \A i \in 1 .. n : p[i] = q[i + 1]
  <2>1. Len(p) = Len(q) - 1 /\ Len(q) \in Nat /\ \A i \in 1 .. Len(p) : p[i] = q[i + 1]
    BY <1>5, <1>6, HeadTailProperties
  <2>2. QED
    BY <2>1, <1>20
<1>8. /\ head'[t][c] = IF q[1] = q[n + 1] THEN Null ELSE next[q[1]]
      /\ tail'[t][c] = IF q[1] = q[n + 1] THEN Null ELSE q[n + 1]
      /\ \A u \in Threads, d \in Classes : u # t \/ d # c =>
           head'[u][d] = head[u][d] /\ tail'[u][d] = tail[u][d]
  BY <1>4, <1>5, <1>7 DEF TypeOK
<1>9. \A i, j \in 1 .. n + 1 : q[i] = q[j] => i = j
  BY <1>1, <1>3, <1>7 DEF AreLists, Once
<1>10. /\ next[q[n + 1]] = Null 
       /\ \A i \in 1 .. n : next[q[i]] = q[i + 1]
       /\ \A i \in 1 .. n + 1 : size[q[i]] = c /\ q[i] \notin live
  BY <1>3, <1>5, <1>7 DEF IsList
<1>11. IsList(t, c, p)'
  <2>1. p = <<>> <=> n = 0
    BY <1>7
  <2>2. CASE n = 0
    BY <2>1, <2>2, <1>7, <1>8 DEF IsList
  <2>3. CASE n # 0
    <3>1. 1 \in 1 .. n /\ n \in 1 .. n /\ n + 1 \in 1 .. n + 1 /\ 1 # n + 1 /\ 1 \in 1 .. n + 1
      BY <2>3
    <3>2. p[1] = q[1 + 1] /\ p[n] = q[n + 1] /\ q[1] # q[n + 1]
      BY <3>1, <1>7, <1>9
    <3>3. head'[t][c] = p[1] /\ tail'[t][c] = p[n] /\ next'[p[n]] = Null
      BY <3>1, <3>2, <1>4, <1>8, <1>10
    <3>4. ASSUME NEW i \in 1 .. n - 1 PROVE next'[p[i]] = p[i + 1]
      BY <1>4, <1>7, <1>10
    <3>5. ASSUME NEW i \in 1 .. n PROVE size'[p[i]] = c /\ p[i] \notin live'
      <4>1. i + 1 \in 1 .. n + 1 /\ p[i] = q[i + 1] /\ i + 1 # 1 /\ 1 \in 1 .. n + 1
        BY <1>7
      <4>2. q[i + 1] # q[1] /\ q[i + 1] \notin live /\ size[q[i + 1]] = c
        BY <4>1, <1>9, <1>10
      <4>3. QED
        BY <4>1, <4>2, <1>4, <1>5
    <3>6. QED
      BY <2>1, <2>3, <3>3, <3>4, <3>5, <1>7 DEF IsList
  <2>4. QED
    BY <2>2, <2>3
<1>12. ASSUME NEW u \in Threads, NEW d \in Classes, u # t \/ d # c
       PROVE  /\ IsList(u, d, lists[u][d])'
              /\ \A i \in 1 .. Len(p), j \in 1 .. Len(lists[u][d]) : p[i] # lists[u][d][j]
  <2>1. PICK r \in Seq(DOMAIN size) : r = lists[u][d] /\ IsList(u, d, r)
    BY <1>1 DEF AreLists
  <2>2. \A i \in 1 .. n + 1, j \in 1 .. Len(r) : q[i] # r[j]
    <3>1. \A i \in 1 .. Len(q), j \in 1 .. Len(r) : q[i] # r[j]
      BY <2>1, <1>1, <1>3, <1>12, ListsApart, SMTT(40)
    <3>2. QED
      BY <3>1, <1>7
  <2>3. 1 \in 1 .. n + 1 /\ \A i \in 1 .. n : i + 1 \in 1 .. n + 1
    OBVIOUS
  <2>4. \A j \in 1 .. Len(r) : q[1] # r[j]
    BY <2>2, <2>3
  <2>5. IsList(u, d, r)'
    BY <2>1, <2>4, <1>4, <1>5, <1>8, <1>12 DEF IsList
  <2>6. QED
    BY <2>1, <2>2, <2>3, <2>5, <1>7
<1>13. ASSUME exits' = 0, NEW b \in DOMAIN size'
       PROVE  \/ b \in live'
              \/ \E i \in 1 .. Len(p) : p[i] = b
              \/ \E u \in Threads, d \in Classes :
                   /\ u # t \/ d # c
                   /\ \E i \in 1 .. Len(lists[u][d]) : lists[u][d][i] = b
  <2>1. \/ b \in live
        \/ \E u \in Threads, d \in Classes : \E i \in 1 .. Len(lists[u][d]) : lists[u][d][i] = b
    BY <1>1, <1>4, <1>13 DEF AreLists
  <2>2. ASSUME NEW i \in 1 .. Len(q), q[i] = b 
        PROVE  b \in live' \/ \E j \in 1 .. Len(p) : p[j] = b
    <3>1. CASE i = 1
      BY <3>1, <2>2, <1>4, <1>5
    <3>2. CASE i # 1
      <4>1. i - 1 \in 1 .. n /\ (i - 1) + 1 = i
        BY <3>2, <1>7
      <4>2. p[i - 1] = b
        BY <4>1, <2>2, <1>7
      <4>3. QED
        BY <4>1, <4>2, <1>7
    <3>3. QED
      BY <3>1, <3>2
  <2>3. QED
    BY <2>1, <2>2, <1>3, <1>4
<1>14. \A i, j \in 1 .. Len(p) : p[i] = p[j] => i = j
  <2>1. \A i, j \in 1 .. n : q[i + 1] = q[j + 1] => i = j
    <3> SUFFICES ASSUME NEW i \in 1 .. n, NEW j \in 1 .. n, q[i + 1] = q[j + 1] PROVE i = j
      OBVIOUS
    <3>1. i + 1 = j + 1
      BY <1>9
    <3>2. QED
      BY <3>1
  <2>2. QED
    BY <2>1, <1>7
<1>15. \E new : AreLists(new)'
  <2>1. DOMAIN size \subseteq DOMAIN size' /\ p \in Seq(DOMAIN size')
    BY <1>4
  <2>2. OthersKept(lists, t, c, p)
    BY <1>12 DEF OthersKept
  <2>3. NoneLost(lists, t, c, p)
    BY <1>13 DEF NoneLost
  <2>4. NoRepeats(p)
    BY <1>14 DEF NoRepeats
  <2>5. QED
    BY <1>1, <2>1, <2>2, <2>3, <2>4, <1>11, OneListStep
<1>16. QED
  BY <1>2, <1>4, <1>5, <1>15 DEF ListInv

\* Free puts a block at the end of a list.
LEMMA FreeLists ==
  ASSUME TypeOK, ListInv, NEW t \in Threads, Free(t)
  PROVE  ListInv'
<1>1. PICK lists : AreLists(lists)
  BY DEF ListInv
<1>2. PICK b \in live : Free(t)!2!(b)
  BY DEF Free
<1>3. PICK c \in Classes : c = size[b] /\ b \in DOMAIN size
  BY DEF TypeOK
<1>4. /\ live' = live \ {b}
      /\ head' = [head EXCEPT ![t][c] = IF @ = Null THEN b ELSE @]
      /\ tail' = [tail EXCEPT ![t][c] = b]
      /\ next' = [a \in DOMAIN next |-> IF a = b THEN Null ELSE IF a = tail[t][c] THEN b ELSE next[a]]
      /\ UNCHANGED <<size, exits>> /\ DOMAIN next = DOMAIN size
  BY <1>2, <1>3 DEF Free, TypeOK
<1>5. PICK q \in Seq(DOMAIN size) : q = lists[t][c] /\ IsList(t, c, q)
  BY <1>1 DEF AreLists
<1>6. PICK n \in Nat : n = Len(q)
  OBVIOUS
<1>7. PICK p \in Seq(DOMAIN size) : p = Append(q, b)
  BY <1>3, AppendProperties
<1>8. Len(p) = n + 1 /\ p[n + 1] = b /\ \A i \in 1 .. n : p[i] = q[i]
  BY <1>3, <1>6, <1>7, AppendProperties
<1>9. /\ q # <<>> => /\ n # 0 /\ head[t][c] = q[1] /\ tail[t][c] = q[n]
      /\ q = <<>> => n = 0 /\ head[t][c] = Null /\ tail[t][c] = Null
      /\ \A i \in 1 .. n - 1 : next[q[i]] = q[i + 1]
      /\ \A i \in 1 .. n : size[q[i]] = c /\ q[i] \notin live /\ q[i] # b
  BY <1>5, <1>6 DEF IsList
<1>10. \A i, j \in 1 .. n : q[i] = q[j] => i = j
  BY <1>1, <1>5, <1>6 DEF AreLists, Once
<1>11. /\ head'[t][c] = IF head[t][c] = Null THEN b ELSE head[t][c]
       /\ tail'[t][c] = b
       /\ \A u \in Threads, d \in Classes : u # t \/ d # c =>
            head'[u][d] = head[u][d] /\ tail'[u][d] = tail[u][d]
  BY <1>4 DEF TypeOK
<1>12. Null \notin DOMAIN size
  BY NullAssumption DEF TypeOK, Addresses
<1>13. head'[t][c] = p[1]
  <2>1. CASE q = <<>>
    BY <2>1, <1>8, <1>9, <1>11
  <2>2. CASE q # <<>>
    <3>1. 1 \in 1 .. n /\ q[1] \in DOMAIN size
      BY <2>2, <1>6, <1>9
    <3>2. QED
      BY <2>2, <3>1, <1>8, <1>9, <1>11, <1>12
  <2>3. QED
    BY <2>1, <2>2
<1>14. IsList(t, c, p)'
  <2>1. p # <<>> /\ tail'[t][c] = p[Len(p)] /\ next'[p[Len(p)]] = Null
    BY <1>3, <1>4, <1>8, <1>11
  <2>2. ASSUME NEW i \in 1 .. n PROVE next'[p[i]] = p[i + 1]
    <3>1. p[i] = q[i] /\ q[i] # b /\ q[i] \in DOMAIN next /\ n # 0 /\ q # <<>>
      BY <1>4, <1>6, <1>8, <1>9
    <3>2. CASE i = n
      BY <3>1, <3>2, <1>4, <1>8, <1>9
    <3>3. CASE i # n
      <4>1. i \in 1 .. n - 1 /\ i + 1 \in 1 .. n /\ n \in 1 .. n
        BY <3>3
      <4>2. q[i] # tail[t][c]
        BY <3>1, <3>3, <4>1, <1>9, <1>10
      <4>3. next'[q[i]] = next[q[i]]
        BY <3>1, <4>2, <1>4
      <4>4. QED
        BY <3>1, <4>1, <4>3, <1>8, <1>9
    <3>4. QED
      BY <3>2, <3>3
  <2>3. ASSUME NEW i \in 1 .. n + 1 PROVE size'[p[i]] = c /\ p[i] \notin live'
    <3>1. CASE i = n + 1
      BY <3>1, <1>3, <1>4, <1>8
    <3>2. CASE i # n + 1
      <4>1. i \in 1 .. n
        BY <3>2
      <4>2. QED
        BY <4>1, <1>4, <1>8, <1>9
    <3>3. QED
      BY <3>1, <3>2
  <2>4. Len(p) - 1 = n
    BY <1>8
  <2>5. QED
    BY <2>1, <2>2, <2>3, <2>4, <1>8, <1>13 DEF IsList
<1>15. ASSUME NEW u \in Threads, NEW d \in Classes, u # t \/ d # c
       PROVE  /\ IsList(u, d, lists[u][d])'
              /\ \A i \in 1 .. Len(p), j \in 1 .. Len(lists[u][d]) : p[i] # lists[u][d][j]
  <2>1. PICK r \in Seq(DOMAIN size) : r = lists[u][d] /\ IsList(u, d, r)
    BY <1>1 DEF AreLists
  <2>2. \A i \in 1 .. n, j \in 1 .. Len(r) : q[i] # r[j]
    <3>1. \A i \in 1 .. Len(q), j \in 1 .. Len(r) : q[i] # r[j]
      BY <2>1, <1>1, <1>5, <1>15, ListsApart
    <3>2. QED
      BY <3>1, <1>6
  <2>3. \A j \in 1 .. Len(r) : r[j] \in DOMAIN size /\ r[j] # b /\ r[j] # tail[t][c]
    <3> SUFFICES ASSUME NEW j \in 1 .. Len(r)
                 PROVE  r[j] \in DOMAIN size /\ r[j] # b /\ r[j] # tail[t][c]
      OBVIOUS
    <3>1. r[j] \in DOMAIN size /\ r[j] # b
      BY <2>1 DEF IsList
    <3>2. CASE q = <<>>
      BY <3>1, <3>2, <1>9, <1>12
    <3>3. CASE q # <<>>
      <4>1. n \in 1 .. n
        BY <3>3, <1>9
      <4>2. QED
        BY <3>1, <3>3, <4>1, <2>2, <1>9
    <3>4. QED
      BY <3>2, <3>3
  <2>4. \A j \in 1 .. Len(r) : next'[r[j]] = next[r[j]] /\ r[j] \notin live'
    BY <2>1, <2>3, <1>4 DEF IsList
  <2>5. IsList(u, d, r)'
    <3>1. r # <<>> => Len(r) \in 1 .. Len(r)
      OBVIOUS
    <3>2. \A i \in 1 .. Len(r) - 1 : i \in 1 .. Len(r)
      OBVIOUS
    <3>3. QED
      BY <2>1, <2>4, <3>1, <3>2, <1>4, <1>11, <1>15, SMTT(40) DEF IsList
  <2>6. ASSUME NEW i \in 1 .. n + 1, NEW j \in 1 .. Len(r) PROVE p[i] # r[j]
    <3>1. CASE i = n + 1
      BY <3>1, <2>3, <1>8
    <3>2. CASE i # n + 1
      <4>1. i \in 1 .. n
        BY <3>2
      <4>2. QED
        BY <4>1, <2>2, <1>8
    <3>3. QED
      BY <3>1, <3>2
  <2>7. QED
    BY <2>1, <2>5, <2>6, <1>8
<1>16. ASSUME exits' = 0, NEW x \in DOMAIN size'
       PROVE  \/ x \in live'
              \/ \E i \in 1 .. Len(p) : p[i] = x
              \/ \E u \in Threads, d \in Classes :
                   /\ u # t \/ d # c
                   /\ \E i \in 1 .. Len(lists[u][d]) : lists[u][d][i] = x
  <2>1. \/ x \in live
        \/ \E u \in Threads, d \in Classes : \E i \in 1 .. Len(lists[u][d]) : lists[u][d][i] = x
    BY <1>1, <1>4, <1>16 DEF AreLists
  <2>2. ASSUME NEW i \in 1 .. Len(q), q[i] = x PROVE \E j \in 1 .. Len(p) : p[j] = x
    <3>1. i \in 1 .. n /\ i \in 1 .. n + 1
      BY <1>6
    <3>2. QED
      BY <3>1, <2>2, <1>8
  <2>3. ASSUME x = b PROVE \E j \in 1 .. Len(p) : p[j] = x
    <3>1. n + 1 \in 1 .. Len(p)
      BY <1>8
    <3>2. QED
      BY <2>3, <3>1, <1>8
  <2>4. QED
    BY <2>1, <2>2, <2>3, <1>4, <1>5
<1>17. \A i, j \in 1 .. Len(p) : p[i] = p[j] => i = j
  <2> SUFFICES ASSUME NEW i \in 1 .. n + 1, NEW j \in 1 .. n + 1, p[i] = p[j] PROVE i = j
    BY <1>8
  <2>1. CASE i \in 1 .. n /\ j \in 1 .. n
    BY <2>1, <1>8, <1>10
  <2>2. CASE i \in 1 .. n /\ j = n + 1
    BY <2>2, <1>8, <1>9
  <2>3. CASE i = n + 1 /\ j \in 1 .. n
    BY <2>3, <1>8, <1>9
  <2>4. CASE i = n + 1 /\ j = n + 1
    BY <2>4
  <2>5. (i \in 1 .. n \/ i = n + 1) /\ (j \in 1 .. n \/ j = n + 1)
    OBVIOUS
  <2>6. QED
    BY <2>1, <2>2, <2>3, <2>4, <2>5
<1>18. \E new : AreLists(new)'
  <2>1. DOMAIN size \subseteq DOMAIN size' /\ p \in Seq(DOMAIN size')
    BY <1>4
  <2>2. OthersKept(lists, t, c, p)
    BY <1>15 DEF OthersKept
  <2>3. NoneLost(lists, t, c, p)
    BY <1>16 DEF NoneLost
  <2>4. NoRepeats(p)
    BY <1>17 DEF NoRepeats
  <2>5. QED
    BY <1>1, <2>1, <2>2, <2>3, <2>4, <1>14, OneListStep
<1>19. QED
  BY <1>4, <1>18 DEF ListInv

\* Cut gives a new block to the caller.
LEMMA CutLists ==
  ASSUME MemoryInv, ListInv, NEW t \in Threads, Cut(t)
  PROVE  ListInv'
<1>1. PICK lists : AreLists(lists)
  BY DEF ListInv
<1>2. PICK b \in Addresses :
        /\ b = At(slab[t].memory, slab[t].allocated) /\ b \notin DOMAIN size
        /\ DOMAIN size' = DOMAIN size \cup {b}
        /\ \A x \in DOMAIN size : size'[x] = size[x]
  BY CutBlock
<1>3. /\ head' = head /\ tail' = tail /\ exits' = exits /\ live' = live \cup {b}
      /\ next' = Extend(next, b, Null) /\ DOMAIN next = DOMAIN size
  BY <1>2 DEF Cut, Returns, MemoryInv, TypeOK
<1>4. \A x \in DOMAIN size : next'[x] = next[x]
  BY <1>2, <1>3 DEF Extend
<1>5. IsFiniteSet(DOMAIN size')
  BY <1>2, FS_AddElement DEF ListInv
<1>6. ASSUME NEW u \in Threads, NEW d \in Classes
      PROVE  IsList(u, d, lists[u][d])' /\ lists[u][d] \in Seq(DOMAIN size')
  <2>1. PICK r \in Seq(DOMAIN size) : r = lists[u][d] /\ IsList(u, d, r)
    BY <1>1 DEF AreLists
  <2>2. \A j \in 1 .. Len(r) : r[j] \in DOMAIN size /\ r[j] # b
    BY <1>2
  <2>3. \A j \in 1 .. Len(r) : next'[r[j]] = next[r[j]] /\ size'[r[j]] = size[r[j]]
    BY <2>2, <1>2, <1>4
  <2>4. (r # <<>> => Len(r) \in 1 .. Len(r)) /\ \A i \in 1 .. Len(r) - 1 : i \in 1 .. Len(r)
    OBVIOUS
  <2>5. IsList(u, d, r)'
    BY <2>1, <2>2, <2>3, <2>4, <1>3 DEF IsList
  <2>6. r \in Seq(DOMAIN size')
    BY <1>2, SeqMonotonic
  <2>7. QED
    BY <2>1, <2>5, <2>6
<1>7. lists \in [Threads -> [Classes -> Seq(DOMAIN size')]]
  <2>1. lists \in [Threads -> [Classes -> Seq(DOMAIN size)]]
    BY <1>1 DEF AreLists
  <2>2. \A u \in Threads : lists[u] \in [Classes -> Seq(DOMAIN size')]
    BY <2>1, <1>6
  <2>3. QED
    BY <2>1, <2>2
<1>8. AreLists(lists)'
  BY <1>1, <1>2, <1>3, <1>6, <1>7 DEF AreLists, Once
<1>9. QED
  BY <1>5, <1>8 DEF ListInv

\* A thread that ends takes its lists with it.
LEMMA ExitLists ==
  ASSUME TypeOK, ListInv, NEW t \in Threads, ExitThread(t)
  PROVE  ListInv'
<1>1. PICK lists : AreLists(lists)
  BY DEF ListInv
<1>2. /\ head' = [head EXCEPT ![t] = NoBlocks] /\ tail' = [tail EXCEPT ![t] = NoBlocks]
      /\ UNCHANGED <<size, next, live>> /\ exits' = exits + 1
  BY DEF ExitThread
<1> DEFINE new == [lists EXCEPT ![t] = [c \in Classes |-> <<>>]]
<1>3. lists \in [Threads -> [Classes -> Seq(DOMAIN size)]]
  BY <1>1 DEF AreLists
<1>4. new \in [Threads -> [Classes -> Seq(DOMAIN size)]]
  BY <1>3
<1>5. (\A c \in Classes : new[t][c] = <<>>) /\ \A u \in Threads \ {t} : new[u] = lists[u]
  BY <1>3
<1> HIDE DEF new
<1>6. ASSUME NEW u \in Threads, NEW c \in Classes PROVE IsList(u, c, new[u][c])'
  <2>1. PICK r \in Seq(DOMAIN size) : r = new[u][c]
    BY <1>4
  <2>2. CASE u = t
    <3>1. r = <<>> /\ head'[u][c] = Null /\ tail'[u][c] = Null
      BY <2>1, <2>2, <1>2, <1>5 DEF TypeOK, NoBlocks
    <3>2. QED
      BY <3>1, <2>1 DEF IsList
  <2>3. CASE u # t
    <3>1. IsList(u, c, r) /\ head'[u][c] = head[u][c] /\ tail'[u][c] = tail[u][c]
      BY <2>1, <2>3, <1>1, <1>2, <1>5 DEF TypeOK, AreLists
    <3>2. QED
      BY <3>1, <2>1, <1>2 DEF IsList
  <2>4. QED
    BY <2>2, <2>3
<1>7. Once(new)
  <2> SUFFICES ASSUME NEW u \in Threads, NEW v \in Threads, NEW d \in Classes, NEW e \in Classes,
                      NEW i \in 1 .. Len(new[u][d]), NEW j \in 1 .. Len(new[v][e]),
                      new[u][d][i] = new[v][e][j]
               PROVE  u = v /\ d = e /\ i = j
    BY DEF Once
  <2>1. u # t /\ v # t
    BY <1>5
  <2>2. new[u][d] = lists[u][d] /\ new[v][e] = lists[v][e] /\ Once(lists)
    BY <2>1, <1>1, <1>5 DEF AreLists
  <2>3. QED
    BY <2>2 DEF Once
<1>8. exits' # 0
  BY <1>2 DEF TypeOK
<1>9. AreLists(new)'
  BY <1>2, <1>4, <1>6, <1>7, <1>8 DEF AreLists, Once
<1>10. QED
  BY <1>2, <1>9 DEF ListInv

-----------------------------------------------------------------------------
(***************************************************************************)
(* The theorems.                                                           *)
(***************************************************************************)
AllocatorInv == MemoryInv /\ ListInv

\* Steps that leave the lists alone.
LEMMA SameLists ==
  ASSUME ListInv, UNCHANGED <<head, tail, size, next, live, exits>>
  PROVE  ListInv'
  BY DEF ListInv, AreLists, IsList, Once

\* Every step keeps the invariant.
LEMMA AllocatorStep == AllocatorInv /\ [Next]_vars => AllocatorInv'
<1> SUFFICES ASSUME AllocatorInv, [Next]_vars PROVE AllocatorInv'
  OBVIOUS
<1> USE DEF AllocatorInv
<1>0. TypeOK
  BY DEF MemoryInv
<1>1. ASSUME NEW t \in Threads, Allocate(t) PROVE AllocatorInv'
  <2>1. ListInv'
    BY <1>1, SameLists DEF Allocate, listVars
  <2>2. QED
    BY <1>1, <2>1, AllocateMemory
<1>2. ASSUME NEW t \in Threads, Get(t) PROVE AllocatorInv'
  BY <1>0, <1>2, GetLists, GetMemory
<1>3. ASSUME NEW t \in Threads, Cut(t) PROVE AllocatorInv'
  BY <1>3, CutLists, CutMemory
<1>4. ASSUME NEW t \in Threads, TakeSlab(t) PROVE AllocatorInv'
  <2>1. ListInv'
    BY <1>4, SameLists DEF TakeSlab, listVars
  <2>2. QED
    BY <1>4, <2>1, TakeSlabMemory
<1>5. ASSUME NEW t \in Threads, Free(t) PROVE AllocatorInv'
  BY <1>0, <1>5, FreeLists, FreeMemory
<1>6. ASSUME NEW t \in Threads, ExitThread(t) PROVE AllocatorInv'
  BY <1>0, <1>6, ExitLists, ExitMemory
<1>7. CASE UNCHANGED vars
  <2>1. ListInv'
    BY <1>7, SameLists DEF vars, listVars
  <2>2. TypeOK'
    BY <1>0, <1>7 DEF vars, listVars, TypeOK
  <2>3. MemoryInv'
    <3>1. Quiet /\ want' = want /\ head' = head
      BY <1>7 DEF vars, listVars, Quiet
    <3>2. QED
      BY <2>2, <3>1, QuietStep DEF MemoryInv, UsedInv
  <2>4. QED
    BY <2>1, <2>3
<1>8. QED
  BY <1>1, <1>2, <1>3, <1>4, <1>5, <1>6, <1>7 DEF Next

\* The whole invariant is inductive: types, the geometry of slabs and blocks,
\* the use of slabs, and the shape of the free lists.
THEOREM AllocatorInvariant == Spec => []AllocatorInv
<1>1. Init => AllocatorInv
  BY InitMemory, InitLists DEF AllocatorInv
<1>2. QED
  BY <1>1, AllocatorStep, PTL DEF Spec

\* Blocks that end where others start, or before, have no byte in common.
LEMMA ApartMeansDisjoint ==
  ASSUME TypeOK, BlockInv, NEW b \in DOMAIN size, NEW c \in DOMAIN size, b # c
  PROVE  Bytes(b) \cap Bytes(c) = {}
<1> SUFFICES ASSUME NEW x, x \in Bytes(b), x \in Bytes(c) PROVE FALSE
  OBVIOUS
<1>1. PICK i \in b[2] .. b[2] + kCacheLineSize + size[b] - 1 : x = <<b[1], i>>
  BY DEF Bytes
<1>2. PICK j \in c[2] .. c[2] + kCacheLineSize + size[c] - 1 : x = <<c[1], j>>
  BY DEF Bytes
<1>3. b[1] = c[1] /\ i = j
  BY <1>1, <1>2
<1>4. End(b) <= c[2] \/ End(c) <= b[2]
  BY <1>3 DEF BlockInv
<1>5. /\ b[2] \in Nat /\ size[b] \in Nat /\ End(b) = b[2] + kCacheLineSize + size[b]
      /\ c[2] \in Nat /\ size[c] \in Nat /\ End(c) = c[2] + kCacheLineSize + size[c]
  BY BlockParts DEF End
<1>6. b[2] <= i /\ i < End(b) /\ c[2] <= i /\ i < End(c) /\ i \in Nat
  BY <1>3, <1>5, Positive
<1>7. QED
  BY <1>4, <1>5, <1>6, Positive

\* No two blocks that TlsAllocate has cut share memory, and all are within the
\* memory of their node.
THEOREM DisjointBlocks == Spec => []BlocksAreDisjoint
<1>1. AllocatorInv => BlocksAreDisjoint
  <2> SUFFICES ASSUME AllocatorInv PROVE BlocksAreDisjoint
    OBVIOUS
  <2>1. TypeOK /\ BlockInv /\ CountInv
    BY DEF AllocatorInv, MemoryInv
  <2>2. QED
    BY <2>1, ApartMeansDisjoint DEF BlocksAreDisjoint, BlockInv, CountInv, End
<1>2. QED
  BY <1>1, AllocatorInvariant, PTL

\* A block is with its caller or once in one free list (BlockList), or was lost
\* with a thread; every list leads from its head to its tail.
THEOREM BlocksInOnePlace == Spec => []BlocksAreInOnePlace
<1>1. AllocatorInv => BlocksAreInOnePlace
  BY ListsAreOnePlace DEF AllocatorInv, MemoryInv
<1>2. QED
  BY <1>1, AllocatorInvariant, PTL

\* Slab::Allocate takes one slab at most for a call, and never skips one.
THEOREM UsedSlabs == Spec => []SlabsAreUsed
<1>1. AllocatorInv => SlabsAreUsed
  <2> SUFFICES ASSUME AllocatorInv, ~aborted, NEW i \in Nodes, NEW k \in SlabStarts(i)
               PROVE  \/ \E b \in DOMAIN size : b[1] = i /\ b[2] \in k .. k + kSlabSize - 1
                      \/ \E t \in Threads : Calling(t) /\ slab[t] = [memory |-> <<i, k>>, allocated |-> 0]
    BY DEF SlabsAreUsed
  <2>1. TypeOK /\ UsedInv
    BY DEF AllocatorInv, MemoryInv
  <2>2. k \in Nat /\ k < numa_allocated[i] /\ k % kSlabSize = 0
    <3>1. numa_allocated[i] \in Nat
      BY <2>1 DEF TypeOK
    <3>2. QED
      BY <3>1 DEF SlabStarts
  <2>3. PICK q \in Nat : k = q * kSlabSize
    <3>1. PICK q \in Nat : q = k \div kSlabSize /\ k = q * kSlabSize + (k % kSlabSize)
      BY <2>2, DivMod, Positive
    <3>2. q * kSlabSize \in Nat
      BY Positive
    <3>3. QED
      BY <3>1, <3>2, <2>2
  <2>4. \/ \E b \in DOMAIN size : b[1] = i /\ b[2] \in k .. k + kSlabSize - 1
        \/ \E t \in Threads : slab[t] = [memory |-> <<i, k>>, allocated |-> 0]
    BY <2>1, <2>2, <2>3 DEF UsedInv
  <2>5. ASSUME NEW t \in Threads, slab[t] = [memory |-> <<i, k>>, allocated |-> 0] PROVE Calling(t)
    <3>1. <<i, k>> # Null
      BY <2>2, NullAssumption
    <3>2. HasSlab(t) /\ slab[t].allocated = 0
      BY <2>5, <3>1 DEF HasSlab
    <3>3. QED
      BY <3>2, <2>1 DEF UsedInv, Calling
  <2>6. QED
    BY <2>4, <2>5
<1>2. QED
  BY <1>1, AllocatorInvariant, PTL
=============================================================================
