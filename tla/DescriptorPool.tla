--------------------------- MODULE DescriptorPool ---------------------------
(***************************************************************************)
(* DescriptorPool and the life of a Descriptor (src/mwcas): allocation     *)
(* from the partition of the thread, the entries and their memory, MwCAS   *)
(* or Abort, retirement to the garbage list of the partition, recycling.   *)
(*                                                                         *)
(* How an operation is decided is VolatileMwCAS's and PersistentMwCAS's    *)
(* subject: here whoever has reached an undecided descriptor may take any  *)
(* of the steps that the algorithm makes on its words, in any order.  What *)
(* matters is who can still reach a descriptor when it is recycled.        *)
(***************************************************************************)
EXTENDS ThreadTls, GarbageListUnsafe, SequencesExt

CONSTANTS
  Words,       \* target addresses
  Blocks,      \* memory that values point to
  Reserved,    \* kNewValueReserved
  Policies,    \* [Threads -> SUBSET recycle policies]: what callers use
  DescCap,     \* DESC_CAP
  PoolSize,    \* requested_pool_size
  PartitionCount,  \* requested_partition_count
  Does,        \* [Threads -> SUBSET {"allocate", "reserve", "abort"}]:
               \* what the caller does besides MwCAS
  MaxOps,      \* [Threads -> Nat]: bound on the operations of a thread
  MaxPerRegion,    \* operations that callers make in one protected region
  MaxPools     \* bound on the pools that follow one another

\* The constructor rounds both up to powers of 2, the partitions to 512 at most.
RoundUp(n) == Min({k \in {2 ^ e : e \in 0 .. 30} : k >= n})
pool_size == RoundUp(PoolSize)
partition_count == RoundUp(Min({PartitionCount, 512}))

ASSUME PoolAssumption ==
  /\ Users = Threads
  /\ Partitions = 0 .. partition_count - 1
  /\ ItemCount = pool_size \div partition_count
  /\ pool_size > partition_count      \* RAW_CHECK in InitDescriptors
  /\ partition_count \in Nat \ {0} /\ ItemCount \in Nat \ {0}
  /\ ItemCount = 2 \/ ItemCount % 4 = 0
\* Partitions are not locked, so callers ask for one for each of their threads.
\* Push bumps the epoch at every quarter of the ring only, so that up to a
\* quarter of it may bear the epoch in which a thread enters its region.
ASSUME CallersAssumption ==
  /\ Cardinality(Threads \ {Main}) <= partition_count
  /\ MaxPerRegion \in Nat /\ 4 * MaxPerRegion <= 3 * ItemCount
  /\ MaxOps \in [Threads -> Nat] /\ MaxPools \in Nat \ {0}

VARIABLES
  pool,            \* the number of the pool
  next_partition,  \* next_partition_ (modulo partition_count)
  free_list,       \* [Partitions -> sequence of descriptors]
  desc,            \* [Descs -> [status, entries]]
  word,            \* [Words -> content]
  mem,             \* the blocks that are allocated
  pc, own,         \* where each thread is, and the descriptor it allocated
  reached, todo,   \* [Threads -> SUBSET Descs], [Threads -> SUBSET (Descs \X Words)]:
                   \* operations it is working on, and their words it has not tried
  cond,            \* [Threads -> [addr, d, to] or NoItem]: the CondCAS it is in
  ops, region      \* [Threads -> Nat]: operations left, and made in the region

descVars == <<free_list, desc, word, mem>>
opVars == <<pc, own, reached, todo, cond, ops, region>>
vars == <<tlsVars, epochVars, ringVars, pool, next_partition, descVars, opVars>>

\* A descriptor is named by its partition and its place in it.
Descs == Partitions \X Slots
Owner(d) == d[1]

Content == [kind : {"value"}, of : Blocks] \cup [kind : {"mwcas", "condcas"}, of : Descs]
CondCASes == [addr : Words, d : Descs, to : Content \cup {NoItem}]
EntrySet == [addr : Words, old : Blocks, new : Blocks \cup {Reserved},
             policy : UNION {Policies[t] : t \in Threads}]

ASSUME NamesAssumption ==
  /\ NoItem \notin Descs /\ NoItem \notin CondCASes /\ NoItem \notin Content
  /\ NoPart \notin [pool : 1 .. MaxPools, part : Partitions]
  /\ Injection(Words, Blocks) # {} /\ Reserved \notin Blocks

Plain(b) == [kind |-> "value", of |-> b]
Installed(d) == [kind |-> "mwcas", of |-> d]
Conditional(d) == [kind |-> "condcas", of |-> d]

Initialize == [status |-> "kStatusFinished", entries |-> <<>>]
DescsOf(p) == [s \in 1 .. ItemCount |-> <<p, ItemCount - s>>]

PoolInit ==
  /\ next_partition = 0
  /\ free_list = [p \in Partitions |-> DescsOf(p)]
  /\ desc = [d \in Descs |-> Initialize]

Init ==
  /\ TlsInit
  /\ ListInit
  /\ PoolInit
  /\ pool = 1
  /\ LET f == CHOOSE g \in Injection(Words, Blocks) : TRUE
     IN  /\ word = [a \in Words |-> Plain(f[a])]
         /\ mem = {f[a] : a \in Words}
  /\ pc = [t \in Threads |-> "idle"]
  /\ own = [t \in Threads |-> NoItem]
  /\ reached = [t \in Threads |-> {}]
  /\ todo = [t \in Threads |-> {}]
  /\ cond = [t \in Threads |-> NoItem]
  /\ ops = MaxOps
  /\ region = [t \in Threads |-> 0]

Put(f, t, v) == [f EXCEPT ![t] = v]
Part(t) == tls_part[id[t]].part
Protected(t) == local[t] # 0
\* Callers let the main thread work before the workers start, and with the
\* next pool once they are gone.
Turn(t) ==
  /\ Running(t)
  /\ t = Main => LET l == IF pool = 1 THEN "new" ELSE "destroyed"
                 IN  \A u \in Threads \ {Main} : life[u] = l

\* It reads or helps: outside of an operation, or in the installation of its own.
Working(t) == Protected(t) /\ Turn(t) /\ pc[t] \in {"idle", "run"} /\ cond[t] = NoItem
Idle(t) == pc[t] = "idle" /\ ~Protected(t)
Undecided(d) == desc[d].status = "kStatusUndecided"

-----------------------------------------------------------------------------
\* The protected region of the pool's epoch manager.
Enter(t) ==
  /\ Turn(t) /\ ~Protected(t) /\ ops[t] > 0
  /\ Protect(t)
  /\ UNCHANGED <<tlsVars, ringVars, pool, next_partition, descVars, opVars>>

Leave(t) ==
  /\ Turn(t) /\ Protected(t) /\ pc[t] = "idle" /\ reached[t] = {} /\ cond[t] = NoItem
  /\ Unprotect(t)
  /\ region' = Put(region, t, 0)
  /\ UNCHANGED <<tlsVars, ringVars, pool, next_partition, descVars, pc, own, reached, todo, cond, ops>>

\* AllocateDescriptor: the first time, a thread is given a partition.
BeginAllocate(t) ==
  /\ Turn(t) /\ Protected(t) /\ pc[t] = "idle"
  /\ ops[t] > 0 /\ region[t] < MaxPerRegion
  /\ pc' = Put(pc, t, "allocate")
  /\ ops' = [ops EXCEPT ![t] = @ - 1]
  /\ region' = [region EXCEPT ![t] = @ + 1]
  /\ \/ /\ tls_part[id[t]] = NoPart
        /\ AssignTls(t, [pool |-> pool, part |-> next_partition])
        /\ next_partition' = (next_partition + 1) % partition_count
     \/ /\ tls_part[id[t]] # NoPart
        /\ UNCHANGED <<tlsVars, next_partition>>
  /\ UNCHANGED <<epochVars, ringVars, pool, descVars, own, reached, todo, cond>>

TakeDescriptor(t) ==
  LET p == Part(t)
  IN  /\ pc[t] = "allocate"
      /\ free_list[p] # <<>>
      /\ own' = Put(own, t, Head(free_list[p]))
      /\ free_list' = Put(free_list, p, Tail(free_list[p]))
      /\ pc' = Put(pc, t, "fill")
      /\ UNCHANGED <<tlsVars, epochVars, ringVars, pool, next_partition, desc, word, mem,
                     reached, todo, cond, ops, region>>

-----------------------------------------------------------------------------
\* DeallocateMemory: what is freed with a descriptor.
Succeeded(d) == desc[d].status = "kStatusSucceeded"
FreedOf(d, e) ==
  CASE e.policy = "kRecycleAlways"       -> IF Succeeded(d) THEN e.old ELSE e.new
    [] e.policy = "kRecycleOldOnSuccess" -> IF Succeeded(d) THEN e.old ELSE Reserved
    [] e.policy = "kRecycleNewOnFailure" -> IF Succeeded(d) THEN Reserved ELSE e.new
    [] OTHER                             -> Reserved

Entries(d) == ToSet(desc[d].entries)
DeallocateMemory(d) == {FreedOf(d, e) : e \in Entries(d)} \ {Reserved}
\* FreeDescriptor for each descriptor of ds, in order.
FreeDescriptors(p, ds) ==
  /\ mem' = mem \ UNION {DeallocateMemory(d) : d \in ToSet(ds)}
  /\ desc' = [d \in Descs |-> IF d \in ToSet(ds) THEN Initialize ELSE desc[d]]
  /\ free_list' = Put(free_list, p, Reverse(ds) \o free_list[p])

\* The free list is empty: bump the epoch and scavenge.
ScavengeDescriptors(t) ==
  LET p == Part(t)
      s == SafeAfterBump
  IN  /\ pc[t] = "allocate"
      /\ free_list[p] = <<>>
      /\ current' = Bumped
      /\ safe' = s
      /\ ring' = AfterScavenge(p, s)
      /\ FreeDescriptors(p, Scavenged(p, s))
      /\ UNCHANGED <<tlsVars, local, tail, stamp, pool, next_partition, word, opVars>>

-----------------------------------------------------------------------------
\* AddEntry and its variants.  The caller has read the old value in this region;
\* an address is added once (GetInsertPosition).
CanAdd(t, a) ==
  /\ pc[t] = "fill"
  /\ Len(desc[own[t]].entries) < DescCap
  /\ \A e \in Entries(own[t]) : e.addr # a
  /\ word[a].kind = "value"

\* The allocator returns some block that is free, and one as good as another.
NewBlock == CHOOSE b \in Blocks : b \notin mem

Entry(a, new, policy) == [addr |-> a, old |-> word[a].of, new |-> new, policy |-> policy]

AddEntry(t, a, new, policy) ==
  /\ CanAdd(t, a)
  /\ desc' = [desc EXCEPT ![own[t]].entries = Append(@, Entry(a, new, policy))]
  /\ UNCHANGED <<tlsVars, epochVars, ringVars, pool, next_partition, free_list, word,
                 pc, own, reached, todo, cond, ops, region>>

AllocateAndAddEntry(t) ==
  /\ "allocate" \in Does[t] /\ mem # Blocks
  /\ \E a \in Words, policy \in Policies[t] : AddEntry(t, a, NewBlock, policy)
  /\ mem' = mem \cup {NewBlock}

ReserveAndAddEntry(t) ==
  /\ "reserve" \in Does[t]
  /\ \E a \in Words, policy \in Policies[t] : AddEntry(t, a, Reserved, policy)
  /\ UNCHANGED mem

\* The caller stores through GetNewValuePtr.
FillReserved(t) ==
  /\ pc[t] = "fill"
  /\ mem # Blocks
  /\ \E i \in DOMAIN desc[own[t]].entries :
       /\ desc[own[t]].entries[i].new = Reserved
       /\ desc' = [desc EXCEPT ![own[t]].entries[i].new = NewBlock]
  /\ mem' = mem \cup {NewBlock}
  /\ UNCHANGED <<tlsVars, epochVars, ringVars, pool, next_partition, free_list, word,
                 opVars>>

\* MwCAS(): the operation starts.
StartMwCAS(t) ==
  /\ pc[t] = "fill"
  /\ Entries(own[t]) # {}
  /\ \A e \in Entries(own[t]) : e.new # Reserved
  /\ desc' = [desc EXCEPT ![own[t]].status = "kStatusUndecided"]
  /\ reached' = [reached EXCEPT ![t] = @ \cup {own[t]}]
  /\ todo' = [todo EXCEPT ![t] = @ \cup {<<own[t], e.addr>> : e \in Entries(own[t])}]
  /\ pc' = Put(pc, t, "run")
  /\ UNCHANGED <<tlsVars, epochVars, ringVars, pool, next_partition, free_list, word, mem,
                 own, cond, ops, region>>

\* Abort(): the descriptor is retired unused.
Abort(t) ==
  /\ pc[t] = "fill" /\ "abort" \in Does[t]
  /\ desc' = [desc EXCEPT ![own[t]].status = "kStatusFailed"]
  /\ stamp' = Put(stamp, t, current)
  /\ pc' = Put(pc, t, "push")
  /\ UNCHANGED <<tlsVars, epochVars, ring, tail, pool, next_partition, free_list, word, mem,
                 own, reached, todo, cond, ops, region>>

-----------------------------------------------------------------------------
\* What a thread does to the words of an operation it works on.  CondCAS puts
\* its pointer, then looks at the status, then replaces the pointer; a thread
\* tries each word once.
Outcome(d, a) ==
  IF Undecided(d) THEN Installed(d) ELSE Plain((CHOOSE e \in Entries(d) : e.addr = a).old)

PutConditional(t) ==
  /\ cond[t] = NoItem
  /\ \E d \in reached[t] : \E e \in Entries(d) :
       /\ <<d, e.addr>> \in todo[t]
       /\ word[e.addr] = Plain(e.old)
       /\ word' = Put(word, e.addr, Conditional(d))
       /\ todo' = [todo EXCEPT ![t] = @ \ {<<d, e.addr>>}]
       /\ cond' = Put(cond, t, [addr |-> e.addr, d |-> d, to |-> NoItem])
  /\ UNCHANGED <<tlsVars, epochVars, ringVars, pool, next_partition, free_list, desc, mem,
                 pc, own, reached, ops, region>>

LookAtStatus(t) ==
  /\ cond[t] # NoItem /\ cond[t].to = NoItem
  /\ cond' = [cond EXCEPT ![t].to = Outcome(cond[t].d, cond[t].addr)]
  /\ UNCHANGED <<tlsVars, epochVars, ringVars, pool, next_partition, descVars, pc, own, reached,
                 todo, ops, region>>

\* Whoever meets the pointer of another does the same.
MeetConditional(t) ==
  /\ Working(t)
  /\ \E a \in Words :
       /\ word[a].kind = "condcas"
       /\ cond' = Put(cond, t, [addr |-> a, d |-> word[a].of, to |-> Outcome(word[a].of, a)])
  /\ UNCHANGED <<tlsVars, epochVars, ringVars, pool, next_partition, descVars, pc, own, reached,
                 todo, ops, region>>

ReplaceConditional(t) ==
  /\ cond[t] # NoItem /\ cond[t].to # NoItem
  /\ word' = IF word[cond[t].addr] = Conditional(cond[t].d)
             THEN Put(word, cond[t].addr, cond[t].to) ELSE word
  /\ cond' = Put(cond, t, NoItem)
  /\ UNCHANGED <<tlsVars, epochVars, ringVars, pool, next_partition, free_list, desc, mem,
                 pc, own, reached, todo, ops, region>>

\* A descriptor pointer is met: help, unless the operation is decided.
StartsOn(t, d) ==
  /\ reached' = [reached EXCEPT ![t] = @ \cup {d}]
  /\ todo' = [todo EXCEPT ![t] = @ \cup {<<d, e.addr>> : e \in Entries(d)}]

ReachDescriptor(t) ==
  /\ Working(t)
  /\ \E a \in Words :
       /\ word[a].kind = "mwcas"
       /\ Undecided(word[a].of)
       /\ word[a].of \notin reached[t]
       /\ StartsOn(t, word[a].of)
  /\ UNCHANGED <<tlsVars, epochVars, ringVars, pool, next_partition, descVars, pc, own, cond,
                 ops, region>>

Decide(t) ==
  /\ cond[t] = NoItem
  /\ \E d \in reached[t] :
       /\ Undecided(d)
       /\ \E s \in {"kStatusSucceeded", "kStatusFailed"} :
            /\ s = "kStatusSucceeded" => \A e \in Entries(d) : word[e.addr] = Installed(d)
            /\ desc' = [desc EXCEPT ![d].status = s]
  /\ UNCHANGED <<tlsVars, epochVars, ringVars, pool, next_partition, free_list, word, mem,
                 opVars>>

\* Phase 2, and the return from the operation.
\* Mutant: a failed operation is not rolled back.
Phase2IfSucceeded(d) ==
  word' = [a \in Words |->
             IF Succeeded(d) /\ word[a] = Installed(d)
             THEN Plain((CHOOSE e \in Entries(d) : e.addr = a).new) ELSE word[a]]

Phase2(d) ==
  word' = [a \in Words |->
             IF word[a] = Installed(d)
             THEN LET e == CHOOSE e \in Entries(d) : e.addr = a
                  IN  Plain(IF Succeeded(d) THEN e.new ELSE e.old)
             ELSE word[a]]

EndsOn(t, d) ==
  /\ cond[t] = NoItem
  /\ d \in reached[t] /\ ~Undecided(d)
  /\ Phase2(d)
  /\ reached' = [reached EXCEPT ![t] = @ \ {d}]
  /\ todo' = [todo EXCEPT ![t] = {x \in @ : x[1] # d}]

\* A helper returns.
StopHelping(t) ==
  /\ \E d \in Descs \ {own[t]} : EndsOn(t, d)
  /\ UNCHANGED <<tlsVars, epochVars, ringVars, pool, next_partition, free_list, desc, mem,
                 pc, own, cond, ops, region>>

\* The owner has been through phase 2: Cleanup() retires the descriptor.
Cleanup(t) ==
  /\ pc[t] = "run"
  /\ EndsOn(t, own[t])
  /\ stamp' = Put(stamp, t, current)
  /\ pc' = Put(pc, t, "push")
  /\ UNCHANGED <<tlsVars, epochVars, ring, tail, pool, next_partition, free_list, desc, mem,
                 own, cond, ops, region>>

\* garbage_list->Push: one turn of its loop.
PushDescriptor(t) ==
  LET p == Owner(own[t])
  IN  /\ pc[t] = "push"
      /\ PushTurn(t, p, own[t])
      /\ FreeDescriptors(p, PushFrees(p))
      /\ pc' = IF PushTakes(p) THEN Put(pc, t, "idle") ELSE pc
      /\ own' = IF PushTakes(p) THEN Put(own, t, NoItem) ELSE own
      /\ UNCHANGED <<tlsVars, pool, next_partition, word, reached, todo, cond, ops, region>>

-----------------------------------------------------------------------------
\* The pool is deleted, the registry cleared, and another pool made.  Nobody
\* runs the destructors of the partitions: what is retired stays unfreed.
ReplacePool ==
  /\ pool < MaxPools
  /\ \A t \in Threads : life[t] = "destroyed" \/ (t = Main /\ Idle(t))
  /\ ClearRegistry(TRUE)
  /\ pool' = pool + 1
  /\ next_partition' = 0
  /\ free_list' = [p \in Partitions |-> DescsOf(p)]
  /\ desc' = [d \in Descs |-> Initialize]
  /\ current' = 1 /\ safe' = 0 /\ ring' = EmptyRings
  /\ tail' = [p \in Partitions |-> 0]
  /\ UNCHANGED <<local, stamp, word, mem, opVars>>

\* Threads of the registry come and go outside of the pool's operations.
Lifecycle ==
  /\ ThreadSteps
  /\ \A t \in Threads : life'[t] # life[t] => Idle(t)
  /\ Idle(Main)
  /\ UNCHANGED <<epochVars, ringVars, pool, next_partition, descVars, opVars>>

OpSteps(t) ==
  \/ TakeDescriptor(t) \/ ScavengeDescriptors(t)
  \/ LookAtStatus(t) \/ ReplaceConditional(t)
  \/ Decide(t) \/ StopHelping(t) \/ Cleanup(t) \/ PushDescriptor(t)

Next ==
  \/ \E t \in Threads :
       \/ Enter(t) \/ Leave(t) \/ BeginAllocate(t)
       \/ OpSteps(t)
       \/ AllocateAndAddEntry(t) \/ ReserveAndAddEntry(t) \/ FillReserved(t) \/ StartMwCAS(t) \/ Abort(t)
       \/ PutConditional(t) \/ MeetConditional(t) \/ ReachDescriptor(t)
  \/ ReplacePool
  \/ Lifecycle

Spec == Init /\ [][Next]_vars

TypeOK ==
  /\ life \in [Threads -> {"new", "running", "exited", "joined", "destroyed"}]
  /\ id \in [Threads -> Ids \cup {NoId}]
  /\ pool \in 1 .. MaxPools
  /\ tls_part \in [Ids -> [pool : 1 .. MaxPools, part : Partitions] \cup {NoPart}]
  /\ registry \in [Ids -> {"absent", "empty", "listed"}]
  /\ current \in Nat /\ safe \in Nat /\ local \in [Threads -> Nat]
  /\ ring \in [Partitions -> [Slots -> [item : Descs \cup {NoItem}, epoch : Nat]]]
  /\ tail \in [Partitions -> Slots] /\ stamp \in [Threads -> Nat]
  /\ next_partition \in Partitions
  /\ free_list \in [Partitions -> Seq(Descs)]
  /\ desc \in [Descs -> [status : {"kStatusFinished", "kStatusUndecided", "kStatusSucceeded",
                                   "kStatusFailed"}, entries : Seq(EntrySet)]]
  /\ word \in [Words -> Content]
  /\ mem \subseteq Blocks
  /\ pc \in [Threads -> {"idle", "allocate", "fill", "run", "push"}]
  /\ own \in [Threads -> Descs \cup {NoItem}]
  /\ reached \in [Threads -> SUBSET Descs] /\ todo \in [Threads -> SUBSET (Descs \X Words)]
  /\ cond \in [Threads -> CondCASes \cup {NoItem}]
  /\ ops \in [Threads -> Nat] /\ region \in [Threads -> Nat]

-----------------------------------------------------------------------------
\* Every descriptor is in one place: on the free list of its partition, in its
\* ring, or with the thread that allocated it.  So the ring, which is as large as the
\* partition, has room for what is retired, and the next slot is always empty.
Places(d) ==
  Cardinality({i \in DOMAIN free_list[Owner(d)] : free_list[Owner(d)][i] = d})
  + Cardinality({s \in Slots : ring[Owner(d)][s].item = d})
  + Cardinality({t \in Threads : own[t] = d})
OnePlace ==
  /\ \A d \in Descs : Places(d) = 1
  /\ \A t \in Threads : pc[t] = "push" => LET p == Owner(own[t]) IN ring[p][tail[p]] = EmptySlot

\* A late helper can put a pointer to a retired descriptor into a word again
\* (its own CondCAS, or that of a thread that read the status before it was
\* decided).  It is always there to take it out: a descriptor that is free or
\* being filled is in no word.
LinkedIsHeld ==
  \A a \in Words : word[a].kind # "value" =>
    \E t \in Threads : word[a].of \in reached[t] /\ Protected(t)

\* A descriptor is not recycled under a thread that has reached it before it was
\* decided, though its owner retires it without waiting for anybody.
ReachedStays == \A t \in Threads : \A d \in reached[t] : desc[d].status # "kStatusFinished"

\* Nobody but the thread itself uses its partition during an allocation, and
\* the partition is of the pool there is now: partitions have no locks, and
\* tls_part outlives operations, threads with the same id, and pools.
PartitionIsOwn ==
  \A t \in Threads : pc[t] = "allocate" =>
    /\ tls_part[id[t]] # NoPart
    /\ tls_part[id[t]].pool = pool
    /\ \A u \in Threads \ {t} : pc[u] # "idle" => Part(u) # Part(t)

\* AllocateDescriptor spins until the partition has a descriptor.  It waits for
\* descriptors that were retired before the thread entered its region, so only
\* for threads that have been in theirs for longer: none waits for itself, and
\* no two for each other.
AllocationWaitsForOthers ==
  \A t \in Threads : pc[t] = "allocate" /\ free_list[Part(t)] = <<>> =>
    \E s \in Slots : ring[Part(t)][s].epoch \in 1 .. local[t] - 1
=============================================================================
