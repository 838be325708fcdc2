------------------------ MODULE DescriptorPoolProofs ------------------------
(***************************************************************************)
(* The pool of descriptors, for any number of threads, partitions,         *)
(* descriptors, words and pools that follow one another.  The invariant is *)
(* built in layers, each kept by every step with the help of those before  *)
(* it: who has which partition, who is in an operation, where descriptors  *)
(* are, the epochs and the order of the rings, what is decided, who can    *)
(* still reach a descriptor, and what an allocation has to wait for.       *)
(***************************************************************************)
EXTENDS DescriptorPool, NumberLemmas, FiniteSetTheorems, SequenceTheorems, TLAPS

\* The parts of the type invariant.
TlsType ==
  /\ life \in [Threads -> {"new", "running", "exited", "joined", "destroyed"}]
  /\ id \in [Threads -> Ids \cup {NoId}]
  /\ pool \in 1 .. MaxPools
  /\ tls_part \in [Ids -> [pool : 1 .. MaxPools, part : Partitions] \cup {NoPart}]
  /\ registry \in [Ids -> {"absent", "empty", "listed"}]
  /\ next_partition \in Partitions
RingType ==
  /\ current \in Nat /\ safe \in Nat /\ local \in [Threads -> Nat]
  /\ ring \in [Partitions -> [Slots -> [item : Descs \cup {NoItem}, epoch : Nat]]]
  /\ tail \in [Partitions -> Slots] /\ stamp \in [Threads -> Nat]
ListType == free_list \in [Partitions -> Seq(Descs)]
DescType ==
  /\ desc \in [Descs -> [status : {"kStatusFinished", "kStatusUndecided", "kStatusSucceeded",
                                   "kStatusFailed"}, entries : Seq(EntrySet)]]
  /\ word \in [Words -> Content]
  /\ mem \subseteq Blocks
PcType ==
  /\ pc \in [Threads -> {"idle", "allocate", "fill", "run", "push"}]
  /\ own \in [Threads -> Descs \cup {NoItem}]
  /\ ops \in [Threads -> Nat] /\ region \in [Threads -> Nat]
ReachType ==
  /\ reached \in [Threads -> SUBSET Descs] /\ todo \in [Threads -> SUBSET (Descs \X Words)]
  /\ cond \in [Threads -> CondCASes \cup {NoItem}]

\* The threads that callers start.
Workers == Threads \ {Main}
\* A thread whose id is not free for another.
Alive(t) == life[t] \in {"running", "exited", "joined"}
\* It has been given a partition.
Assigned(t) == Running(t) /\ tls_part[id[t]] # NoPart
\* How many assignments ago the partition was the next one.
Behind(p) == IF p < next_partition THEN next_partition - p
             ELSE next_partition + partition_count - p
\* The workers that will not be given a partition any more.
Done == {t \in Workers : life[t] \in {"exited", "joined", "destroyed"} \/ Assigned(t)}

\* Ids are different, a partition that is assigned is registered and of this pool, and
\* no two workers have the same one: the counting with Behind and Done is what keeps
\* the round-robin assignment from coming round to a partition in use.
TlsInv ==
  /\ Running(Main)
  /\ \A t \in Threads : Alive(t) => id[t] \in Ids
  /\ \A t, u \in Threads : Alive(t) /\ Alive(u) /\ t # u => id[t] # id[u]
  /\ \A i \in Ids : tls_part[i] # NoPart => Listed(i)
  /\ \A t \in Threads : Assigned(t) => tls_part[id[t]].pool = pool
  /\ \A t \in Workers : Assigned(t) => Behind(Part(t)) <= Cardinality(Done)
  /\ \A t, u \in Workers : Assigned(t) /\ Assigned(u) /\ t # u => Part(t) # Part(u)
  /\ pool # 1 => \A t \in Workers : life[t] = "destroyed"

\* Who is in an operation runs, is in its region, has a partition, and holds a
\* descriptor of that partition from TakeDescriptor to Push.  The main thread and
\* the workers are never in the pool together.
BusyInv ==
  /\ \A t \in Threads : ~Idle(t) => Running(t)
  /\ ~Idle(Main) => \A t \in Workers : ~Running(t)
  /\ \A t \in Threads : pc[t] # "idle" => Assigned(t) /\ Protected(t)
  /\ \A t \in Threads : own[t] # NoItem <=> pc[t] \in {"fill", "run", "push"}
  /\ \A t \in Threads : own[t] # NoItem => Owner(own[t]) = Part(t)

\* The three places of a descriptor.
InFree(d) == \E i \in DOMAIN free_list[Owner(d)] : free_list[Owner(d)][i] = d
InRing(d) == \E s \in Slots : ring[Owner(d)][s].item = d
Held(d) == \E t \in Threads : own[t] = d

\* Each descriptor is in exactly one of them, once, and within its own partition.
PlaceInv ==
  /\ \A p \in Partitions : \A i, j \in DOMAIN free_list[p] :
       Owner(free_list[p][i]) = p /\ (i # j => free_list[p][i] # free_list[p][j])
  /\ \A p \in Partitions : \A s \in Slots :
       /\ ring[p][s].item # NoItem => Owner(ring[p][s].item) = p
       /\ ring[p][s].item = NoItem <=> ring[p][s].epoch = 0
  /\ \A p \in Partitions : \A s, r \in Slots :
       s # r /\ ring[p][s].item # NoItem => ring[p][s].item # ring[p][r].item
  /\ \A t, u \in Threads : t # u /\ own[t] # NoItem => own[t] # own[u]
  /\ \A d \in Descs : InFree(d) \/ InRing(d) \/ Held(d)
  /\ \A d \in Descs : ~(InFree(d) /\ InRing(d)) /\ ~(InFree(d) /\ Held(d)) /\ ~(InRing(d) /\ Held(d))

\* How many turns of Push ago the slot was filled, if it is.
Age(p, s) == IF s < tail[p] THEN tail[p] - s ELSE tail[p] + ItemCount - s

\* The older a slot, the smaller its epoch, up to the slots that Scavenge emptied.
RingInv ==
  \A p \in Partitions : \A s, r \in Slots :
    ring[p][s].epoch # 0 /\ Age(p, r) < Age(p, s) => ring[p][s].epoch <= ring[p][r].epoch

\* No epoch in use is ahead of the current one, nothing in use is safe to reclaim,
\* and what is being retired is stamped no earlier than its ring.
EpochInv ==
  /\ current >= 1 /\ safe < current
  /\ \A t \in Threads : local[t] <= current /\ (local[t] # 0 => safe < local[t])
  /\ \A t \in Threads : stamp[t] <= current /\ (pc[t] # "push" => stamp[t] = 0)
  /\ \A t \in Threads : pc[t] = "push" =>
       stamp[t] >= 1 /\ \A s \in Slots : ring[Owner(own[t])][s].epoch <= stamp[t]
  /\ \A p \in Partitions : \A s \in Slots : ring[p][s].epoch <= current

\* The operation has been decided.
Decided(d) == desc[d].status \in {"kStatusSucceeded", "kStatusFailed"}
\* A free descriptor is finished, a retired one decided, and a new value is known
\* before the operation can install it.
StatusInv ==
  /\ \A d \in Descs : InFree(d) => desc[d].status = "kStatusFinished"
  /\ \A d \in Descs : InRing(d) => Decided(d)
  /\ \A t \in Threads :
       /\ pc[t] = "fill" => desc[own[t]].status = "kStatusFinished"
       /\ pc[t] = "run" => Undecided(own[t]) \/ Decided(own[t])
       /\ pc[t] = "push" => Decided(own[t])
  /\ \A d \in Descs : Undecided(d) \/ Succeeded(d) => \A e \in Entries(d) : e.new # Reserved

\* Why the descriptor is not recycled under the thread: its owner is still in the
\* operation, or it is retired with an epoch the thread has been in since before.
Guarded(t, d) ==
  \/ \E u \in Threads : own[u] = d /\ pc[u] = "run"
  \/ \E u \in Threads : own[u] = d /\ pc[u] = "push" /\ local[t] <= stamp[u]
  \/ \E s \in Slots : ring[Owner(d)][s].item = d /\ local[t] <= ring[Owner(d)][s].epoch
\* The descriptor has an entry for the word; the thread is about to replace its pointer in it.
Has(d, a) == \E e \in Entries(d) : e.addr = a
Putting(t, a, d) == cond[t] # NoItem /\ cond[t].addr = a /\ cond[t].d = d /\ d \in reached[t]

\* What a thread has reached is guarded, what it put into a word it has reached, and
\* a word points only to descriptors that some thread has reached.
ReachInv ==
  /\ \A t \in Threads : \A d \in reached[t] : Protected(t) /\ Guarded(t, d)
  /\ \A t \in Threads : cond[t] # NoItem =>
       /\ Protected(t)
       /\ cond[t].to = NoItem => cond[t].d \in reached[t] /\ Has(cond[t].d, cond[t].addr)
       /\ cond[t].to # NoItem => cond[t].to.kind = "value" \/ cond[t].to = Installed(cond[t].d)
  /\ \A a \in Words : word[a].kind # "value" => Has(word[a].of, a)
  /\ \A a \in Words : word[a].kind = "mwcas" => \E t \in Threads : word[a].of \in reached[t]
  /\ \A a \in Words : word[a].kind = "condcas" => \E t \in Threads : Putting(t, a, word[a].of)

\* The part of the ring between two bumps of Push.
Quarter == IF ItemCount = 2 THEN 1 ELSE ItemCount \div 4
\* The operations that the thread has completed in its region.
Made(t) == IF pc[t] = "idle" THEN region[t] ELSE region[t] - 1
\* What is more than n turns old in the ring was retired before the thread entered.
Older(t, p, n) == \A s \in Slots : Age(p, s) > n => ring[p][s].epoch < local[t]

\* What bears the current epoch was retired since the last bump of Push in its ring.
BumpInv ==
  \A p \in Partitions : \A s \in Slots : ring[p][s].epoch = current =>
    \A r \in Slots : Age(p, r) <= Age(p, s) => ~BumpsAt(r)
\* How many operations a thread makes in its region.
RegionInv ==
  \A t \in Threads :
    /\ region[t] <= MaxPerRegion
    /\ pc[t] # "idle" => region[t] >= 1
    /\ ~Protected(t) => region[t] = 0
\* What a thread will find in its ring was retired before it entered its region, but
\* for the newest quarter and what it retires itself; and so in the partitions that a
\* worker may still be given.
OlderInv ==
  /\ \A t \in Threads : Protected(t) /\ Assigned(t) => Older(t, Part(t), Made(t) + Quarter - 1)
  /\ \A t \in Workers : Protected(t) =>
       \A p \in Partitions : Behind(p) > Cardinality(Done) => Older(t, p, Quarter - 1)
  /\ Turn(Main) /\ ~Assigned(Main) => \A p \in Partitions : \A s \in Slots : ring[p][s].epoch = 0
WaitInv == BumpInv /\ RegionInv /\ OlderInv

-----------------------------------------------------------------------------
(***************************************************************************)
(* The constants, the epochs and the list of what Scavenge takes.          *)
(***************************************************************************)
\* The constants: partitions and slots are intervals, and a descriptor is its
\* partition and its place in it.
LEMMA Basics ==
  /\ Users = Threads
  /\ partition_count \in Nat \ {0} /\ Partitions = 0 .. partition_count - 1
  /\ ItemCount \in Nat \ {0} /\ Slots = 0 .. ItemCount - 1
  /\ \A p \in Partitions, s \in Slots : <<p, s>> \in Descs
  /\ \A d \in Descs : Owner(d) \in Partitions /\ d[2] \in Slots /\ d = <<Owner(d), d[2]>>
  /\ NoItem \notin Descs
  BY PoolAssumption, NamesAssumption DEF Slots, Descs, Owner

\* A thread in the region is asked before anything is reclaimed.
LEMMA SafeBump ==
  ASSUME current \in Nat, current >= 1, local \in [Threads -> Nat], \A t \in Threads : local[t] <= current
  PROVE  /\ Bumped \in {current, current + 1}
         /\ SafeAfterBump \in Nat /\ SafeAfterBump < Bumped
         /\ \A t \in Threads : local[t] # 0 => SafeAfterBump < local[t]
<1>1. Bumped \in {current, current + 1}
  BY DEF Bumped
<1> DEFINE S == ({local[t] : t \in Threads} \ {0}) \cup {Bumped}
<1>2. S \in SUBSET Nat /\ S # {} /\ Bumped \in S /\ \A n \in S : n >= 1
  BY <1>1
<1>3. \A t \in Threads : local[t] # 0 => local[t] \in S
  OBVIOUS
<1>4. SafeAfterBump = Min(S) - 1
  BY Basics DEF SafeAfterBump
<1> HIDE DEF S
<1>5. Min(S) \in S /\ \A n \in S : Min(S) <= n
  BY <1>2, MinIs
<1>6. PICK m \in Nat : m = Min(S) /\ m >= 1 /\ \A n \in S : m <= n
  BY <1>5, <1>2
<1>7. SafeAfterBump = m - 1
  BY <1>4, <1>6
<1>8. QED
  BY <1>1, <1>2, <1>3, <1>6, <1>7

\* A recursive definition over an interval defines a function.
LEMMA TakenExists ==
  ASSUME NEW N \in Nat, NEW g
  PROVE  \E f : f = [k \in 0 .. N |-> IF k = 0 THEN <<>> ELSE f[k - 1] \o g[k - 1]]
<1> DEFINE Is(f, n) == f = [k \in 0 .. n |-> IF k = 0 THEN <<>> ELSE f[k - 1] \o g[k - 1]]
           S == {n \in Nat : \E f : Is(f, n)}
<1>1. 0 \in S
  <2> DEFINE f == [k \in 0 .. 0 |-> <<>>]
  <2>1. Is(f, 0)
    OBVIOUS
  <2>2. QED
    BY <2>1
<1>2. ASSUME NEW n \in Nat, n \in S PROVE n + 1 \in S
  <2>1. PICK f : Is(f, n)
    BY <1>2
  <2> DEFINE h == [k \in 0 .. n + 1 |-> IF k = n + 1 THEN f[n] \o g[n] ELSE f[k]]
  <2>2. \A k \in 0 .. n : h[k] = f[k]
    OBVIOUS
  <2>3. \A k \in 0 .. n : f[k] = IF k = 0 THEN <<>> ELSE f[k - 1] \o g[k - 1]
    BY <2>1
  <2>4. ASSUME NEW k \in 0 .. n + 1
        PROVE  h[k] = IF k = 0 THEN <<>> ELSE h[k - 1] \o g[k - 1]
    <3>1. CASE k = n + 1
      <4>1. k # 0 /\ k - 1 = n /\ h[k] = f[n] \o g[n] /\ h[n] = f[n]
        BY <3>1, <2>2
      <4>2. QED
        BY <4>1
    <3>2. CASE k \in 0 .. n
      <4>1. k = 0 \/ (k - 1 \in 0 .. n /\ h[k - 1] = f[k - 1])
        BY <3>2, <2>2
      <4>2. QED
        BY <3>2, <4>1, <2>2, <2>3
    <3>3. QED
      BY <3>1, <3>2
  <2>5. h = [k \in 0 .. n + 1 |-> h[k]]
    OBVIOUS
  <2> HIDE DEF h
  <2>6. Is(h, n + 1)
    BY <2>4, <2>5
  <2>7. QED
    BY <2>6
<1> HIDE DEF S
<1>3. N \in S
  BY <1>1, <1>2, SetInduction
<1>4. QED
  BY <1>3 DEF S

\* Such a function, what it is at 0 and how it goes on.
Concatenates(N, g, f) == f = [k \in 0 .. N |-> IF k = 0 THEN <<>> ELSE f[k - 1] \o g[k - 1]]

\* It starts empty and appends one sequence at a time.
LEMMA TakenStep ==
  ASSUME NEW N \in Nat, NEW g, NEW f, Concatenates(N, g, f)
  PROVE  f[0] = <<>> /\ \A k \in 0 .. N - 1 : f[k + 1] = f[k] \o g[k]
<1> DEFINE F(k) == IF k = 0 THEN <<>> ELSE f[k - 1] \o g[k - 1]
<1>1. f = [k \in 0 .. N |-> F(k)]
  BY DEF Concatenates
<1> HIDE DEF F
<1>2. \A k \in 0 .. N : f[k] = F(k)
  <2>1. \A k \in 0 .. N : [j \in 0 .. N |-> F(j)][k] = F(k)
    BY Zenon
  <2>2. QED
    BY <1>1, <2>1, Zenon
<1>3. f[0] = <<>>
  <2>1. 0 \in 0 .. N
    BY SMT
  <2>2. F(0) = <<>>
    BY DEF F
  <2>3. QED
    BY <2>1, <2>2, <1>2, Zenon
<1>4. ASSUME NEW k \in 0 .. N - 1 PROVE f[k + 1] = f[k] \o g[k]
  <2>1. k + 1 \in 0 .. N /\ k + 1 # 0 /\ (k + 1) - 1 = k
    BY SMT
  <2>2. F(k + 1) = f[(k + 1) - 1] \o g[(k + 1) - 1]
    BY <2>1, Zenon DEF F
  <2>3. f[k + 1] = F(k + 1)
    BY <2>1, <1>2, Zenon
  <2>4. QED
    BY <2>1, <2>2, <2>3, Zenon
<1>5. QED
  BY <1>3, <1>4

\* Going through the slots collects the items of those in R, each once.
Collects(N, R, X, item, take, f) ==
  /\ N \in Nat /\ R \in SUBSET (0 .. N - 1) /\ item \in [R -> X]
  /\ \A j, k \in R : j # k => item[j] # item[k]
  /\ \A k \in 0 .. N - 1 : take[k] = IF k \in R THEN <<item[k]>> ELSE <<>>
  /\ f[0] = <<>> /\ \A k \in 0 .. N - 1 : f[k + 1] = f[k] \o take[k]

\* The sequence lists the elements of S, each once.
Lists(q, X, S) ==
  /\ q \in Seq(X) /\ ToSet(q) = S
  /\ \A i, j \in DOMAIN q : i # j => q[i] # q[j]

\* The items at the positions in R.
ItemsAt(item, R) == {item[k] : k \in R}

\* What has been collected at the end is a list of those items, each of them
\* once.
LEMMA CollectedAre ==
  ASSUME NEW N, NEW R, NEW X, NEW item, NEW take, NEW f, Collects(N, R, X, item, take, f)
  PROVE  Lists(f[N], X, ItemsAt(item, R))
<1> USE DEF Collects
<1> DEFINE Good(n) == /\ f[n] \in Seq(X)
                      /\ \A x : x \in ToSet(f[n]) <=> \E k \in R : k < n /\ x = item[k]
                      /\ \A i, j \in DOMAIN f[n] : i # j => f[n][i] # f[n][j]
           S == {n \in Nat : n <= N => Good(n)}
<1>2. 0 \in S
  <2>1. f[0] \in Seq(X) /\ DOMAIN f[0] = {} /\ ToSet(f[0]) = {}
    BY DEF ToSet
  <2>2. \A k \in R : ~(k < 0)
    OBVIOUS
  <2>3. Good(0)
    BY <2>1, <2>2
  <2>4. QED
    BY <2>3
<1>3. ASSUME NEW n \in Nat, n \in S PROVE n + 1 \in S
  <2>1. SUFFICES ASSUME n + 1 <= N PROVE Good(n + 1)
    <3>1. n + 1 \in Nat
      OBVIOUS
    <3> HIDE DEF Good
    <3>2. QED
      BY <3>1
  <2>2. n <= N /\ n \in 0 .. N - 1
    BY <2>1
  <2>3. Good(n)
    BY <1>3, <2>2
  <2>4. PICK q \in Seq(X) : q = f[n] /\ \A i, j \in DOMAIN q : i # j => q[i] # q[j]
    BY <2>3
  <2>5. \A x : x \in ToSet(q) <=> \E k \in R : k < n /\ x = item[k]
    BY <2>3, <2>4
  <2>7. f[n + 1] = q \o take[n]
    BY <2>2, <2>4
  <2>8. CASE n \in R
    <3>1. PICK y \in X : y = item[n]
      BY <2>8
    <3>2. f[n + 1] = q \o <<y>>
      BY <2>7, <2>2, <2>8, <3>1
    <3>3. DOMAIN q = 1 .. Len(q) /\ Len(q) \in Nat /\ DOMAIN (q \o <<y>>) = 1 .. Len(q) + 1
          /\ (\A i \in 1 .. Len(q) : (q \o <<y>>)[i] = q[i]) /\ (q \o <<y>>)[Len(q) + 1] = y
          /\ q \o <<y>> \in Seq(X)
      OBVIOUS
    <3>4. ToSet(q \o <<y>>) = ToSet(q) \cup {y}
      BY <3>3 DEF ToSet
    <3>5. y \notin ToSet(q)
      BY <2>5, <2>8, <3>1
    <3>6. \A i \in 1 .. Len(q) : q[i] # y
      BY <3>5, <3>3 DEF ToSet
    <3> DEFINE r == q \o <<y>>
    <3>7. \A i, j \in DOMAIN r : i # j => r[i] # r[j]
      <4>1. DOMAIN r = 1 .. Len(q) + 1 /\ (\A i \in 1 .. Len(q) : r[i] = q[i]) /\ r[Len(q) + 1] = y
        BY <3>3
      <4> HIDE DEF r
      <4>2. \A i \in DOMAIN r : i \in 1 .. Len(q) \/ i = Len(q) + 1
        BY <3>3, <4>1
      <4>3. QED
        BY <2>4, <3>3, <4>1, <4>2, <3>6
    <3>8. \A k \in R : k < n + 1 <=> k < n \/ k = n
      BY <2>2
    <3>9. \A x : x \in ToSet(q \o <<y>>) <=> \E k \in R : k < n + 1 /\ x = item[k]
      BY <3>4, <3>8, <2>5, <2>8, <3>1
    <3>10. QED
      BY <3>2, <3>3, <3>7, <3>9
  <2>9. CASE n \notin R
    <3>1. f[n + 1] = q
      <4>1. q \o <<>> = q
        OBVIOUS
      <4>2. QED
        BY <4>1, <2>7, <2>2, <2>9
    <3>2. \A k \in R : k < n + 1 <=> k < n
      BY <2>2, <2>9
    <3>3. QED
      BY <3>1, <3>2, <2>4, <2>5
  <2>10. QED
    BY <2>8, <2>9
<1> HIDE DEF S
<1>4. N \in S
  BY <1>2, <1>3, SetInduction
<1>5. Good(N) /\ \A k \in R : k < N
  BY <1>4 DEF S
<1>6. ToSet(f[N]) = {item[k] : k \in R}
  <2>1. \A x : x \in ToSet(f[N]) <=> x \in {item[k] : k \in R}
    BY <1>5
  <2>2. QED
    BY <2>1, Zenon
<1>7. QED
  BY <1>5, <1>6 DEF Lists, ItemsAt

\* Scavenge takes the items of the slots that are safe, each once.
LEMMA ScavengedIs ==
  ASSUME NEW p \in Partitions, NEW s \in Nat,
         ring[p] \in [Slots -> [item : Descs \cup {NoItem}, epoch : Nat]],
         \A k \in Slots : ring[p][k].epoch # 0 => ring[p][k].item # NoItem,
         \A j, k \in Slots : j # k /\ ring[p][j].item # NoItem => ring[p][j].item # ring[p][k].item
  PROVE  Lists(Scavenged(p, s), Descs, {ring[p][k].item : k \in Reclaimable(p, s)})
<1> DEFINE N == ItemCount
           R == Reclaimable(p, s)
           Take(k) == IF k \in R THEN <<ring[p][k].item>> ELSE <<>>
           take == [k \in 0 .. N |-> Take(k)]
           item == [k \in R |-> ring[p][k].item]
           upTo == CHOOSE f : f = [k \in 0 .. N |-> IF k = 0 THEN <<>> ELSE f[k - 1] \o Take(k - 1)]
<1>1. N \in Nat \ {0} /\ Slots = 0 .. N - 1 /\ R \in SUBSET (0 .. N - 1)
  BY Basics DEF Reclaimable
<1>2. item \in [R -> Descs]
  BY Basics DEF Reclaimable
<1>3. \A j, k \in R : j # k => item[j] # item[k]
  <2>1. \A k \in R : k \in Slots /\ ring[p][k].item # NoItem /\ item[k] = ring[p][k].item
    BY DEF Reclaimable
  <2>2. QED
    BY <2>1
<1>4. upTo = [k \in 0 .. N |-> IF k = 0 THEN <<>> ELSE upTo[k - 1] \o take[k - 1]]
  <2>1. PICK f : f = [k \in 0 .. N |-> IF k = 0 THEN <<>> ELSE f[k - 1] \o take[k - 1]]
    BY <1>1, TakenExists
  <2>2. \A k \in 0 .. N : k # 0 => take[k - 1] = Take(k - 1)
    BY <1>1
  <2>3. ASSUME NEW g
        PROVE  [k \in 0 .. N |-> IF k = 0 THEN <<>> ELSE g[k - 1] \o take[k - 1]]
               = [k \in 0 .. N |-> IF k = 0 THEN <<>> ELSE g[k - 1] \o Take(k - 1)]
    BY <2>2
  <2> HIDE DEF Take, take
  <2>4. f = [k \in 0 .. N |-> IF k = 0 THEN <<>> ELSE f[k - 1] \o Take(k - 1)]
    BY <2>1, <2>3
  <2>5. upTo = [k \in 0 .. N |-> IF k = 0 THEN <<>> ELSE upTo[k - 1] \o Take(k - 1)]
    BY <2>4
  <2> HIDE DEF upTo
  <2>6. QED
    BY <2>3, <2>5
<1>5. Scavenged(p, s) = upTo[N]
  BY DEF Scavenged
<1>6. \A k \in 0 .. N - 1 : take[k] = IF k \in R THEN <<item[k]>> ELSE <<>>
  BY <1>1
<1>7. {item[k] : k \in R} = {ring[p][k].item : k \in R}
  OBVIOUS
<1>71. PICK F, T, I, Q : F = upTo /\ T = take /\ I = item /\ Q = R
  BY Zenon
<1>72. PICK M \in Nat : M = N
  BY <1>1
<1> HIDE DEF upTo, R, take, item
<1>81. F = [k \in 0 .. M |-> IF k = 0 THEN <<>> ELSE F[k - 1] \o T[k - 1]]
  BY <1>4, <1>71, <1>72, Zenon
<1>82. F[0] = <<>> /\ \A k \in 0 .. M - 1 : F[k + 1] = F[k] \o T[k]
  <2>1. Concatenates(M, T, F)
    BY <1>81, Zenon DEF Concatenates
  <2>2. QED
    BY <2>1, TakenStep, ZenonT(40)
<1>83. Q \in SUBSET (0 .. M - 1) /\ I \in [Q -> Descs] /\ \A j, k \in Q : j # k => I[j] # I[k]
  BY <1>1, <1>2, <1>3, <1>71, <1>72, Zenon
<1>84. \A k \in 0 .. M - 1 : T[k] = IF k \in Q THEN <<I[k]>> ELSE <<>>
  BY <1>6, <1>71, <1>72, Zenon
<1>8. Lists(F[M], Descs, ItemsAt(I, Q))
  <2>1. Collects(M, Q, Descs, I, T, F)
    BY <1>82, <1>83, <1>84, Zenon DEF Collects
  <2>2. QED
    BY <2>1, CollectedAre, Zenon
<1>85. Scavenged(p, s) = F[M] /\ Q = Reclaimable(p, s)
  BY <1>5, <1>71, <1>72, Zenon DEF R
<1>9. ItemsAt(I, Q) = {ring[p][k].item : k \in Reclaimable(p, s)}
  BY <1>7, <1>71, Zenon DEF R, ItemsAt
<1> HIDE DEF N, Take
<1>10. QED
  BY <1>85, <1>8, <1>9, Zenon

\* The type invariant is the conjunction of its parts.
LEMMA Types == TypeOK <=> TlsType /\ RingType /\ ListType /\ DescType /\ PcType /\ ReachType
  BY Zenon DEF TypeOK, TlsType, RingType, ListType, DescType, PcType, ReachType

-----------------------------------------------------------------------------
(***************************************************************************)
(* Threads, their ids and their partitions.                                *)
(***************************************************************************)
\* The next number, around the ring.
LEMMA NextModulo ==
  ASSUME NEW c \in Nat \ {0}, NEW n \in 0 .. c - 1
  PROVE  (n + 1) % c = IF n + 1 = c THEN 0 ELSE n + 1
  OBVIOUS

\* The steps that touch threads, ids or partitions.
LEMMA TlsSteps ==
  Next => \/ UNCHANGED <<tlsVars, pool, next_partition>>
          \/ \E t \in Threads : BeginAllocate(t)
          \/ ReplacePool
          \/ Lifecycle /\ UNCHANGED <<pool, next_partition>>
  BY ZenonT(40) DEF Next, OpSteps, Enter, Leave, TakeDescriptor, ScavengeDescriptors, LookAtStatus, ReplaceConditional,
     Decide, StopHelping, Cleanup, PushDescriptor, AllocateAndAddEntry, AddEntry, ReserveAndAddEntry, FillReserved,
     StartMwCAS, Abort, PutConditional, MeetConditional, ReachDescriptor, Lifecycle

\* A partition was the next one at most a round of assignments ago; only the
\* next one is a whole round behind.
LEMMA BehindIs ==
  ASSUME next_partition \in Partitions, NEW p \in Partitions
  PROVE  Behind(p) \in 1 .. partition_count /\ (Behind(p) = partition_count <=> p = next_partition)
  BY Basics DEF Behind

\* An assignment puts the partition it gives at distance 1 and the others one
\* further.
LEMMA BehindNext ==
  ASSUME next_partition \in Partitions, NEW p \in Partitions,
         next_partition' = (next_partition + 1) % partition_count
  PROVE  Behind(p)' = IF p = next_partition THEN 1 ELSE Behind(p) + 1
<1>1. next_partition' = IF next_partition + 1 = partition_count THEN 0 ELSE next_partition + 1
  BY Basics, NextModulo
<1>2. QED
  BY <1>1, Basics DEF Behind

\* There is an id for a thread that starts.
LEMMA FreeId ==
  ASSUME NEW t \in Threads, ~Running(t)
  PROVE  \E i \in Ids : \A u \in Threads : Running(u) => id[u] # i
<1> SUFFICES ASSUME \A i \in Ids : \E u \in Threads : Running(u) /\ id[u] = i PROVE FALSE
  OBVIOUS
<1> DEFINE T == Threads \ {t}
           f == [i \in Ids |-> CHOOSE u \in T : id[u] = i]
<1>1. \A i \in Ids : \E u \in T : id[u] = i
  OBVIOUS
<1>2. f \in [Ids -> T] /\ \A i \in Ids : id[f[i]] = i
  BY <1>1
<1>3. IsFiniteSet(T) /\ Cardinality(T) = Cardinality(Threads) - 1
  BY IdsAssumption, FS_RemoveElement
<1>4. Cardinality(Threads) \in Nat /\ Cardinality(Ids) \in Nat
  BY IdsAssumption, FS_CardinalityType
<1>5. Cardinality(T) < Cardinality(Ids)
  BY <1>3, <1>4, IdsAssumption
<1> HIDE DEF f, T
<1>6. PICK i, j \in Ids : i # j /\ f[i] = f[j]
  BY <1>2, <1>3, <1>5, IdsAssumption, FS_PigeonHole
<1>7. QED
  BY <1>2, <1>6

\* As long as a worker waits for its first partition, those that had theirs are
\* fewer than the partitions.
LEMMA DoneIs ==
  /\ IsFiniteSet(Workers) /\ IsFiniteSet(Done) /\ Cardinality(Done) \in Nat
  /\ \A t \in Workers \ Done : Cardinality(Done) + 1 <= partition_count
  /\ \A t \in Workers \ Done : Cardinality(Done \cup {t}) = Cardinality(Done) + 1
<1>1. IsFiniteSet(Workers) /\ Cardinality(Workers) <= partition_count /\ Cardinality(Workers) \in Nat
  BY IdsAssumption, CallersAssumption, FS_RemoveElement, FS_CardinalityType, FS_Subset DEF Workers
<1>2. Done \in SUBSET Workers
  BY DEF Done
<1>3. IsFiniteSet(Done) /\ Cardinality(Done) \in Nat
  BY <1>1, <1>2, FS_Subset, FS_CardinalityType
<1>4. ASSUME NEW t \in Workers \ Done PROVE Cardinality(Done \cup {t}) = Cardinality(Done) + 1
  BY <1>3, FS_AddElement
<1>5. ASSUME NEW t \in Workers \ Done PROVE Cardinality(Done \cup {t}) <= Cardinality(Workers)
  <2>1. Done \cup {t} \in SUBSET Workers
    BY <1>2
  <2>2. QED
    BY <2>1, <1>1, FS_Subset
<1>6. ASSUME NEW t \in Workers \ Done PROVE Cardinality(Done) + 1 <= partition_count
  <2>1. PICK c, w, n \in Nat : c = Cardinality(Done) /\ w = Cardinality(Workers) /\ n = partition_count
    BY <1>1, <1>3, Basics
  <2>2. c + 1 <= w /\ w <= n
    BY <1>1, <1>4, <1>5, <2>1
  <2>3. QED
    BY <2>1, <2>2
<1>7. QED
  BY <1>1, <1>3, <1>4, <1>6

\* The set of those that need no partition any more only grows.
LEMMA DoneGrows ==
  ASSUME Done \subseteq Done' PROVE Cardinality(Done) <= Cardinality(Done') /\ Cardinality(Done') \in Nat
<1>1. IsFiniteSet(Done')
  <2>1. Done' \in SUBSET Workers
    BY DEF Done, Workers
  <2>2. QED
    BY <2>1, DoneIs, FS_Subset
<1>2. QED
  BY <1>1, FS_Subset, FS_CardinalityType

\* AllocateDescriptor gives a thread a partition that no thread still at work
\* has.
LEMMA TlsByBegin ==
  ASSUME TlsType, TlsInv, BusyInv, NEW t \in Threads, BeginAllocate(t)
  PROVE  TlsType' /\ TlsInv' /\ Assigned(t)' /\ (Assigned(t) => UNCHANGED <<tlsVars, next_partition>>)
<1>1. Running(t) /\ UNCHANGED <<life, id, pool>> /\ id[t] \in Ids
  BY DEF BeginAllocate, Turn, AssignTls, tlsVars, TlsInv, Alive, Running
<1>2. CASE tls_part[id[t]] # NoPart
  <2>1. UNCHANGED <<tlsVars, next_partition, pool>> /\ Assigned(t)
    BY <1>1, <1>2 DEF BeginAllocate, Assigned
  <2>2. TlsInv' /\ Assigned(t)' /\ TlsType'
    BY <2>1 DEF TlsInv, TlsType, tlsVars, Running, Alive, Assigned, Listed, Behind, Part, Done
  <2>3. QED
    BY <2>1, <2>2
<1>3. CASE tls_part[id[t]] = NoPart
  <2> DEFINE r == [pool |-> pool, part |-> next_partition]
  <2>1. /\ tls_part' = [tls_part EXCEPT ![id[t]] = r]
        /\ registry' = [registry EXCEPT ![id[t]] = "listed"]
        /\ next_partition' = (next_partition + 1) % partition_count
    BY <1>3 DEF BeginAllocate, AssignTls
  <2>2. r \in [pool : 1 .. MaxPools, part : Partitions] /\ r # NoPart /\ r.pool = pool /\ r.part = next_partition
    BY NamesAssumption DEF TlsType
  <2>3. next_partition' \in Partitions
    BY <2>1, Basics, NextModulo DEF TlsType
  <2> HIDE DEF r
  <2>4. TlsType'
    BY <1>1, <2>1, <2>2, <2>3 DEF TlsType
  <2>5. /\ tls_part'[id[t]] = r
        /\ \A i \in Ids \ {id[t]} : tls_part'[i] = tls_part[i] /\ registry'[i] = registry[i]
        /\ registry'[id[t]] = "listed"
    BY <1>1, <2>1 DEF TlsType
  <2>6. \A u \in Threads \ {t} : Running(u) => id[u] \in Ids \ {id[t]}
    BY <1>1 DEF TlsInv, Alive, Running
  <2>7. /\ Assigned(t)' /\ ~Assigned(t) /\ Part(t)' = next_partition
        /\ \A u \in Threads \ {t} : Assigned(u)' <=> Assigned(u)
        /\ \A u \in Threads \ {t} : Assigned(u) => Part(u)' = Part(u) /\ tls_part[id[u]] = tls_part'[id[u]]
    BY <1>1, <1>3, <2>2, <2>5, <2>6 DEF Assigned, Running, Part
  <2>8. /\ Running(Main)'
        /\ \A u \in Threads : Alive(u)' => id'[u] \in Ids
        /\ \A u, v \in Threads : Alive(u)' /\ Alive(v)' /\ u # v => id'[u] # id'[v]
        /\ (pool # 1 => \A u \in Workers : life[u] = "destroyed")'
    BY <1>1 DEF TlsInv, Running, Alive
  <2>9. \A i \in Ids : tls_part'[i] # NoPart => Listed(i)'
    BY <2>5 DEF TlsInv, Listed
  <2>10. \A u \in Threads : Assigned(u)' => tls_part'[id'[u]].pool = pool'
    BY <1>1, <2>2, <2>5, <2>7 DEF TlsInv
  <2>11. CASE t = Main
    <3>1. \A u \in Workers : ~Running(u)'
      BY <2>11, <1>1 DEF BeginAllocate, Turn, Running, Workers
    <3>2. QED
      BY <3>1, <2>4, <2>7, <2>8, <2>9, <2>10 DEF TlsInv, Assigned
  <2>12. CASE t \in Workers
    <3>1. t \notin Done /\ Done' = Done \cup {t}
      BY <2>12, <1>1, <2>7 DEF Done, Running, Workers
    <3>2. PICK n \in Nat : n = Cardinality(Done) /\ Cardinality(Done') = n + 1 /\ n + 1 <= partition_count
      BY <3>1, <2>12, DoneIs
    <3>3. ASSUME NEW u \in Workers \ {t}, Assigned(u)
          PROVE  Part(u) # next_partition /\ Behind(Part(u))' <= Cardinality(Done')
      <4>1. Part(u) \in Partitions /\ Part(u)' = Part(u)
        BY <3>3, <2>6, <2>7 DEF TlsType, Assigned, Part, Workers
      <4>2. PICK p \in Partitions : p = Part(u) /\ p = Part(u)'
        BY <4>1
      <4>3. Behind(p) <= n
        BY <3>3, <4>2, <3>2 DEF TlsInv
      <4>4. next_partition \in Partitions
        BY DEF TlsType
      <4>5. p # next_partition /\ Behind(p) \in Nat
        BY <4>3, <4>4, <3>2, BehindIs, Basics
      <4>6. Behind(p)' = Behind(p) + 1
        BY <4>4, <4>5, <2>1, BehindNext
      <4>7. Behind(p)' <= n + 1
        BY <4>6, <4>5, <4>3
      <4>8. Behind(Part(u))' = Behind(p)'
        BY <4>2 DEF Behind
      <4>9. QED
        BY <4>2, <4>5, <4>7, <4>8, <3>2
    <3>4. Behind(Part(t))' <= Cardinality(Done')
      <4>1. PICK p \in Partitions : p = next_partition
        BY DEF TlsType
      <4>2. Behind(p)' = 1
        BY <4>1, <2>1, BehindNext
      <4>3. Behind(Part(t))' = Behind(p)'
        BY <4>1, <2>7 DEF Behind
      <4>4. QED
        BY <4>2, <4>3, <3>2
    <3>5. \A u \in Workers : Assigned(u)' => Behind(Part(u))' <= Cardinality(Done')
      BY <3>3, <3>4, <2>7 DEF Workers
    <3>6. \A u, v \in Workers : Assigned(u)' /\ Assigned(v)' /\ u # v => Part(u)' # Part(v)'
      BY <3>3, <2>7 DEF Workers, TlsInv
    <3>7. QED
      BY <3>5, <3>6, <2>4, <2>7, <2>8, <2>9, <2>10 DEF TlsInv
  <2>13. QED
    BY <2>11, <2>12 DEF Workers
<1>4. QED
  BY <1>2, <1>3

\* A new pool leaves no thread with a partition of the old one.
LEMMA TlsByReplace ==
  ASSUME TlsType, TlsInv, ReplacePool
  PROVE  TlsType' /\ TlsInv' /\ UNCHANGED life /\ \A t \in Threads : ~Assigned(t)'
<1>1. /\ UNCHANGED <<life, id>> /\ pool' = pool + 1 /\ next_partition' = 0 /\ pool < MaxPools
      /\ tls_part' = [i \in Ids |-> IF Listed(i) THEN NoPart ELSE tls_part[i]]
      /\ registry' \in [Ids -> {"absent", "empty", "listed"}]
      /\ \A t \in Workers : life[t] = "destroyed"
  BY DEF ReplacePool, ClearRegistry, Workers
<1>2. \A i \in Ids : tls_part'[i] = NoPart
  BY <1>1 DEF TlsInv
<1>3. TlsType'
  <2>1. 0 \in Partitions /\ pool + 1 \in 1 .. MaxPools
    BY <1>1, Basics, CallersAssumption DEF TlsType
  <2>2. tls_part' \in [Ids -> [pool : 1 .. MaxPools, part : Partitions] \cup {NoPart}]
    BY <1>1 DEF TlsType
  <2>3. QED
    BY <1>1, <2>1, <2>2 DEF TlsType
<1>4. \A t \in Threads : ~Assigned(t)'
  BY <1>1, <1>2 DEF Assigned, Running, TlsInv, Alive
<1>5. /\ Running(Main)'
      /\ \A t \in Threads : Alive(t)' => id'[t] \in Ids
      /\ \A t, u \in Threads : Alive(t)' /\ Alive(u)' /\ t # u => id'[t] # id'[u]
  BY <1>1 DEF TlsInv, Running, Alive
<1>6. \A t \in Workers : ~Assigned(t)' /\ life'[t] = "destroyed"
  BY <1>1, <1>4 DEF Workers
<1>7. TlsInv'
  BY <1>2, <1>4, <1>5, <1>6 DEF TlsInv
<1>8. QED
  BY <1>1, <1>3, <1>4, <1>7

\* A step of one thread's life leaves what the others have.
LEMMA TlsByLifecycle ==
  ASSUME TlsType, TlsInv, Lifecycle
  PROVE  /\ TlsType' /\ TlsInv' /\ Done \subseteq Done'
         /\ \A u \in Threads : ~Idle(u) => (Running(u)' <=> Running(u)) /\ (Assigned(u)' <=> Assigned(u))
         /\ \A u \in Threads : ~Idle(u) /\ Running(u) => Part(u)' = Part(u)
         /\ \A u \in Threads : Assigned(u)' => Assigned(u) /\ Part(u)' = Part(u)
         /\ Idle(Main) /\ (Assigned(Main) => Assigned(Main)')
<1>1. PICK t \in Threads : StartThread(t) \/ ExitThread(t) \/ JoinThread(t) \/ DestroyThread(t)
  BY DEF Lifecycle, ThreadSteps
<1>2. UNCHANGED <<pool, next_partition>> /\ Idle(Main) /\ \A u \in Threads : life'[u] # life[u] => Idle(u)
  BY DEF Lifecycle
<1>3. /\ life' \in [Threads -> {"new", "running", "exited", "joined", "destroyed"}]
      /\ \A u \in Threads \ {t} : life'[u] = life[u]
      /\ life'[t] # life[t] /\ t # Main
  <2>1. PICK l \in {"running", "exited", "joined", "destroyed"} : life' = [life EXCEPT ![t] = l] /\ life[t] # l /\ t # Main
    BY <1>1 DEF StartThread, ExitThread, JoinThread, DestroyThread, Become, TlsInv, Running
  <2>2. QED
    BY <2>1 DEF TlsType
<1>4. ASSUME /\ \A u \in Threads \ {t} : id'[u] = id[u]
             /\ tls_part' \in [Ids -> [pool : 1 .. MaxPools, part : Partitions] \cup {NoPart}]
             /\ registry' \in [Ids -> {"absent", "empty", "listed"}]
             /\ id' \in [Threads -> Ids \cup {NoId}]
             /\ \A u \in Threads \ {t} : Alive(u) => id'[u] # id'[t] \/ ~Alive(t)'
             /\ Alive(t)' => id'[t] \in Ids
             /\ \A i \in Ids : tls_part'[i] # NoPart => Listed(i)'
             /\ \A u \in Threads \ {t} : Running(u) => tls_part'[id[u]] = tls_part[id[u]]
             /\ ~Assigned(t)'
             /\ Done \subseteq Done'
             /\ (pool # 1 => life'[t] = "destroyed")
      PROVE  /\ TlsType' /\ TlsInv' /\ Done \subseteq Done'
             /\ \A u \in Threads : ~Idle(u) => (Running(u)' <=> Running(u)) /\ (Assigned(u)' <=> Assigned(u))
             /\ \A u \in Threads : ~Idle(u) /\ Running(u) => Part(u)' = Part(u)
             /\ \A u \in Threads : Assigned(u)' => Assigned(u) /\ Part(u)' = Part(u)
             /\ Idle(Main) /\ (Assigned(Main) => Assigned(Main)')
  <2>1. TlsType'
    BY <1>2, <1>3, <1>4 DEF TlsType
  <2>2. /\ \A u \in Threads \ {t} : Running(u)' <=> Running(u)
        /\ \A u \in Threads \ {t} : Alive(u)' <=> Alive(u)
        /\ \A u \in Threads \ {t} : Assigned(u)' <=> Assigned(u)
        /\ \A u \in Threads \ {t} : Running(u) => Part(u)' = Part(u)
    BY <1>3, <1>4 DEF Running, Alive, Assigned, Part
  <2>3. Idle(t)
    BY <1>2, <1>3
  <2>4. \A u \in Threads : Assigned(u)' => u # t /\ Assigned(u) /\ Part(u)' = Part(u) /\ tls_part'[id'[u]] = tls_part[id[u]]
    BY <1>4, <2>2 DEF Assigned
  <2>5. ASSUME NEW u \in Workers, Assigned(u)' PROVE Behind(Part(u))' <= Cardinality(Done')
    <3>1. u \in Threads /\ Assigned(u) /\ Part(u)' = Part(u)
      BY <2>4, <2>5 DEF Workers
    <3>2. Behind(Part(u))' = Behind(Part(u)) /\ Part(u) \in Partitions /\ Running(u)
      <4>1. Running(u) /\ tls_part[id[u]] # NoPart /\ id[u] \in Ids
        BY <3>1 DEF Assigned, TlsInv, Alive, Running
      <4>2. QED
        BY <4>1, <3>1, <1>2 DEF Behind, Part, TlsType
    <3>3. Behind(Part(u)) <= Cardinality(Done) /\ Behind(Part(u)) \in Nat
      BY <3>1, <3>2, <2>5, BehindIs, Basics DEF TlsInv, TlsType
    <3>4. PICK b, c, e \in Nat : b = Behind(Part(u)) /\ c = Cardinality(Done) /\ e = Cardinality(Done') /\ c <= e
      BY <3>3, <1>4, DoneGrows, DoneIs
    <3>5. QED
      BY <3>2, <3>3, <3>4
  <2>6. \A u, v \in Workers : Assigned(u)' /\ Assigned(v)' /\ u # v => Part(u)' # Part(v)'
    BY <2>4 DEF TlsInv, Workers
  <2>7. /\ Running(Main)' /\ (Assigned(Main) => Assigned(Main)')
        /\ \A u \in Threads : Alive(u)' => id'[u] \in Ids
        /\ \A u, v \in Threads : Alive(u)' /\ Alive(v)' /\ u # v => id'[u] # id'[v]
    BY <2>2, <1>3, <1>4, MainAssumption DEF TlsInv
  <2>8. /\ \A u \in Threads : Assigned(u)' => tls_part'[id'[u]].pool = pool'
        /\ (pool # 1 => \A u \in Workers : life[u] = "destroyed")'
    BY <2>4, <1>2, <1>3, <1>4 DEF TlsInv, Workers
  <2>9. TlsInv'
    BY <1>4, <2>5, <2>6, <2>7, <2>8 DEF TlsInv
  <2>10. QED
    BY <2>1, <2>9, <1>2, <1>4, <2>2, <2>3, <2>4, <2>7 DEF TlsInv
<1>5. ASSUME \A u \in Threads \ {t} : Running(u) => id'[u] = id[u] /\ tls_part'[id[u]] = tls_part[id[u]],
             life[t] \in {"exited", "joined", "destroyed"} => life'[t] \in {"exited", "joined", "destroyed"},
             Assigned(t) => life'[t] \in {"exited", "joined", "destroyed"}
      PROVE  Done \subseteq Done'
  BY <1>3, <1>5 DEF Done, Assigned, Running, Workers
<1>6. CASE StartThread(t)
  <2> DEFINE i == CHOOSE i \in Ids : \A u \in Threads : Running(u) => id[u] # i
  <2>1. /\ life[t] = "new" /\ id' = [id EXCEPT ![t] = i] /\ tls_part' = [tls_part EXCEPT ![i] = NoPart]
        /\ life'[t] = "running" /\ UNCHANGED registry
        /\ \A u \in Threads : life[u] \in {"new", "running", "destroyed"}
    BY <1>6 DEF StartThread, Become, TlsType
  <2>2. \E j \in Ids : \A u \in Threads : Running(u) => id[u] # j
    <3>1. ~Running(t)
      BY <2>1 DEF Running
    <3>2. QED
      BY <3>1, FreeId
  <2>3. i \in Ids /\ \A u \in Threads : Running(u) => id[u] # i
    BY <2>2
  <2> HIDE DEF i
  <2>4. /\ id'[t] = i /\ \A u \in Threads \ {t} : id'[u] = id[u]
        /\ tls_part'[i] = NoPart /\ \A j \in Ids \ {i} : tls_part'[j] = tls_part[j]
        /\ tls_part' \in [Ids -> [pool : 1 .. MaxPools, part : Partitions] \cup {NoPart}]
        /\ id' \in [Threads -> Ids \cup {NoId}]
    BY <2>1, <2>3 DEF TlsType
  <2>5. \A u \in Threads \ {t} : Running(u) => id[u] \in Ids \ {i}
    BY <2>3 DEF TlsInv, Alive, Running
  <2>6. \A u \in Threads \ {t} : Alive(u) => Running(u)
    BY <2>1 DEF Alive, Running
  <2>7. Done \subseteq Done'
    BY <1>5, <2>1, <2>4, <2>5 DEF Assigned, Running
  <2>8. pool = 1
    BY <2>1, <1>3 DEF TlsInv, Workers
  <2>9. \A j \in Ids : tls_part'[j] # NoPart => Listed(j)'
    BY <2>1, <2>4 DEF TlsInv, Listed
  <2>10. ~Assigned(t)'
    BY <2>4 DEF Assigned
  <2>11. registry' \in [Ids -> {"absent", "empty", "listed"}]
    BY <2>1 DEF TlsType
  <2>12. QED
    BY <1>4, <2>3, <2>4, <2>5, <2>6, <2>7, <2>8, <2>9, <2>10, <2>11
<1>7. CASE ExitThread(t)
  <2>1. Running(t) /\ life'[t] = "exited" /\ UNCHANGED <<id, tls_part, registry>>
    BY <1>7 DEF ExitThread, Become, TlsType
  <2>2. Done \subseteq Done'
    BY <1>5, <2>1
  <2>3. ~Assigned(t)' /\ Alive(t)
    BY <2>1 DEF Assigned, Running, Alive
  <2>4. pool = 1
    BY <2>1, <1>3 DEF TlsInv, Workers, Running
  <2>5. \A u \in Threads \ {t} : Alive(u) => id'[u] # id'[t]
    BY <2>1, <2>3 DEF TlsInv
  <2>6. id'[t] \in Ids /\ \A i \in Ids : tls_part'[i] # NoPart => Listed(i)'
    BY <2>1, <2>3 DEF TlsInv, Listed
  <2>7. QED
    BY <1>4, <2>1, <2>2, <2>3, <2>4, <2>5, <2>6 DEF TlsType
<1>8. ASSUME NEW destroy \in BOOLEAN, ClearTls(id[t], destroy), UNCHANGED id, life[t] \in {"exited", "joined"},
             life'[t] \in {"joined", "destroyed"}
      PROVE  /\ TlsType' /\ TlsInv' /\ Done \subseteq Done'
             /\ \A u \in Threads : ~Idle(u) => (Running(u)' <=> Running(u)) /\ (Assigned(u)' <=> Assigned(u))
             /\ \A u \in Threads : ~Idle(u) /\ Running(u) => Part(u)' = Part(u)
             /\ \A u \in Threads : Assigned(u)' => Assigned(u) /\ Part(u)' = Part(u)
             /\ Idle(Main) /\ (Assigned(Main) => Assigned(Main)')
  <2>1. id[t] \in Ids /\ Alive(t)
    BY <1>8 DEF TlsInv, Alive
  <2>2. PICK i \in Ids : i = id[t]
    BY <2>1
  <2>3. /\ tls_part' = IF Listed(i) THEN [tls_part EXCEPT ![i] = NoPart] ELSE tls_part
        /\ registry' = [registry EXCEPT ![i] = IF @ = "absent" \/ destroy THEN "absent" ELSE "empty"]
    BY <1>8, <2>2 DEF ClearTls
  <2>4. /\ tls_part'[i] = NoPart /\ \A j \in Ids \ {i} : tls_part'[j] = tls_part[j] /\ registry'[j] = registry[j]
        /\ tls_part' \in [Ids -> [pool : 1 .. MaxPools, part : Partitions] \cup {NoPart}]
        /\ registry' \in [Ids -> {"absent", "empty", "listed"}]
    <3>1. tls_part \in [Ids -> [pool : 1 .. MaxPools, part : Partitions] \cup {NoPart}]
          /\ registry \in [Ids -> {"absent", "empty", "listed"}]
      BY DEF TlsType
    <3>2. ~Listed(i) => tls_part[i] = NoPart
      BY DEF TlsInv
    <3>3. QED
      BY <2>3, <3>1, <3>2
  <2>5. \A u \in Threads \ {t} : Alive(u) => id'[u] # id'[t] /\ id[u] \in Ids \ {i}
    BY <1>8, <2>1, <2>2 DEF TlsInv
  <2>6. ~Assigned(t)' /\ ~Assigned(t) /\ (pool # 1 => life'[t] = "destroyed")
    BY <1>8, <1>3 DEF Assigned, Running, TlsInv, Workers
  <2>7. \A u \in Threads \ {t} : Running(u) => tls_part'[id[u]] = tls_part[id[u]]
    BY <2>4, <2>5 DEF Running, Alive
  <2>8. Done \subseteq Done'
    BY <1>5, <1>8, <2>6, <2>7
  <2>9. \A j \in Ids : tls_part'[j] # NoPart => Listed(j)'
    BY <2>4 DEF TlsInv, Listed
  <2>10. id' \in [Threads -> Ids \cup {NoId}] /\ id'[t] \in Ids
    BY <1>8, <2>1 DEF TlsType
  <2>11. QED
    BY <1>4, <1>8, <2>4, <2>5, <2>6, <2>7, <2>8, <2>9, <2>10
<1>9. CASE JoinThread(t)
  BY <1>8, <1>9 DEF JoinThread, Become, TlsType
<1>10. CASE DestroyThread(t)
  BY <1>8, <1>10 DEF DestroyThread, Become, TlsType
<1>11. QED
  BY <1>1, <1>6, <1>7, <1>9, <1>10

\* Every step keeps what is said of threads and partitions.
LEMMA TlsStep ==
  ASSUME TlsType, TlsInv, BusyInv, Next \/ UNCHANGED vars
  PROVE  TlsType' /\ TlsInv'
<1>1. CASE UNCHANGED <<tlsVars, pool, next_partition>>
  BY <1>1 DEF TlsInv, TlsType, tlsVars, Running, Alive, Assigned, Listed, Behind, Part, Done
<1>2. CASE UNCHANGED vars
  BY <1>1, <1>2 DEF vars
<1>3. QED
  BY <1>1, <1>2, TlsSteps, TlsByBegin, TlsByReplace, TlsByLifecycle

-----------------------------------------------------------------------------
(***************************************************************************)
(* Where threads are, and the descriptors they hold.                       *)
(***************************************************************************)
\* The steps that touch what threads are doing.
LEMMA BusySteps ==
  Next => \/ UNCHANGED <<tlsVars, local, pc, own, ops, region>>
          \/ \E t \in Threads : \/ Enter(t) \/ Leave(t) \/ BeginAllocate(t) \/ TakeDescriptor(t)
                                \/ StartMwCAS(t) \/ Abort(t) \/ Cleanup(t) \/ PushDescriptor(t)
          \/ ReplacePool
          \/ Lifecycle
  BY ZenonT(40) DEF Next, OpSteps, ScavengeDescriptors, LookAtStatus, ReplaceConditional, tlsVars, epochVars, opVars,
     Decide, StopHelping, AllocateAndAddEntry, AddEntry, ReserveAndAddEntry, FillReserved,
     PutConditional, MeetConditional, ReachDescriptor

\* The partition of a thread that has one.
LEMMA PartIs ==
  ASSUME TlsType, TlsInv, NEW t \in Threads, Assigned(t)
  PROVE  Part(t) \in Partitions /\ Running(t) /\ id[t] \in Ids
<1>1. Running(t) /\ tls_part[id[t]] # NoPart /\ id[t] \in Ids
  BY DEF Assigned, TlsInv, Alive, Running
<1>2. QED
  BY <1>1 DEF Part, TlsType

\* Two threads that are both in an operation have different partitions.
LEMMA PartsDiffer ==
  ASSUME TlsInv, BusyInv, NEW t \in Threads, NEW u \in Threads, t # u, pc[t] # "idle", pc[u] # "idle"
  PROVE  Part(t) # Part(u) /\ t \in Workers /\ u \in Workers
<1>1. t # Main /\ u # Main
  BY DEF BusyInv, Idle, Workers
<1>2. QED
  BY <1>1 DEF TlsInv, BusyInv, Workers

\* A step of a thread that keeps its partition, and its descriptor if it is in an operation.
LEMMA BusyByPc ==
  ASSUME TlsType, TlsInv, BusyInv, PcType, RingType, NEW t \in Threads, UNCHANGED <<life, id, tls_part>>, Running(t),
         t = Main => \A u \in Workers : ~Running(u),
         \A u \in Threads \ {t} : pc'[u] = pc[u] /\ own'[u] = own[u] /\ local'[u] = local[u],
         pc'[t] # "idle" => Assigned(t) /\ local'[t] # 0,
         own'[t] # NoItem <=> pc'[t] \in {"fill", "run", "push"},
         own'[t] # NoItem => Owner(own'[t]) = Part(t)
  PROVE  BusyInv'
<1>1. \A u \in Threads : (Running(u)' <=> Running(u)) /\ (Assigned(u)' <=> Assigned(u)) /\ Part(u)' = Part(u)
  BY DEF Running, Assigned, Part
<1>2. \A u \in Threads \ {t} : (Idle(u)' <=> Idle(u)) /\ (Protected(u)' <=> Protected(u))
  BY DEF Idle, Protected
<1>3. \A u \in Threads : ~Idle(u)' => Running(u)'
  BY <1>1, <1>2 DEF BusyInv
<1>4. ~Idle(Main)' => \A u \in Workers : ~Running(u)'
  <2>1. CASE t = Main
    BY <2>1, <1>1 DEF Workers
  <2>2. CASE t # Main
    BY <2>2, <1>1, <1>2, MainAssumption DEF Workers, BusyInv
  <2>3. QED
    BY <2>1, <2>2
<1>5. ASSUME NEW u \in Threads
      PROVE  /\ pc'[u] # "idle" => Assigned(u)' /\ Protected(u)'
             /\ own'[u] # NoItem <=> pc'[u] \in {"fill", "run", "push"}
             /\ own'[u] # NoItem => Owner(own'[u]) = Part(u)'
  <2>1. CASE u = t
    BY <2>1, <1>1 DEF Protected
  <2>2. CASE u # t
    BY <2>2, <1>1, <1>2 DEF BusyInv
  <2>3. QED
    BY <2>1, <2>2
<1>6. QED
  BY <1>3, <1>4, <1>5 DEF BusyInv

\* Every step keeps what is said of the threads in an operation.
LEMMA BusyStep ==
  ASSUME TypeOK, TlsInv, BusyInv, PlaceInv, EpochInv, Next \/ UNCHANGED vars
  PROVE  PcType' /\ BusyInv'
<1> USE Types
<1>0. TlsType /\ RingType /\ ListType /\ PcType
  BY Types
<1>1. CASE UNCHANGED <<tlsVars, local, pc, own, ops, region>>
  BY <1>1, <1>0 DEF BusyInv, PcType, tlsVars, Running, Assigned, Part, Idle, Protected
<1>2. CASE UNCHANGED vars
  BY <1>1, <1>2 DEF vars, epochVars, opVars
<1>3. ASSUME NEW t \in Threads, Turn(t) PROVE Running(t) /\ (t = Main => \A u \in Workers : ~Running(u))
  BY <1>3 DEF Turn, Running, Workers
<1>4. ASSUME NEW t \in Threads, pc[t] # "idle"
      PROVE  /\ Running(t) /\ (t = Main => \A u \in Workers : ~Running(u))
             /\ Assigned(t) /\ local[t] # 0
  BY <1>4 DEF BusyInv, Assigned, Idle, Protected
<1>5. ASSUME NEW t \in Threads, Enter(t) PROVE PcType' /\ BusyInv'
  <2>1. /\ Turn(t) /\ UNCHANGED <<life, id, tls_part, pc, own, ops, region>>
        /\ local' = [local EXCEPT ![t] = current]
    BY <1>5 DEF Enter, Protect, tlsVars, opVars
  <2>2. local'[t] = current /\ current # 0 /\ \A u \in Threads \ {t} : local'[u] = local[u]
    BY <2>1, <1>0 DEF RingType, EpochInv
  <2>3. BusyInv'
    BY <2>1, <2>2, <1>0, <1>3, BusyByPc DEF BusyInv
  <2>4. QED
    BY <2>1, <2>3, <1>0 DEF PcType
<1>6. ASSUME NEW t \in Threads, Leave(t) PROVE PcType' /\ BusyInv'
  <2>1. /\ Turn(t) /\ pc[t] = "idle" /\ UNCHANGED <<life, id, tls_part, pc, own, ops>>
        /\ local' = [local EXCEPT ![t] = 0] /\ region' = [region EXCEPT ![t] = 0]
    BY <1>6 DEF Leave, Unprotect, tlsVars, Put
  <2>2. \A u \in Threads \ {t} : local'[u] = local[u]
    BY <2>1, <1>0 DEF RingType
  <2>3. BusyInv'
    BY <2>1, <2>2, <1>0, <1>3, BusyByPc DEF BusyInv
  <2>4. QED
    BY <2>1, <2>3, <1>0 DEF PcType
<1>7. ASSUME NEW t \in Threads, BeginAllocate(t) PROVE PcType' /\ BusyInv'
  <2>1. /\ Turn(t) /\ Protected(t) /\ pc[t] = "idle" /\ pc' = [pc EXCEPT ![t] = "allocate"] /\ UNCHANGED <<local, own>>
        /\ ops' = [ops EXCEPT ![t] = @ - 1] /\ region' = [region EXCEPT ![t] = @ + 1] /\ ops[t] > 0
    BY <1>7 DEF BeginAllocate, Put, epochVars
  <2>2. PcType' /\ pc'[t] = "allocate" /\ \A u \in Threads \ {t} : pc'[u] = pc[u]
    BY <2>1, <1>0 DEF PcType
  <2>3. Assigned(t)' /\ UNCHANGED <<life, id>> /\ (Assigned(t) => UNCHANGED <<tlsVars, next_partition>>)
    BY <1>0, <1>7, TlsByBegin DEF BeginAllocate, AssignTls, tlsVars
  <2>4. \A u \in Threads \ {t} : Assigned(u) => Assigned(u)' /\ Part(u)' = Part(u)
    <3>1. CASE Assigned(t)
      BY <3>1, <2>3 DEF Assigned, Running, Part, tlsVars
    <3>2. CASE ~Assigned(t)
      <4>1. Running(t) /\ tls_part[id[t]] = NoPart /\ id[t] \in Ids
        BY <3>2, <2>1, <1>3 DEF Assigned, TlsInv, Alive, Running
      <4>2. tls_part' = [tls_part EXCEPT ![id[t]] = [pool |-> pool, part |-> next_partition]]
        BY <4>1, <1>7 DEF BeginAllocate, AssignTls
      <4>3. \A u \in Threads \ {t} : Running(u) => id[u] # id[t]
        BY <4>1 DEF TlsInv, Alive, Running
      <4>4. \A u \in Threads \ {t} : Running(u) => tls_part'[id[u]] = tls_part[id[u]]
        BY <4>2, <4>3, <1>0 DEF TlsType, TlsInv, Alive, Running
      <4>5. QED
        BY <4>4, <2>3 DEF Assigned, Running, Part
    <3>3. QED
      BY <3>1, <3>2
  <2>5. ASSUME NEW u \in Threads
        PROVE  /\ ~Idle(u)' => Running(u)'
               /\ ~Idle(Main)' => u = Main \/ ~Running(u)'
               /\ pc'[u] # "idle" => Assigned(u)' /\ Protected(u)'
               /\ own'[u] # NoItem <=> pc'[u] \in {"fill", "run", "push"}
               /\ own'[u] # NoItem => Owner(own'[u]) = Part(u)'
    <3>1. CASE u = t
      BY <3>1, <2>1, <2>2, <2>3, <1>3 DEF BusyInv, Idle, Protected, Running, Workers
    <3>2. CASE u # t
      <4>1. pc'[u] = pc[u] /\ (Idle(u)' <=> Idle(u)) /\ (Running(u)' <=> Running(u)) /\ (Protected(u)' <=> Protected(u))
        BY <3>2, <2>1, <2>2, <2>3 DEF Idle, Protected, Running
      <4>2. ~Idle(Main)' => u = Main \/ ~Running(u)'
        BY <4>1, <1>3, <2>1, <2>2 DEF BusyInv, Workers, Idle, Protected
      <4>3. pc[u] # "idle" => Assigned(u)' /\ Part(u)' = Part(u)
        BY <2>4, <3>2 DEF BusyInv
      <4>4. own[u] # NoItem => pc[u] # "idle"
        BY DEF BusyInv
      <4>5. QED
        BY <4>1, <4>2, <4>3, <4>4, <2>1 DEF BusyInv
    <3>3. QED
      BY <3>1, <3>2
  <2>6. BusyInv'
    BY <2>5 DEF BusyInv, Workers
  <2>7. QED
    BY <2>2, <2>6
<1>8. ASSUME NEW t \in Threads, TakeDescriptor(t) PROVE PcType' /\ BusyInv'
  <2>1. PICK p \in Partitions : p = Part(t) /\ pc[t] = "allocate"
    BY <1>0, <1>4, <1>8, PartIs DEF TakeDescriptor
  <2>2. /\ free_list[p] # <<>> /\ free_list[p] \in Seq(Descs)
        /\ own' = [own EXCEPT ![t] = Head(free_list[p])] /\ pc' = [pc EXCEPT ![t] = "fill"]
        /\ UNCHANGED <<life, id, tls_part, local, ops, region>>
    BY <1>0, <1>8, <2>1 DEF TakeDescriptor, Put, ListType, tlsVars, epochVars
  <2>3. PICK d \in Descs : d = Head(free_list[p]) /\ Owner(d) = p
    BY <2>2 DEF PlaceInv
  <2>4. PcType' /\ pc'[t] = "fill" /\ own'[t] = d /\ \A u \in Threads \ {t} : pc'[u] = pc[u] /\ own'[u] = own[u]
    BY <2>2, <2>3, <1>0 DEF PcType
  <2>5. BusyInv'
    BY <2>1, <2>2, <2>3, <2>4, <1>0, <1>4, Basics, BusyByPc
  <2>6. QED
    BY <2>4, <2>5
<1>9. ASSUME NEW t \in Threads, NEW from \in {"fill", "run"}, NEW to \in {"run", "push"},
             pc[t] = from, pc' = Put(pc, t, to),
             UNCHANGED <<life, id, tls_part, local, own, ops, region>>
      PROVE  PcType' /\ BusyInv'
  <2>1. PcType' /\ pc'[t] = to /\ \A u \in Threads \ {t} : pc'[u] = pc[u]
    BY <1>9, <1>0 DEF PcType, Put
  <2>2. own[t] # NoItem /\ Owner(own[t]) = Part(t)
    BY <1>9 DEF BusyInv
  <2>3. QED
    BY <2>1, <2>2, <1>9, <1>0, <1>4, BusyByPc
<1>10. ASSUME NEW t \in Threads, StartMwCAS(t) \/ Abort(t) \/ Cleanup(t) PROVE PcType' /\ BusyInv'
  BY <1>9, <1>10 DEF StartMwCAS, Abort, Cleanup, EndsOn, tlsVars, epochVars
<1>11. ASSUME NEW t \in Threads, PushDescriptor(t) PROVE PcType' /\ BusyInv'
  <2>1. pc[t] = "push" /\ UNCHANGED <<life, id, tls_part, local, ops, region>>
    BY <1>11 DEF PushDescriptor, PushTurn, tlsVars
  <2>2. \/ UNCHANGED <<pc, own>>
        \/ pc' = [pc EXCEPT ![t] = "idle"] /\ own' = [own EXCEPT ![t] = NoItem]
    BY <1>11 DEF PushDescriptor, Put
  <2>3. CASE UNCHANGED <<pc, own>>
    BY <2>1, <2>3, <1>0, <1>4, BusyByPc DEF BusyInv, PcType
  <2>4. CASE pc' = [pc EXCEPT ![t] = "idle"] /\ own' = [own EXCEPT ![t] = NoItem]
    <3>1. PcType' /\ pc'[t] = "idle" /\ own'[t] = NoItem /\ \A u \in Threads \ {t} : pc'[u] = pc[u] /\ own'[u] = own[u]
      BY <2>1, <2>4, <1>0 DEF PcType
    <3>2. QED
      BY <3>1, <2>1, <1>0, <1>4, BusyByPc
  <2>5. QED
    BY <2>2, <2>3, <2>4
<1>12. ASSUME ReplacePool PROVE PcType' /\ BusyInv'
  <2>1. \A t \in Threads : Idle(t) /\ own[t] = NoItem
    BY <1>12 DEF ReplacePool, BusyInv, Running, Idle
  <2>2. UNCHANGED <<local, pc, own, ops, region>>
    BY <1>12 DEF ReplacePool, opVars
  <2>3. \A t \in Threads : Idle(t)' /\ own'[t] = NoItem /\ pc'[t] = "idle"
    BY <2>1, <2>2 DEF Idle, Protected
  <2>4. QED
    BY <2>2, <2>3, <1>0, MainAssumption DEF BusyInv, PcType
<1>13. ASSUME Lifecycle PROVE PcType' /\ BusyInv'
  <2>1. UNCHANGED <<local, pc, own, ops, region>>
    BY <1>13 DEF Lifecycle, epochVars, opVars
  <2>2. \A t \in Threads : (Idle(t)' <=> Idle(t)) /\ (Protected(t)' <=> Protected(t))
    BY <2>1 DEF Idle, Protected
  <2>3. /\ \A u \in Threads : ~Idle(u) => (Running(u)' <=> Running(u)) /\ (Assigned(u)' <=> Assigned(u))
        /\ \A u \in Threads : ~Idle(u) /\ Running(u) => Part(u)' = Part(u)
        /\ Idle(Main)
    BY <1>0, <1>13, TlsByLifecycle
  <2>4. \A t \in Threads : pc[t] # "idle" => ~Idle(t) /\ Running(t)
    BY DEF BusyInv, Idle
  <2>5. \A t \in Threads : own[t] # NoItem => pc[t] # "idle"
    BY DEF BusyInv
  <2>6. QED
    BY <2>1, <2>2, <2>3, <2>4, <2>5, <1>0, MainAssumption DEF BusyInv, PcType
<1>14. QED
  BY <1>1, <1>2, <1>5, <1>6, <1>7, <1>8, <1>10, <1>11, <1>12, <1>13, BusySteps

-----------------------------------------------------------------------------
(***************************************************************************)
(* Where descriptors are.                                                  *)
(***************************************************************************)
\* The steps that move a descriptor.
LEMMA PlaceSteps ==
  Next => \/ UNCHANGED <<free_list, ring, tail, own>>
          \/ \E t \in Threads : \/ TakeDescriptor(t) \/ ScavengeDescriptors(t) \/ PushDescriptor(t)
          \/ ReplacePool
  BY ZenonT(40) DEF Next, OpSteps, LookAtStatus, ReplaceConditional, Enter, Leave, BeginAllocate, Lifecycle, StartMwCAS, Abort,
     Cleanup, Decide, StopHelping, AllocateAndAddEntry, AddEntry, ReserveAndAddEntry, FillReserved,
     PutConditional, MeetConditional, ReachDescriptor, ringVars, descVars, opVars

\* A new partition's free list has each of its descriptors once.
LEMMA FreshList ==
  ASSUME NEW p \in Partitions
  PROVE  /\ DescsOf(p) \in Seq(Descs)
         /\ \A i, j \in DOMAIN DescsOf(p) : Owner(DescsOf(p)[i]) = p /\ (i # j => DescsOf(p)[i] # DescsOf(p)[j])
         /\ \A d \in Descs : Owner(d) = p => \E i \in DOMAIN DescsOf(p) : DescsOf(p)[i] = d
<1>1. \A i \in 1 .. ItemCount : ItemCount - i \in Slots
  BY Basics
<1>2. \A i \in 1 .. ItemCount : <<p, ItemCount - i>> \in Descs
  BY <1>1, Basics
<1>3. DescsOf(p) \in Seq(Descs) /\ DOMAIN DescsOf(p) = 1 .. ItemCount
      /\ \A i \in 1 .. ItemCount : DescsOf(p)[i] = <<p, ItemCount - i>>
  BY <1>2, Basics DEF DescsOf
<1>4. ASSUME NEW d \in Descs, Owner(d) = p PROVE \E i \in 1 .. ItemCount : DescsOf(p)[i] = d
  <2>1. PICK s \in Slots : d = <<p, s>>
    BY <1>4, Basics
  <2>2. PICK i \in 1 .. ItemCount : ItemCount - i = s
    <3>1. ItemCount - s \in 1 .. ItemCount /\ ItemCount - (ItemCount - s) = s
      BY Basics
    <3>2. QED
      BY <3>1
  <2>3. QED
    BY <2>1, <2>2, <1>3
<1>5. \A i, j \in 1 .. ItemCount : i # j => ItemCount - i # ItemCount - j
  BY Basics
<1>6. QED
  BY <1>3, <1>4, <1>5 DEF Owner

\* The list in the opposite order has the same elements.
LEMMA ReversedList ==
  ASSUME NEW q, NEW X, NEW S, Lists(q, X, S)
  PROVE  Lists(Reverse(q) \o <<>>, X, S)
<1> DEFINE r == Reverse(q)
<1>1. q \in Seq(X) /\ ToSet(q) = S /\ Len(q) \in Nat /\ DOMAIN q = 1 .. Len(q)
      /\ \A i, j \in 1 .. Len(q) : i # j => q[i] # q[j]
  BY DEF Lists
<1>2. PICK n \in Nat : n = Len(q)
  BY <1>1
<1>3. \A i \in 1 .. n : (n - i) + 1 \in 1 .. n
  BY <1>2
<1>4. r \in Seq(X) /\ DOMAIN r = 1 .. n /\ \A i \in 1 .. n : r[i] = q[(n - i) + 1]
  BY <1>1, <1>2, <1>3 DEF Reverse
<1>5. r \o <<>> = r
  BY <1>4
<1> HIDE DEF r
<1>6. \A i, j \in 1 .. n : i # j => r[i] # r[j]
  <2>1. \A i, j \in 1 .. n : i # j => (n - i) + 1 # (n - j) + 1
    OBVIOUS
  <2>2. QED
    BY <2>1, <1>1, <1>2, <1>3, <1>4
<1>7. ToSet(r) = ToSet(q)
  <2>1. \A i \in 1 .. n : q[i] = r[(n - i) + 1]
    <3>1. \A i \in 1 .. n : (n - ((n - i) + 1)) + 1 = i
      OBVIOUS
    <3>2. QED
      BY <3>1, <1>3, <1>4
  <2>2. ToSet(q) = {q[i] : i \in 1 .. n} /\ ToSet(r) = {r[i] : i \in 1 .. n}
    BY <1>1, <1>2, <1>4 DEF ToSet
  <2>3. QED
    BY <2>1, <2>2, <1>3, <1>4, SMTT(40)
<1>8. Lists(r, X, S)
  BY <1>1, <1>4, <1>6, <1>7 DEF Lists
<1>9. QED
  BY <1>5, <1>8 DEF r

\* A thread that is about to retire its descriptor finds an empty slot: the
\* ring is as large as the partition and holds none twice, and the slot at the
\* tail is the oldest.
LEMMA EmptyAtTail ==
  ASSUME RingType, PcType, BusyInv, PlaceInv, RingInv, NEW t \in Threads, pc[t] = "push"
  PROVE  LET p == Owner(own[t])
         IN  own[t] \in Descs /\ p \in Partitions /\ ring[p][tail[p]] = EmptySlot
<1>1. PICK d \in Descs : d = own[t]
  BY DEF BusyInv, PcType
<1>2. PICK p \in Partitions : p = Owner(d)
  BY <1>1, Basics
<1>3. PICK k \in Slots : k = tail[p]
  BY DEF RingType
<1>4. ring[p] \in [Slots -> [item : Descs \cup {NoItem}, epoch : Nat]]
  BY DEF RingType
<1>5. ASSUME ring[p][k].epoch # 0 PROVE FALSE
  <2>1. \A s \in Slots : Age(p, s) \in 1 .. ItemCount /\ (s # k => Age(p, s) < Age(p, k))
    BY <1>3, Basics DEF Age
  <2>2. \A s \in Slots : ring[p][s].epoch # 0
    <3>1. ASSUME NEW s \in Slots, s # k PROVE ring[p][k].epoch <= ring[p][s].epoch
      BY <3>1, <2>1, <1>5 DEF RingInv
    <3>2. \A s \in Slots : ring[p][s].epoch \in Nat
      BY <1>4
    <3>3. QED
      BY <3>1, <3>2, <1>5
  <2>3. \A s \in Slots : ring[p][s].item \in Descs /\ Owner(ring[p][s].item) = p
    BY <2>2, <1>4 DEF PlaceInv
  <2> DEFINE f == [s \in Slots |-> ring[p][s].item[2]]
             T == Slots \ {d[2]}
  <2>4. \A s \in Slots : ring[p][s].item # d
    BY <1>1, <1>2 DEF PlaceInv, InRing, Held
  <2>5. \A s \in Slots : f[s] \in T
    <3>1. ASSUME NEW s \in Slots PROVE f[s] \in T
      <4>1. PICK e \in Descs : e = ring[p][s].item /\ Owner(e) = p /\ e # d
        BY <2>3, <2>4
      <4>2. e[2] \in Slots /\ e[2] # d[2]
        BY <4>1, <1>2, Basics
      <4>3. QED
        BY <4>1, <4>2
    <3>2. QED
      BY <3>1
  <2>6. \A s, r \in Slots : s # r => f[s] # f[r]
    <3>1. ASSUME NEW s \in Slots, NEW r \in Slots, s # r PROVE f[s] # f[r]
      <4>1. PICK e \in Descs : e = ring[p][s].item /\ Owner(e) = p
        BY <2>3
      <4>2. PICK g \in Descs : g = ring[p][r].item /\ Owner(g) = p
        BY <2>3
      <4>3. e # g
        BY <3>1, <4>1, <4>2, Basics DEF PlaceInv
      <4>4. e[2] # g[2]
        BY <4>1, <4>2, <4>3, Basics
      <4>5. QED
        BY <4>1, <4>2, <4>4
    <3>2. QED
      BY <3>1
  <2>7. f \in [Slots -> T]
    BY <2>5
  <2>8. IsFiniteSet(Slots) /\ Cardinality(Slots) \in Nat
    BY Basics, FS_Interval, FS_CardinalityType
  <2>9. IsFiniteSet(T) /\ Cardinality(T) < Cardinality(Slots)
    <3>1. PICK x \in Slots : x = d[2]
      BY Basics
    <3>2. IsFiniteSet(Slots \ {x}) /\ Cardinality(Slots \ {x}) = Cardinality(Slots) - 1
      BY <2>8, FS_RemoveElement
    <3>3. QED
      BY <2>8, <3>1, <3>2
  <2> HIDE DEF f, T
  <2>10. PICK s, r \in Slots : s # r /\ f[s] = f[r]
    BY <2>7, <2>8, <2>9, FS_PigeonHole
  <2>11. QED
    BY <2>6, <2>10
<1>6. ring[p][k] = EmptySlot
  <2>1. ring[p][k].item = NoItem /\ ring[p][k].epoch = 0
    BY <1>5 DEF PlaceInv
  <2>2. QED
    BY <2>1, <1>4 DEF EmptySlot
<1>7. QED
  BY <1>1, <1>2, <1>3, <1>6

\* What Push does, then.
PushEffect(t, d, p, k) ==
  /\ d = own[t] /\ p = Owner(d) /\ k = tail[p] /\ pc[t] = "push"
  /\ ring[p][k] = EmptySlot
  /\ ring' = [ring EXCEPT ![p][k] = [item |-> d, epoch |-> stamp[t]]]
  /\ tail' = [tail EXCEPT ![p] = IF k + 1 = ItemCount THEN 0 ELSE k + 1]
  /\ safe' = PushSafe(p) /\ current' = IF BumpsAt(k) THEN Bumped ELSE current
  /\ stamp' = [stamp EXCEPT ![t] = 0]
  /\ pc' = [pc EXCEPT ![t] = "idle"] /\ own' = [own EXCEPT ![t] = NoItem]
  /\ UNCHANGED <<tlsVars, local, pool, next_partition, descVars, reached, todo, cond, ops, region>>

\* A turn of Push, with the slot known to be empty.
LEMMA PushIs ==
  ASSUME TypeOK, BusyInv, PlaceInv, RingInv, NEW t \in Threads, PushDescriptor(t)
  PROVE  \E d \in Descs, p \in Partitions, k \in Slots : PushEffect(t, d, p, k)
<1>0. pc[t] = "push"
  BY DEF PushDescriptor
<1>1. PICK d \in Descs, p \in Partitions, k \in Slots : d = own[t] /\ p = Owner(d) /\ k = tail[p] /\ ring[p][k] = EmptySlot
  BY <1>0, Types, EmptyAtTail DEF RingType
<1>2. ring[p][k].epoch = 0
  BY <1>1 DEF EmptySlot
<1>3. PushTakes(p) /\ PushFrees(p) = <<>>
  BY <1>1, <1>2 DEF PushTakes, PushFrees
<1>4. FreeDescriptors(p, <<>>) /\ PushTurn(t, p, d)
  BY <1>1, <1>3 DEF PushDescriptor
<1>5. ToSet(<<>>) = {} /\ Reverse(<<>>) = <<>>
  BY DEF ToSet, Reverse
<1>6. mem' = mem
  BY <1>4, <1>5 DEF FreeDescriptors
<1>7. desc' = desc
  BY <1>4, <1>5, Types DEF FreeDescriptors, DescType
<1>8. free_list' = free_list
  <2>1. free_list[p] \in Seq(Descs)
    BY Types DEF ListType
  <2>2. <<>> \o free_list[p] = free_list[p]
    BY <2>1
  <2>3. QED
    BY <2>2, <1>4, <1>5, Types DEF FreeDescriptors, Put, ListType
<1>81. tail' = [tail EXCEPT ![p] = IF k + 1 = ItemCount THEN 0 ELSE k + 1]
  BY <1>1, <1>4, Basics, NextModulo, Types DEF PushTurn, RingType
<1>9. /\ ring' = [ring EXCEPT ![p][k] = [item |-> d, epoch |-> stamp[t]]]
      /\ safe' = PushSafe(p) /\ current' = IF BumpsAt(k) THEN Bumped ELSE current
      /\ stamp' = [stamp EXCEPT ![t] = 0] /\ UNCHANGED local
  BY <1>1, <1>3, <1>4, Types DEF PushTurn, RingType
<1>10. /\ pc' = [pc EXCEPT ![t] = "idle"] /\ own' = [own EXCEPT ![t] = NoItem]
       /\ UNCHANGED <<tlsVars, pool, next_partition, word, reached, todo, cond, ops, region>>
  BY <1>1, <1>3 DEF PushDescriptor, Put
<1>11. PushEffect(t, d, p, k)
  BY <1>0, <1>1, <1>6, <1>7, <1>8, <1>81, <1>9, <1>10 DEF descVars, PushEffect
<1>12. QED
  BY <1>11

\* What an allocation that finds the free list empty does.
ScavengeEffect(t, p, s, q) ==
  /\ p = Part(t) /\ s = SafeAfterBump /\ pc[t] = "allocate" /\ free_list[p] = <<>>
  /\ Lists(q, Descs, {ring[p][k].item : k \in Reclaimable(p, s)})
  /\ free_list' = [free_list EXCEPT ![p] = q]
  /\ ring' = AfterScavenge(p, s) /\ current' = Bumped /\ safe' = s
  /\ desc' = [d \in Descs |-> IF d \in ToSet(q) THEN Initialize ELSE desc[d]]
  /\ mem' \subseteq mem
  /\ UNCHANGED <<tlsVars, local, tail, stamp, pool, next_partition, word, opVars>>

\* A turn of AllocateDescriptor that finds no free descriptor, with its list
\* known.
LEMMA ScavengeIs ==
  ASSUME TypeOK, TlsInv, BusyInv, PlaceInv, EpochInv, NEW t \in Threads, ScavengeDescriptors(t)
  PROVE  \E p \in Partitions, s \in Nat, q \in Seq(Descs) : ScavengeEffect(t, p, s, q)
<1>0. pc[t] = "allocate" /\ RingType /\ TlsType /\ ListType
  BY Types DEF ScavengeDescriptors
<1>1. PICK p \in Partitions : p = Part(t)
  BY <1>0, PartIs DEF BusyInv
<1>2. PICK s \in Nat : s = SafeAfterBump
  BY <1>0, SafeBump DEF RingType, EpochInv
<1>3. PICK g : g = Scavenged(p, s)
  OBVIOUS
<1>4. Lists(g, Descs, {ring[p][k].item : k \in Reclaimable(p, s)})
  <2>1. ring[p] \in [Slots -> [item : Descs \cup {NoItem}, epoch : Nat]]
    BY <1>0 DEF RingType
  <2>2. \A k \in Slots : ring[p][k].epoch # 0 => ring[p][k].item # NoItem
    BY DEF PlaceInv
  <2>3. \A j, k \in Slots : j # k /\ ring[p][j].item # NoItem => ring[p][j].item # ring[p][k].item
    BY DEF PlaceInv
  <2>4. QED
    BY <2>1, <2>2, <2>3, <1>3, ScavengedIs
<1>5. PICK q : q = Reverse(g) \o <<>>
  OBVIOUS
<1>6. Lists(q, Descs, {ring[p][k].item : k \in Reclaimable(p, s)})
  BY <1>4, <1>5, ReversedList
<1>7. q \in Seq(Descs) /\ ToSet(q) = ToSet(g)
  BY <1>4, <1>6 DEF Lists
<1>8. /\ free_list[p] = <<>> /\ current' = Bumped /\ safe' = s /\ ring' = AfterScavenge(p, s)
      /\ FreeDescriptors(p, g)
      /\ UNCHANGED <<tlsVars, local, tail, stamp, pool, next_partition, word, opVars>>
  BY <1>1, <1>2, <1>3 DEF ScavengeDescriptors
<1>9. free_list' = [free_list EXCEPT ![p] = q]
  BY <1>5, <1>8 DEF FreeDescriptors, Put
<1>10. desc' = [d \in Descs |-> IF d \in ToSet(q) THEN Initialize ELSE desc[d]]
  BY <1>7, <1>8, Zenon DEF FreeDescriptors
<1>11. mem' \subseteq mem
  BY <1>7, <1>8 DEF FreeDescriptors
<1>12. ScavengeEffect(t, p, s, q)
  BY <1>0, <1>1, <1>2, <1>6, <1>8, <1>9, <1>10, <1>11, Zenon DEF ScavengeEffect
<1>13. QED
  BY <1>7, <1>12

\* The slots of the ring after that.
LEMMA ScavengedRing ==
  ASSUME RingType, NEW p \in Partitions, NEW s \in Nat, ring' = AfterScavenge(p, s)
  PROVE  /\ ring' \in [Partitions -> [Slots -> [item : Descs \cup {NoItem}, epoch : Nat]]]
         /\ \A o \in Partitions \ {p} : ring'[o] = ring[o]
         /\ \A k \in Slots : k \in Reclaimable(p, s) => ring'[p][k] = EmptySlot
         /\ \A k \in Slots : k \notin Reclaimable(p, s) => ring'[p][k] = ring[p][k]
         /\ \A k \in Slots : k \in Reclaimable(p, s) <=> ring[p][k].epoch # 0 /\ ring[p][k].epoch <= s
<1>1. EmptySlot \in [item : Descs \cup {NoItem}, epoch : Nat]
  BY DEF EmptySlot
<1>2. ring' = [ring EXCEPT ![p] = [k \in Slots |-> IF k \in Reclaimable(p, s) THEN EmptySlot ELSE ring[p][k]]]
  BY DEF AfterScavenge, RingType
<1>3. \A k \in Slots : k \in Reclaimable(p, s) <=> ring[p][k].epoch # 0 /\ ring[p][k].epoch <= s
  BY DEF Reclaimable, IsSafeToReclaim
<1>4. QED
  BY <1>1, <1>2, <1>3 DEF RingType

\* Every step leaves each descriptor in one place.
LEMMA PlaceStep ==
  ASSUME TypeOK, TlsInv, BusyInv, PlaceInv, RingInv, EpochInv, Next \/ UNCHANGED vars
  PROVE  ListType' /\ PlaceInv'
<1>0. TlsType /\ RingType /\ ListType /\ PcType
  BY Types
<1>1. CASE UNCHANGED <<free_list, ring, tail, own>>
  BY <1>1, <1>0 DEF PlaceInv, ListType, InFree, InRing, Held
<1>2. CASE UNCHANGED vars
  BY <1>1, <1>2 DEF vars, ringVars, descVars, opVars
<1>3. ASSUME NEW t \in Threads, TakeDescriptor(t) PROVE ListType' /\ PlaceInv'
  <2>1. PICK p \in Partitions : p = Part(t) /\ pc[t] = "allocate"
    BY <1>0, <1>3, PartIs DEF TakeDescriptor, BusyInv
  <2>2. PICK q \in Seq(Descs) : q = free_list[p]
    BY <1>0 DEF ListType
  <2>3. /\ q # <<>> /\ free_list' = [free_list EXCEPT ![p] = Tail(q)] /\ own' = [own EXCEPT ![t] = Head(q)]
        /\ UNCHANGED ring
    BY <1>3, <2>1, <2>2 DEF TakeDescriptor, Put, ringVars
  <2>4. PICK n \in Nat : n = Len(q) /\ n > 0
    BY <2>3
  <2>5. PICK d \in Descs : d = Head(q) /\ d = q[1] /\ Owner(d) = p /\ 1 \in DOMAIN q
    BY <2>2, <2>3 DEF PlaceInv
  <2>6. PICK r \in Seq(Descs) : r = Tail(q) /\ Len(r) = n - 1 /\ \A i \in 1 .. n - 1 : r[i] = q[i + 1]
    <3>1. Tail(q) \in Seq(Descs) /\ Len(Tail(q)) = n - 1 /\ \A i \in 1 .. n - 1 : Tail(q)[i] = q[i + 1]
      BY <2>3, <2>4
    <3>2. QED
      BY <3>1
  <2>7. DOMAIN q = 1 .. n /\ DOMAIN r = 1 .. n - 1
    BY <2>4, <2>6
  <2>8. /\ free_list'[p] = r /\ \A o \in Partitions \ {p} : free_list'[o] = free_list[o]
        /\ ListType' /\ own'[t] = d /\ \A u \in Threads \ {t} : own'[u] = own[u]
    BY <1>0, <2>3, <2>5, <2>6 DEF ListType, PcType
  <2>9. own[t] = NoItem
    BY <2>1 DEF BusyInv
  <2>10. \A i, j \in 1 .. n : Owner(q[i]) = p /\ (i # j => q[i] # q[j])
    BY <2>2, <2>7 DEF PlaceInv
  <2>11. \A i \in 1 .. n - 1 : i + 1 \in 1 .. n /\ i + 1 # 1
    OBVIOUS
  <2>12. \A i, j \in 1 .. n - 1 : Owner(r[i]) = p /\ r[i] # d /\ (i # j => r[i] # r[j])
    <3>1. ASSUME NEW i \in 1 .. n - 1, NEW j \in 1 .. n - 1
          PROVE  Owner(r[i]) = p /\ r[i] # d /\ (i # j => r[i] # r[j])
      <4>1. PICK x, y \in 1 .. n : x = i + 1 /\ y = j + 1 /\ x # 1 /\ (i # j => x # y)
        BY <2>11
      <4>2. r[i] = q[x] /\ r[j] = q[y] /\ d = q[1] /\ 1 \in 1 .. n
        BY <4>1, <2>4, <2>5, <2>6
      <4>3. QED
        BY <4>1, <4>2, <2>10
    <3>2. QED
      BY <3>1
  <2>13. \A o \in Partitions : \A i, j \in DOMAIN free_list'[o] :
           Owner(free_list'[o][i]) = o /\ (i # j => free_list'[o][i] # free_list'[o][j])
    BY <2>7, <2>8, <2>12 DEF PlaceInv
  <2>14. \A e \in Descs \ {d} : InFree(e)' <=> InFree(e)
    <3>1. ASSUME NEW e \in Descs \ {d} PROVE InFree(e)' <=> InFree(e)
      <4>1. CASE Owner(e) # p
        BY <4>1, <2>8, Basics DEF InFree
      <4>2. CASE Owner(e) = p
        <5>1. (\E i \in 1 .. n - 1 : r[i] = e) <=> (\E i \in 1 .. n : q[i] = e)
          <6>1. ASSUME NEW i \in 1 .. n, q[i] = e PROVE \E j \in 1 .. n - 1 : r[j] = e
            <7>1. i # 1
              BY <6>1, <2>5
            <7>2. i - 1 \in 1 .. n - 1 /\ (i - 1) + 1 = i
              BY <7>1
            <7>3. QED
              BY <7>2, <6>1, <2>6
          <6>2. ASSUME NEW i \in 1 .. n - 1, r[i] = e PROVE \E j \in 1 .. n : q[j] = e
            BY <6>2, <2>6, <2>11
          <6>3. QED
            BY <6>1, <6>2
        <5>2. QED
          BY <5>1, <4>2, <2>2, <2>7, <2>8 DEF InFree
      <4>3. QED
        BY <4>1, <4>2
    <3>2. QED
      BY <3>1
  <2>15. InFree(d) /\ ~InFree(d)'
    BY <2>2, <2>5, <2>7, <2>8, <2>12 DEF InFree
  <2>16. \A e \in Descs : InRing(e)' <=> InRing(e)
    BY <2>3 DEF InRing
  <2>17. /\ Held(d)' /\ ~Held(d) /\ ~InRing(d)
         /\ \A e \in Descs \ {d} : Held(e)' <=> Held(e)
    <3>1. ~Held(d) /\ ~InRing(d)
      BY <2>15 DEF PlaceInv
    <3>2. Held(d)'
      BY <2>8 DEF Held
    <3>3. \A e \in Descs \ {d} : Held(e)' <=> Held(e)
      <4>1. \A e \in Descs : e # NoItem
        BY Basics
      <4>2. QED
        BY <4>1, <2>8, <2>9 DEF Held
    <3>4. QED
      BY <3>1, <3>2, <3>3
  <2>18. \A u, v \in Threads : u # v /\ own'[u] # NoItem => own'[u] # own'[v]
    BY <2>8, <2>17, Basics, SMTT(40) DEF Held, PlaceInv
  <2>19. \A e \in Descs : /\ InFree(e)' \/ InRing(e)' \/ Held(e)'
                          /\ ~(InFree(e)' /\ InRing(e)') /\ ~(InFree(e)' /\ Held(e)') /\ ~(InRing(e)' /\ Held(e)')
    BY <2>14, <2>15, <2>16, <2>17 DEF PlaceInv
  <2>20. QED
    BY <2>3, <2>8, <2>13, <2>18, <2>19 DEF PlaceInv
<1>4. ASSUME NEW t \in Threads, ScavengeDescriptors(t) PROVE ListType' /\ PlaceInv'
  <2>0. PICK p \in Partitions, s \in Nat, q \in Seq(Descs) : ScavengeEffect(t, p, s, q)
    BY <1>4, ScavengeIs
  <2>1.    /\ free_list[p] = <<>>
           /\ Lists(q, Descs, {ring[p][k].item : k \in Reclaimable(p, s)})
           /\ free_list' = [free_list EXCEPT ![p] = q]
           /\ ring' = AfterScavenge(p, s) /\ UNCHANGED opVars
    BY <2>0 DEF ScavengeEffect
  <2>2. /\ \A o \in Partitions \ {p} : ring'[o] = ring[o]
        /\ \A k \in Slots : k \in Reclaimable(p, s) => ring'[p][k] = EmptySlot
        /\ \A k \in Slots : k \notin Reclaimable(p, s) => ring'[p][k] = ring[p][k]
        /\ \A k \in Slots : k \in Reclaimable(p, s) => ring[p][k].epoch # 0
    BY <1>0, <2>1, ScavengedRing
  <2>3. UNCHANGED own /\ EmptySlot.item = NoItem /\ EmptySlot.epoch = 0
    BY <2>1 DEF opVars, EmptySlot
  <2>4. /\ free_list'[p] = q /\ \A o \in Partitions \ {p} : free_list'[o] = free_list[o]
        /\ ListType'
    BY <1>0, <2>1 DEF ListType
  <2>5. /\ \A i, j \in DOMAIN q : i # j => q[i] # q[j]
        /\ \A i \in DOMAIN q : \E k \in Reclaimable(p, s) : q[i] = ring[p][k].item
        /\ \A k \in Reclaimable(p, s) : \E i \in DOMAIN q : q[i] = ring[p][k].item
    BY <2>1 DEF Lists, ToSet
  <2>6. Reclaimable(p, s) \subseteq Slots
    BY DEF Reclaimable
  <2>7. \A k \in Reclaimable(p, s) : ring[p][k].item # NoItem /\ Owner(ring[p][k].item) = p
    BY <2>2, <2>6 DEF PlaceInv
  <2>8. \A o \in Partitions : \A i, j \in DOMAIN free_list'[o] :
           Owner(free_list'[o][i]) = o /\ (i # j => free_list'[o][i] # free_list'[o][j])
    <3>1. ASSUME NEW i \in DOMAIN q PROVE Owner(q[i]) = p
      BY <2>5, <2>7
    <3>2. QED
      BY <3>1, <2>4, <2>5 DEF PlaceInv
  <2>9. \A o \in Partitions : \A k \in Slots : ring'[o][k] = EmptySlot \/ ring'[o][k] = ring[o][k]
    BY <2>2
  <2>10. /\ \A o \in Partitions : \A k \in Slots :
              /\ ring'[o][k].item # NoItem => Owner(ring'[o][k].item) = o
              /\ ring'[o][k].item = NoItem <=> ring'[o][k].epoch = 0
         /\ \A o \in Partitions : \A k, r \in Slots :
              k # r /\ ring'[o][k].item # NoItem => ring'[o][k].item # ring'[o][r].item
    BY <2>3, <2>9 DEF PlaceInv
  <2>11. ASSUME NEW e \in Descs
         PROVE  /\ Held(e)' <=> Held(e)
                /\ InRing(e)' => InRing(e)
                /\ InFree(e)' => InFree(e) \/ InRing(e)
                /\ ~(InFree(e)' /\ InRing(e)')
                /\ InFree(e) \/ InRing(e) => InFree(e)' \/ InRing(e)'
    <3>1. Held(e)' <=> Held(e)
      BY <2>3 DEF Held
    <3>2. CASE Owner(e) # p
      <4>1. (InRing(e)' <=> InRing(e)) /\ (InFree(e)' <=> InFree(e))
        BY <3>2, <2>2, <2>4, Basics DEF InRing, InFree
      <4>2. QED
        BY <3>1, <4>1 DEF PlaceInv
    <3>3. CASE Owner(e) = p
      <4>1. ~InFree(e)
        BY <3>3, <2>1 DEF InFree
      <4>2. InRing(e)' <=> \E k \in Slots \ Reclaimable(p, s) : ring[p][k].item = e
        <5>1. e # NoItem
          BY Basics
        <5>2. InRing(e)' <=> \E k \in Slots : ring'[p][k].item = e
          BY <3>3 DEF InRing
        <5>3. \A k \in Slots : ring'[p][k].item = e <=> k \notin Reclaimable(p, s) /\ ring[p][k].item = e
          BY <5>1, <2>2, <2>3
        <5>4. QED
          BY <5>2, <5>3
      <4>3. InFree(e)' <=> \E k \in Reclaimable(p, s) : ring[p][k].item = e
        BY <3>3, <2>4, <2>5 DEF InFree
      <4>4. InRing(e) <=> \E k \in Slots : ring[p][k].item = e
        BY <3>3 DEF InRing
      <4>5. \A k, j \in Slots : ring[p][k].item = e /\ ring[p][j].item = e => k = j
        BY Basics DEF PlaceInv
      <4>6. QED
        BY <3>1, <4>1, <4>2, <4>3, <4>4, <4>5, <2>6
    <3>4. QED
      BY <3>2, <3>3
  <2>12. \A e \in Descs : /\ InFree(e)' \/ InRing(e)' \/ Held(e)'
                          /\ ~(InFree(e)' /\ InRing(e)') /\ ~(InFree(e)' /\ Held(e)') /\ ~(InRing(e)' /\ Held(e)')
    BY <2>11 DEF PlaceInv
  <2>13. QED
    BY <2>3, <2>4, <2>8, <2>10, <2>12 DEF PlaceInv
<1>5. ASSUME NEW t \in Threads, PushDescriptor(t) PROVE ListType' /\ PlaceInv'
  <2>0. PICK d \in Descs, p \in Partitions, k \in Slots : PushEffect(t, d, p, k)
    BY <1>5, PushIs
  <2>1.    /\ d = own[t] /\ p = Owner(d) /\ pc[t] = "push" /\ ring[p][k] = EmptySlot
           /\ ring' = [ring EXCEPT ![p][k] = [item |-> d, epoch |-> stamp[t]]]
           /\ own' = [own EXCEPT ![t] = NoItem] /\ UNCHANGED descVars
    BY <2>0 DEF PushEffect
  <2>2. PICK n \in Nat \ {0} : n = stamp[t]
    BY <2>1, <1>0 DEF EpochInv, RingType
  <2>3. /\ ring'[p][k].item = d /\ ring'[p][k].epoch = n
        /\ \A o \in Partitions : \A s \in Slots : o # p \/ s # k => ring'[o][s] = ring[o][s]
        /\ ring[p][k].item = NoItem
    BY <1>0, <2>1, <2>2 DEF RingType, EmptySlot
  <2>4. own'[t] = NoItem /\ \A u \in Threads \ {t} : own'[u] = own[u]
    BY <1>0, <2>1 DEF PcType
  <2>5. UNCHANGED free_list /\ \A e \in Descs : InFree(e)' <=> InFree(e)
    BY <2>1 DEF descVars, InFree
  <2>6. Held(d) /\ ~Held(d)' /\ \A e \in Descs \ {d} : Held(e)' <=> Held(e)
    BY <2>1, <2>4, Basics DEF Held, PlaceInv
  <2>7. ~InRing(d) /\ ~InFree(d)
    BY <2>6 DEF PlaceInv
  <2>8. InRing(d)' /\ \A e \in Descs \ {d} : InRing(e)' <=> InRing(e)
    BY <2>1, <2>3, Basics DEF InRing
  <2>9. \A s \in Slots : s # k => ring[p][s].item # d
    BY <2>1, <2>7 DEF InRing
  <2>10. \A o \in Partitions : \A s \in Slots :
              /\ ring'[o][s].item # NoItem => Owner(ring'[o][s].item) = o
              /\ ring'[o][s].item = NoItem <=> ring'[o][s].epoch = 0
    BY <2>1, <2>2, <2>3, Basics DEF PlaceInv
  <2>11. \A o \in Partitions : \A s, r \in Slots :
              s # r /\ ring'[o][s].item # NoItem => ring'[o][s].item # ring'[o][r].item
    BY <2>3, <2>9 DEF PlaceInv
  <2>12. \A u, v \in Threads : u # v /\ own'[u] # NoItem => own'[u] # own'[v]
    BY <2>4 DEF PlaceInv
  <2>13. \A e \in Descs : /\ InFree(e)' \/ InRing(e)' \/ Held(e)'
                          /\ ~(InFree(e)' /\ InRing(e)') /\ ~(InFree(e)' /\ Held(e)') /\ ~(InRing(e)' /\ Held(e)')
    BY <2>5, <2>6, <2>7, <2>8 DEF PlaceInv
  <2>14. QED
    BY <1>0, <2>5, <2>10, <2>11, <2>12, <2>13 DEF PlaceInv, ListType
<1>6. ASSUME ReplacePool PROVE ListType' /\ PlaceInv'
  <2>1. /\ free_list' = [p \in Partitions |-> DescsOf(p)] /\ ring' = EmptyRings
        /\ \A t \in Threads : own'[t] = NoItem
    BY <1>6 DEF ReplacePool, BusyInv, Running, Idle, opVars
  <2>2. /\ \A p \in Partitions : free_list'[p] = DescsOf(p)
        /\ \A p \in Partitions : \A s \in Slots : ring'[p][s].item = NoItem /\ ring'[p][s].epoch = 0
    BY <2>1 DEF EmptyRings, EmptySlot
  <2>3. ListType'
    BY <2>1, FreshList DEF ListType
  <2>4. \A d \in Descs : InFree(d)' /\ ~InRing(d)' /\ ~Held(d)'
    BY <2>1, <2>2, FreshList, Basics DEF InFree, InRing, Held
  <2>5. \A p \in Partitions : \A i, j \in DOMAIN free_list'[p] :
           Owner(free_list'[p][i]) = p /\ (i # j => free_list'[p][i] # free_list'[p][j])
    BY <2>2, FreshList
  <2>6. QED
    BY <2>1, <2>2, <2>3, <2>4, <2>5 DEF PlaceInv
<1>7. QED
  BY <1>1, <1>2, <1>3, <1>4, <1>5, <1>6, PlaceSteps

-----------------------------------------------------------------------------
(***************************************************************************)
(* Epochs, and the order of the ring.                                      *)
(***************************************************************************)
\* The steps that touch epochs, rings or removal epochs.
LEMMA RingSteps ==
  Next => \/ UNCHANGED <<epochVars, ringVars, own, pc>>
          \/ \E t \in Threads : \/ Enter(t) \/ Leave(t) \/ BeginAllocate(t) \/ TakeDescriptor(t) \/ StartMwCAS(t)
                                \/ Abort(t) \/ Cleanup(t) \/ ScavengeDescriptors(t) \/ PushDescriptor(t)
          \/ ReplacePool
  BY DEF Next, OpSteps, LookAtStatus, ReplaceConditional, Lifecycle,
     Decide, StopHelping, AllocateAndAddEntry, AddEntry, ReserveAndAddEntry, FillReserved,
     PutConditional, MeetConditional, ReachDescriptor, opVars

\* Ages go from 1 to the size of the ring; the slot at the tail is the oldest.
LEMMA AgeIs ==
  ASSUME RingType, NEW p \in Partitions, NEW s \in Slots
  PROVE  Age(p, s) \in 1 .. ItemCount /\ Age(p, s) \in Nat \ {0} /\ (Age(p, s) = ItemCount <=> s = tail[p])
<1>1. tail[p] \in Slots
  BY DEF RingType
<1>2. QED
  BY <1>1, Basics DEF Age

\* With the tail one slot on, the slot it left is the newest and every other one
\* older by 1.
LEMMA AgeNext ==
  ASSUME RingType, NEW p \in Partitions, NEW s \in Slots,
         tail'[p] = IF tail[p] + 1 = ItemCount THEN 0 ELSE tail[p] + 1
  PROVE  Age(p, s)' = IF s = tail[p] THEN 1 ELSE Age(p, s) + 1
<1>1. PICK k \in Slots : k = tail[p]
  BY DEF RingType
<1>2. PICK n \in Nat \ {0} : n = ItemCount /\ Slots = 0 .. n - 1
  BY Basics
<1>3. PICK m \in 0 .. n - 1 : m = tail'[p] /\ m = IF k + 1 = n THEN 0 ELSE k + 1
  BY <1>1, <1>2
<1>4. Age(p, s)' = IF s < m THEN m - s ELSE m + n - s
  BY <1>2, <1>3 DEF Age
<1>5. Age(p, s) = IF s < k THEN k - s ELSE k + n - s
  BY <1>1, <1>2 DEF Age
<1>6. QED
  BY <1>1, <1>2, <1>3, <1>4, <1>5

\* The new epochs after BumpCurrentEpoch, or without it.
LEMMA EpochsAfter ==
  ASSUME RingType, EpochInv, \/ current' = Bumped /\ safe' = SafeAfterBump
                             \/ UNCHANGED <<current, safe>>
  PROVE  /\ current' \in Nat /\ safe' \in Nat /\ current' >= current /\ current' >= 1 /\ safe' < current'
         /\ \A t \in Threads : local[t] # 0 => safe' < local[t]
<1>1. current \in Nat /\ current >= 1 /\ local \in [Threads -> Nat] /\ \A t \in Threads : local[t] <= current
  BY DEF RingType, EpochInv
<1>2. CASE current' = Bumped /\ safe' = SafeAfterBump
  <2>1. /\ Bumped \in {current, current + 1}
        /\ SafeAfterBump \in Nat /\ SafeAfterBump < Bumped
        /\ \A t \in Threads : local[t] # 0 => SafeAfterBump < local[t]
    BY <1>1, SafeBump
  <2>2. QED
    BY <2>1, <1>1, <1>2
<1>3. CASE UNCHANGED <<current, safe>>
  BY <1>1, <1>3 DEF RingType, EpochInv
<1>4. QED
  BY <1>2, <1>3

\* The rings keep their order and their epochs.
LEMMA EpochByPc ==
  ASSUME TypeOK, EpochInv, NEW t \in Threads, UNCHANGED <<epochVars, ringVars>>,
         \A u \in Threads \ {t} : pc'[u] = pc[u] /\ own'[u] = own[u],
         pc[t] # "push", pc'[t] # "push"
  PROVE  EpochInv'
  BY DEF EpochInv, epochVars, ringVars

\* Retirement stamps the descriptor with the current epoch, which no slot
\* exceeds.
LEMMA EpochByStamp ==
  ASSUME TypeOK, BusyInv, EpochInv, NEW t \in Threads, UNCHANGED <<epochVars, ring, tail, own>>, pc[t] \in {"fill", "run"},
         stamp' = Put(stamp, t, current), pc' = Put(pc, t, "push")
  PROVE  RingType' /\ EpochInv'
<1>1. RingType /\ PcType
  BY Types
<1>2. /\ stamp'[t] = current /\ pc'[t] = "push" /\ stamp' \in [Threads -> Nat]
      /\ \A u \in Threads \ {t} : stamp'[u] = stamp[u] /\ pc'[u] = pc[u]
  BY <1>1 DEF RingType, PcType, Put
<1>3. Owner(own[t]) \in Partitions
  BY <1>1, Basics DEF BusyInv, PcType
<1>4. RingType'
  BY <1>1, <1>2 DEF RingType, epochVars
<1>5. current >= 1 /\ current \in Nat
  BY <1>1 DEF RingType, EpochInv
<1>6. QED
  BY <1>2, <1>3, <1>4, <1>5 DEF EpochInv, epochVars

\* Every step keeps the epochs and the order of the rings.
LEMMA EpochStep ==
  ASSUME TypeOK, TlsInv, BusyInv, PlaceInv, RingInv, EpochInv, Next \/ UNCHANGED vars
  PROVE  RingType' /\ EpochInv' /\ RingInv'
<1>0. TlsType /\ RingType /\ ListType /\ PcType
  BY Types
<1>01. ASSUME UNCHANGED <<ring, tail>> PROVE RingInv'
  BY <1>01 DEF RingInv, Age
<1>1. CASE UNCHANGED <<epochVars, ringVars, own, pc>>
  BY <1>1, <1>0, <1>01 DEF EpochInv, RingType, epochVars, ringVars
<1>2. CASE UNCHANGED vars
  BY <1>1, <1>2 DEF vars, opVars
<1>3. ASSUME NEW t \in Threads, Enter(t) PROVE RingType' /\ EpochInv' /\ RingInv'
  <2>1. local' = [local EXCEPT ![t] = current] /\ UNCHANGED <<current, safe, ring, tail, stamp, pc, own>>
    BY <1>3 DEF Enter, Protect, ringVars, opVars
  <2>2. local'[t] = current /\ local' \in [Threads -> Nat] /\ \A u \in Threads \ {t} : local'[u] = local[u]
    BY <1>0, <2>1 DEF RingType
  <2>3. RingType'
    BY <1>0, <2>1, <2>2 DEF RingType
  <2>4. EpochInv'
    BY <1>0, <2>1, <2>2 DEF EpochInv, RingType
  <2>5. QED
    BY <1>01, <2>1, <2>3, <2>4
<1>4. ASSUME NEW t \in Threads, Leave(t) PROVE RingType' /\ EpochInv' /\ RingInv'
  <2>1. local' = [local EXCEPT ![t] = 0] /\ UNCHANGED <<current, safe, ring, tail, stamp, pc, own>>
    BY <1>4 DEF Leave, Unprotect, ringVars
  <2>2. local'[t] = 0 /\ local' \in [Threads -> Nat] /\ \A u \in Threads \ {t} : local'[u] = local[u]
    BY <1>0, <2>1 DEF RingType
  <2>3. RingType'
    BY <1>0, <2>1, <2>2 DEF RingType
  <2>4. EpochInv'
    BY <1>0, <2>1, <2>2 DEF EpochInv, RingType
  <2>5. QED
    BY <1>01, <2>1, <2>3, <2>4
<1>5. ASSUME NEW t \in Threads, BeginAllocate(t) \/ TakeDescriptor(t) \/ StartMwCAS(t)
      PROVE RingType' /\ EpochInv' /\ RingInv'
  <2>1. /\ UNCHANGED <<epochVars, ringVars>> /\ pc[t] # "push"
        /\ pc' = Put(pc, t, "allocate") \/ pc' = Put(pc, t, "fill") \/ pc' = Put(pc, t, "run")
        /\ UNCHANGED own \/ own' = Put(own, t, Head(free_list[Part(t)]))
    BY <1>5 DEF BeginAllocate, TakeDescriptor, StartMwCAS
  <2>2. pc'[t] # "push" /\ \A u \in Threads \ {t} : pc'[u] = pc[u] /\ own'[u] = own[u]
    BY <1>0, <2>1 DEF PcType, Put
  <2>3. EpochInv'
    BY <2>1, <2>2, EpochByPc
  <2>4. QED
    BY <1>0, <1>01, <2>1, <2>3 DEF RingType, epochVars, ringVars
<1>6. ASSUME NEW t \in Threads, Abort(t) \/ Cleanup(t) PROVE RingType' /\ EpochInv' /\ RingInv'
  <2>1. /\ UNCHANGED <<epochVars, ring, tail, own>> /\ pc[t] \in {"fill", "run"}
        /\ stamp' = Put(stamp, t, current) /\ pc' = Put(pc, t, "push")
    BY <1>6 DEF Abort, Cleanup
  <2>2. QED
    BY <2>1, <1>01, EpochByStamp
<1>7. ASSUME NEW t \in Threads, ScavengeDescriptors(t) PROVE RingType' /\ EpochInv' /\ RingInv'
  <2>0. PICK p \in Partitions, s \in Nat, q \in Seq(Descs) : ScavengeEffect(t, p, s, q)
    BY <1>7, ScavengeIs
  <2>1. /\ s = SafeAfterBump /\ ring' = AfterScavenge(p, s) /\ current' = Bumped /\ safe' = s
        /\ UNCHANGED <<local, tail, stamp, pc, own>>
    BY <2>0 DEF ScavengeEffect, opVars
  <2>2. /\ ring' \in [Partitions -> [Slots -> [item : Descs \cup {NoItem}, epoch : Nat]]]
        /\ \A o \in Partitions \ {p} : ring'[o] = ring[o]
        /\ \A k \in Slots : k \in Reclaimable(p, s) => ring'[p][k] = EmptySlot
        /\ \A k \in Slots : k \notin Reclaimable(p, s) => ring'[p][k] = ring[p][k]
        /\ \A k \in Slots : k \in Reclaimable(p, s) <=> ring[p][k].epoch # 0 /\ ring[p][k].epoch <= s
    BY <1>0, <2>1, ScavengedRing
  <2>3. /\ current' \in Nat /\ safe' \in Nat /\ current' >= current /\ current' >= 1 /\ safe' < current'
        /\ \A u \in Threads : local[u] # 0 => safe' < local[u]
    BY <1>0, <2>1, EpochsAfter
  <2>4. RingType'
    BY <1>0, <2>1, <2>2, <2>3 DEF RingType
  <2>5. \A o \in Partitions : \A k \in Slots :
          /\ ring'[o][k].epoch \in {0, ring[o][k].epoch} /\ ring[o][k].epoch \in Nat
          /\ ring'[o][k].epoch # 0 => ring'[o][k].epoch = ring[o][k].epoch
    <3>1. ASSUME NEW o \in Partitions, NEW k \in Slots
          PROVE  /\ ring'[o][k].epoch \in {0, ring[o][k].epoch} /\ ring[o][k].epoch \in Nat
                 /\ ring'[o][k].epoch # 0 => ring'[o][k].epoch = ring[o][k].epoch
      <4>1. ring'[o][k] = EmptySlot \/ ring'[o][k] = ring[o][k]
        BY <2>2
      <4>2. ring[o][k].epoch \in Nat
        BY <1>0 DEF RingType
      <4>3. EmptySlot.epoch = 0
        BY DEF EmptySlot
      <4>4. QED
        BY <4>1, <4>2, <4>3
    <3>2. QED
      BY <3>1
  <2>6. EpochInv'
    <3>1. \A u \in Threads : local'[u] <= current' /\ (local'[u] # 0 => safe' < local'[u]) /\ stamp'[u] <= current'
                             /\ (pc'[u] # "push" => stamp'[u] = 0)
      BY <1>0, <2>1, <2>3 DEF EpochInv, RingType
    <3>2. \A o \in Partitions : \A k \in Slots : ring'[o][k].epoch <= current'
      <4>1. ASSUME NEW o \in Partitions, NEW k \in Slots PROVE ring'[o][k].epoch <= current'
        <5>1. PICK a, b \in Nat : a = current /\ b = current' /\ a <= b
          BY <1>0, <2>3 DEF RingType
        <5>2. PICK e \in Nat : e = ring[o][k].epoch /\ e <= a
          BY <5>1, <2>5 DEF EpochInv
        <5>3. ring'[o][k].epoch \in {0, e}
          BY <5>2, <2>5
        <5>4. QED
          BY <5>1, <5>2, <5>3
      <4>2. QED
        BY <4>1
    <3>3. ASSUME NEW u \in Threads, pc'[u] = "push"
          PROVE  stamp'[u] >= 1 /\ \A k \in Slots : ring'[Owner(own'[u])][k].epoch <= stamp'[u]
      <4>1. PICK o \in Partitions : o = Owner(own[u])
        BY <1>0, <2>1, <3>3, Basics DEF BusyInv, PcType
      <4>2. stamp[u] >= 1 /\ stamp[u] \in Nat /\ \A k \in Slots : ring[o][k].epoch <= stamp[u]
        BY <1>0, <2>1, <3>3, <4>1 DEF EpochInv, RingType
      <4>3. \A k \in Slots : ring'[o][k].epoch <= stamp[u]
        BY <4>2, <2>5
      <4>4. QED
        BY <4>1, <4>2, <4>3, <2>1
    <3>4. QED
      BY <3>1, <3>2, <3>3, <2>3 DEF EpochInv
  <2>7. RingInv'
    <3>1. ASSUME NEW o \in Partitions, NEW j \in Slots, NEW r \in Slots, ring'[o][j].epoch # 0, Age(o, r) < Age(o, j)
          PROVE  ring'[o][j].epoch <= ring'[o][r].epoch
      <4>1. ring[o][j].epoch = ring'[o][j].epoch /\ ring[o][j].epoch <= ring[o][r].epoch
        BY <3>1, <2>5 DEF RingInv
      <4>2. CASE o # p
        BY <4>1, <4>2, <2>2
      <4>3. CASE o = p
        <5>1. j \notin Reclaimable(p, s)
          BY <3>1, <4>3, <2>2 DEF EmptySlot
        <5>2. ring[p][j].epoch > s /\ ring[p][r].epoch > s
          BY <1>0, <5>1, <4>1, <4>3, <3>1, <2>2 DEF RingType
        <5>3. r \notin Reclaimable(p, s)
          BY <1>0, <5>2, <2>2, SMTT(40) DEF RingType
        <5>4. QED
          BY <4>1, <4>3, <5>3, <2>2
      <4>4. QED
        BY <4>2, <4>3
    <3>2. \A o \in Partitions : \A r \in Slots : Age(o, r)' = Age(o, r)
      BY <2>1 DEF Age
    <3>3. QED
      BY <3>1, <3>2 DEF RingInv
  <2>8. QED
    BY <2>4, <2>6, <2>7
<1>8. ASSUME NEW t \in Threads, PushDescriptor(t) PROVE RingType' /\ EpochInv' /\ RingInv'
  <2>0. PICK d \in Descs, p \in Partitions, k \in Slots : PushEffect(t, d, p, k)
    BY <1>8, PushIs
  <2>1. /\ d = own[t] /\ p = Owner(d) /\ k = tail[p] /\ pc[t] = "push"
        /\ ring' = [ring EXCEPT ![p][k] = [item |-> d, epoch |-> stamp[t]]]
        /\ tail' = [tail EXCEPT ![p] = IF tail[p] + 1 = ItemCount THEN 0 ELSE tail[p] + 1]
        /\ safe' = PushSafe(p) /\ current' = IF BumpsAt(k) THEN Bumped ELSE current
        /\ stamp' = [stamp EXCEPT ![t] = 0] /\ pc' = [pc EXCEPT ![t] = "idle"] /\ own' = [own EXCEPT ![t] = NoItem]
        /\ UNCHANGED local
    BY <2>0 DEF PushEffect
  <2>2. \/ current' = Bumped /\ safe' = SafeAfterBump
        \/ UNCHANGED <<current, safe>>
    BY <2>1 DEF PushSafe
  <2>3. /\ current' \in Nat /\ safe' \in Nat /\ current' >= current /\ current' >= 1 /\ safe' < current'
        /\ \A u \in Threads : local[u] # 0 => safe' < local[u]
    BY <1>0, <2>2, EpochsAfter
  <2>4. (IF tail[p] + 1 = ItemCount THEN 0 ELSE tail[p] + 1) \in Slots
    BY <2>1, Basics
  <2>5. PICK n \in Nat : n = stamp[t] /\ n >= 1 /\ n <= current /\ \A s \in Slots : ring[p][s].epoch <= n
    BY <1>0, <2>1 DEF RingType, EpochInv
  <2>6. RingType'
    <3>1. [item |-> d, epoch |-> n] \in [item : Descs \cup {NoItem}, epoch : Nat]
      OBVIOUS
    <3>2. QED
      BY <1>0, <2>1, <2>3, <2>4, <2>5, <3>1 DEF RingType
  <2>7. /\ ring'[p][k].epoch = n /\ \A o \in Partitions : \A s \in Slots : o # p \/ s # k => ring'[o][s] = ring[o][s]
        /\ stamp'[t] = 0 /\ pc'[t] = "idle"
        /\ \A u \in Threads \ {t} : stamp'[u] = stamp[u] /\ pc'[u] = pc[u] /\ own'[u] = own[u]
        /\ \A o \in Partitions \ {p} : tail'[o] = tail[o]
    BY <1>0, <2>1, <2>5 DEF RingType, PcType
  <2>8. EpochInv'
    <3>1. \A u \in Threads : local'[u] <= current' /\ (local'[u] # 0 => safe' < local'[u]) /\ stamp'[u] <= current'
                             /\ (pc'[u] # "push" => stamp'[u] = 0)
      BY <1>0, <2>1, <2>3, <2>7 DEF EpochInv, RingType
    <3>2. \A o \in Partitions : \A s \in Slots : ring'[o][s].epoch <= current'
      <4>1. \A o \in Partitions : \A s \in Slots : ring[o][s].epoch \in Nat /\ ring[o][s].epoch <= current
        BY <1>0 DEF EpochInv, RingType
      <4>2. QED
        <5>1. ASSUME NEW o \in Partitions, NEW s \in Slots PROVE ring'[o][s].epoch <= current'
          <6>1. PICK a, b \in Nat : a = current /\ b = current' /\ a <= b /\ n <= a
            BY <1>0, <2>3, <2>5 DEF RingType
          <6>2. CASE o = p /\ s = k
            BY <6>1, <6>2, <2>7
          <6>3. CASE o # p \/ s # k
            <7>1. ring'[o][s].epoch \in Nat /\ ring'[o][s].epoch <= a
              BY <6>1, <6>3, <2>7, <4>1
            <7>2. QED
              BY <6>1, <7>1
          <6>4. QED
            BY <6>2, <6>3
        <5>2. QED
          BY <5>1
    <3>3. ASSUME NEW u \in Threads, pc'[u] = "push"
          PROVE  stamp'[u] >= 1 /\ \A s \in Slots : ring'[Owner(own'[u])][s].epoch <= stamp'[u]
      <4>1. u # t /\ pc[u] = "push" /\ own'[u] = own[u] /\ stamp'[u] = stamp[u]
        BY <3>3, <2>7
      <4>2. PICK o \in Partitions : o = Owner(own[u]) /\ o = Part(u)
        BY <1>0, <4>1, Basics DEF BusyInv, PcType
      <4>3. o # p
        BY <4>1, <4>2, <2>1, PartsDiffer, Basics DEF BusyInv
      <4>4. stamp[u] >= 1 /\ \A s \in Slots : ring[o][s].epoch <= stamp[u]
        BY <4>1, <4>2 DEF EpochInv
      <4>5. QED
        BY <4>1, <4>2, <4>3, <4>4, <2>7
    <3>4. QED
      BY <3>1, <3>2, <3>3, <2>3 DEF EpochInv
  <2>9. RingInv'
    <3>1. ASSUME NEW o \in Partitions, NEW j \in Slots, NEW r \in Slots, ring'[o][j].epoch # 0, Age(o, r)' < Age(o, j)'
          PROVE  ring'[o][j].epoch <= ring'[o][r].epoch
      <4>1. CASE o # p
        <5>1. Age(o, r)' = Age(o, r) /\ Age(o, j)' = Age(o, j)
          BY <4>1, <2>7 DEF Age
        <5>2. QED
          BY <3>1, <4>1, <5>1, <2>7 DEF RingInv
      <4>2. CASE o = p
        <5>1. /\ Age(p, r)' = IF r = k THEN 1 ELSE Age(p, r) + 1
              /\ Age(p, j)' = IF j = k THEN 1 ELSE Age(p, j) + 1
              /\ Age(p, r) \in Nat \ {0} /\ Age(p, j) \in Nat \ {0}
          <6>1. tail'[p] = IF tail[p] + 1 = ItemCount THEN 0 ELSE tail[p] + 1
            BY <1>0, <2>1 DEF RingType
          <6>2. /\ Age(p, r)' = IF r = tail[p] THEN 1 ELSE Age(p, r) + 1
                /\ Age(p, j)' = IF j = tail[p] THEN 1 ELSE Age(p, j) + 1
            BY <1>0, <6>1, AgeNext
          <6>3. Age(p, r) \in Nat \ {0} /\ Age(p, j) \in Nat \ {0}
            BY <1>0, AgeIs
          <6>4. QED
            BY <6>2, <6>3, <2>1
        <5>2. j # k
          BY <3>1, <4>2, <5>1
        <5>3. CASE r = k
          BY <5>2, <5>3, <4>2, <2>5, <2>7
        <5>4. CASE r # k
          <6>1. Age(p, r) < Age(p, j)
            BY <5>1, <5>2, <5>4, <3>1, <4>2
          <6>2. QED
            BY <6>1, <5>2, <5>4, <4>2, <3>1, <2>7 DEF RingInv
        <5>5. QED
          BY <5>3, <5>4
      <4>3. QED
        BY <4>1, <4>2
    <3>2. QED
      BY <3>1 DEF RingInv
  <2>10. QED
    BY <2>6, <2>8, <2>9
<1>9. ASSUME ReplacePool PROVE RingType' /\ EpochInv' /\ RingInv'
  <2>1. /\ current' = 1 /\ safe' = 0 /\ ring' = EmptyRings /\ tail' = [p \in Partitions |-> 0]
        /\ UNCHANGED <<local, stamp, pc, own>>
    BY <1>9 DEF ReplacePool, opVars
  <2>2. \A t \in Threads : pc[t] = "idle" /\ local[t] = 0 /\ stamp[t] = 0
    BY <1>9 DEF ReplacePool, BusyInv, Running, Idle, Protected, EpochInv
  <2>3. \A p \in Partitions : \A s \in Slots : ring'[p][s].epoch = 0
    BY <2>1 DEF EmptyRings, EmptySlot
  <2>4. EmptySlot \in [item : Descs \cup {NoItem}, epoch : Nat] /\ 0 \in Slots
    BY Basics DEF EmptySlot
  <2>5. RingType'
    BY <1>0, <2>1, <2>4 DEF RingType, EmptyRings
  <2>6. EpochInv'
    BY <2>1, <2>2, <2>3 DEF EpochInv
  <2>7. RingInv'
    BY <2>3 DEF RingInv
  <2>8. QED
    BY <2>5, <2>6, <2>7
<1>10. QED
  BY <1>1, <1>2, <1>3, <1>4, <1>5, <1>6, <1>7, <1>8, <1>9, RingSteps

-----------------------------------------------------------------------------
(***************************************************************************)
(* The status of a descriptor follows where it is.                         *)
(***************************************************************************)
\* The steps that touch the status or the entries of a descriptor.
LEMMA StatusSteps ==
  Next => \/ UNCHANGED <<free_list, ring, desc, own, pc>>
          \/ \E t \in Threads : \/ BeginAllocate(t) \/ TakeDescriptor(t) \/ ScavengeDescriptors(t)
                                \/ AllocateAndAddEntry(t) \/ ReserveAndAddEntry(t) \/ FillReserved(t)
                                \/ StartMwCAS(t) \/ Abort(t) \/ Decide(t) \/ Cleanup(t) \/ PushDescriptor(t)
          \/ ReplacePool
  BY DEF Next, OpSteps, LookAtStatus, ReplaceConditional, Enter, Leave, Lifecycle, StopHelping,
     PutConditional, MeetConditional, ReachDescriptor, ringVars, descVars, opVars

\* The thread holds a descriptor while it fills it, runs it or retires it.
LEMMA OwnIs ==
  ASSUME TypeOK, BusyInv, PlaceInv, NEW t \in Threads, pc[t] \in {"fill", "run", "push"}
  PROVE  own[t] \in Descs /\ Held(own[t]) /\ ~InFree(own[t]) /\ ~InRing(own[t])
         /\ \A u \in Threads \ {t} : own[u] # own[t]
  BY Types DEF PcType, BusyInv, PlaceInv, Held

\* The sequence after AddEntry.
LEMMA AppendIs ==
  ASSUME NEW X, NEW q \in Seq(X), NEW e \in X
  PROVE  Append(q, e) \in Seq(X) /\ ToSet(Append(q, e)) = ToSet(q) \cup {e}
<1>1. /\ Append(q, e) \in Seq(X) /\ DOMAIN Append(q, e) = 1 .. Len(q) + 1 /\ DOMAIN q = 1 .. Len(q) /\ Len(q) \in Nat
      /\ Append(q, e)[Len(q) + 1] = e /\ \A i \in 1 .. Len(q) : Append(q, e)[i] = q[i]
  OBVIOUS
<1>2. 1 .. Len(q) + 1 = (1 .. Len(q)) \cup {Len(q) + 1}
  BY <1>1
<1>3. QED
  BY <1>1, <1>2 DEF ToSet

\* While a descriptor is filled only its entries change, and its status is kept.
FillEffect(t, d, q) ==
  /\ d = own[t] /\ pc[t] = "fill"
  /\ desc' = [desc EXCEPT ![d].entries = q]
  /\ UNCHANGED <<tlsVars, epochVars, ringVars, pool, next_partition, free_list, word,
                 pc, own, reached, todo, cond, ops, region>>
  /\ mem' \subseteq Blocks

\* While not all memory is allocated, the allocator has a block.
LEMMA NewBlockIs ==
  ASSUME DescType, mem # Blocks PROVE NewBlock \in Blocks
  BY DEF NewBlock, DescType

\* The entry functions append one entry to the descriptor of the thread.
LEMMA AddIs ==
  ASSUME TypeOK, BusyInv, PlaceInv, NEW t \in Threads, AllocateAndAddEntry(t) \/ ReserveAndAddEntry(t)
  PROVE  \E d \in Descs, q \in Seq(EntrySet) : FillEffect(t, d, q)
<1>0. DescType /\ ReachType
  BY Types
<1>1. PICK a \in Words, new \in Blocks \cup {Reserved}, policy \in Policies[t] :
        AddEntry(t, a, new, policy) /\ mem' \subseteq Blocks
  <2>1. CASE AllocateAndAddEntry(t)
    <3>1. NewBlock \in Blocks /\ mem' \subseteq Blocks
      BY <1>0, <2>1, NewBlockIs DEF AllocateAndAddEntry, DescType
    <3>2. PICK a \in Words, policy \in Policies[t] : AddEntry(t, a, NewBlock, policy)
      BY <2>1 DEF AllocateAndAddEntry
    <3>3. QED
      BY <3>1, <3>2
  <2>2. CASE ReserveAndAddEntry(t)
    <3>1. mem' \subseteq Blocks
      BY <1>0, <2>2 DEF ReserveAndAddEntry, DescType
    <3>2. PICK a \in Words, policy \in Policies[t] : AddEntry(t, a, Reserved, policy)
      BY <2>2 DEF ReserveAndAddEntry
    <3>3. QED
      BY <3>1, <3>2
  <2>3. QED
    BY <2>1, <2>2
<1>2. pc[t] = "fill" /\ word[a].kind = "value"
  BY <1>1 DEF AddEntry, CanAdd
<1>3. PICK d \in Descs : d = own[t]
  BY <1>2, OwnIs
<1>4. word[a].of \in Blocks
  <2>1. word[a] \in Content
    BY <1>0 DEF DescType
  <2>2. QED
    BY <1>2, <2>1 DEF Content
<1>5. PICK e \in EntrySet : e = Entry(a, new, policy)
  <2>1. policy \in UNION {Policies[u] : u \in Threads}
    OBVIOUS
  <2>2. QED
    BY <1>1, <1>4, <2>1 DEF Entry, EntrySet
<1>6. desc[d].entries \in Seq(EntrySet)
  BY <1>0 DEF DescType
<1>7. PICK q \in Seq(EntrySet) : q = Append(desc[d].entries, e)
  BY <1>6, AppendIs
<1>8. desc' = [desc EXCEPT ![d].entries = q]
  <2>1. desc' = [desc EXCEPT ![d].entries = Append(desc[d].entries, e)]
    BY <1>0, <1>1, <1>3, <1>5 DEF AddEntry, DescType
  <2>2. QED
    BY <1>7, <2>1
<1>9. FillEffect(t, d, q)
  BY <1>1, <1>2, <1>3, <1>8 DEF AddEntry, FillEffect
<1>10. QED
  BY <1>9

\* GetNewValuePtr changes one new value of the descriptor of the thread.
LEMMA FillIs ==
  ASSUME TypeOK, BusyInv, PlaceInv, NEW t \in Threads, FillReserved(t)
  PROVE  \E d \in Descs, q \in Seq(EntrySet) : FillEffect(t, d, q)
<1>0. DescType /\ ReachType
  BY Types
<1>1. pc[t] = "fill" /\ mem' \subseteq Blocks /\ NewBlock \in Blocks
  BY <1>0, NewBlockIs DEF FillReserved, DescType
<1>2. PICK d \in Descs : d = own[t]
  BY <1>1, OwnIs
<1>3. PICK r \in Seq(EntrySet) : r = desc[d].entries
  BY <1>0 DEF DescType
<1>4. PICK i \in DOMAIN r : desc' = [desc EXCEPT ![d].entries[i].new = NewBlock]
  BY <1>2, <1>3 DEF FillReserved
<1>5. PICK b \in Blocks : b = NewBlock
  BY <1>1
<1>6. PICK e \in EntrySet : e = [r[i] EXCEPT !.new = b]
  <2>1. r[i] \in EntrySet
    OBVIOUS
  <2>2. [r[i] EXCEPT !.new = b] \in EntrySet
    BY <2>1 DEF EntrySet
  <2>3. QED
    BY <2>2
<1>7. PICK q \in Seq(EntrySet) : q = [r EXCEPT ![i] = e]
  <2>1. [r EXCEPT ![i] = e] \in Seq(EntrySet)
    OBVIOUS
  <2>2. QED
    BY <2>1
<1>8. desc' = [desc EXCEPT ![d].entries = q]
  BY <1>0, <1>3, <1>4, <1>5, <1>6, <1>7 DEF DescType
<1>9. FillEffect(t, d, q)
  BY <1>0, <1>1, <1>2, <1>8 DEF FillReserved, FillEffect, ReachType, opVars
<1>10. QED
  BY <1>9

\* The statuses after a step that puts no descriptor anywhere else.
LEMMA StatusInPlace ==
  ASSUME TypeOK, BusyInv, PlaceInv, StatusInv, NEW t \in Threads, pc[t] \in {"fill", "run"}, NEW d \in Descs, d = own[t],
         UNCHANGED <<free_list, ring, own>>, \A u \in Threads \ {t} : pc'[u] = pc[u],
         \A e \in Descs \ {d} : desc'[e] = desc[e],
         pc'[t] = "fill" => desc'[d].status = "kStatusFinished",
         pc'[t] = "run" => Undecided(d)' \/ Decided(d)',
         pc'[t] = "push" => Decided(d)',
         Undecided(d)' \/ Succeeded(d)' => \A e \in Entries(d)' : e.new # Reserved
  PROVE  StatusInv'
<1>1. ~InFree(d) /\ ~InRing(d) /\ \A u \in Threads \ {t} : own[u] # d
  BY OwnIs
<1>2. \A e \in Descs : (InFree(e)' <=> InFree(e)) /\ (InRing(e)' <=> InRing(e))
  BY DEF InFree, InRing
<1>3. \A e \in Descs \ {d} : /\ (Decided(e)' <=> Decided(e)) /\ (Undecided(e)' <=> Undecided(e))
                             /\ (Succeeded(e)' <=> Succeeded(e)) /\ Entries(e)' = Entries(e)
  BY DEF Decided, Undecided, Succeeded, Entries
<1>4. \A u \in Threads \ {t} : pc[u] \in {"fill", "run", "push"} => own[u] \in Descs \ {d}
  BY <1>1, OwnIs
<1>5. \A u \in Threads \ {t} :
       /\ pc'[u] = "fill" => desc'[own'[u]].status = "kStatusFinished"
       /\ pc'[u] = "run" => Undecided(own[u])' \/ Decided(own[u])'
       /\ pc'[u] = "push" => Decided(own[u])'
  BY <1>3, <1>4 DEF StatusInv, Decided, Undecided
<1>6. QED
  BY <1>1, <1>2, <1>3, <1>5 DEF StatusInv

\* Every step keeps the status of a descriptor in line with its place.
LEMMA StatusStep ==
  ASSUME TypeOK, TlsInv, BusyInv, PlaceInv, RingInv, EpochInv, StatusInv, PlaceInv', Next \/ UNCHANGED vars
  PROVE  StatusInv'
<1>0. TlsType /\ RingType /\ ListType /\ PcType /\ DescType
  BY Types
<1>01. ASSUME UNCHANGED desc
       PROVE  \A e \in Descs : /\ (Decided(e)' <=> Decided(e)) /\ (Undecided(e)' <=> Undecided(e))
                               /\ (Succeeded(e)' <=> Succeeded(e)) /\ Entries(e)' = Entries(e)
  BY <1>01 DEF Decided, Undecided, Succeeded, Entries
<1>1. CASE UNCHANGED <<free_list, ring, desc, own, pc>>
  BY <1>1 DEF StatusInv, InFree, InRing, Decided, Undecided, Succeeded, Entries
<1>2. CASE UNCHANGED vars
  BY <1>1, <1>2 DEF vars, ringVars, descVars, opVars
<1>3. ASSUME NEW t \in Threads, BeginAllocate(t) PROVE StatusInv'
  <2>1. UNCHANGED <<free_list, ring, desc, own>> /\ pc' = [pc EXCEPT ![t] = "allocate"]
    BY <1>3 DEF BeginAllocate, Put, ringVars, descVars
  <2>2. pc'[t] = "allocate" /\ \A u \in Threads \ {t} : pc'[u] = pc[u]
    BY <1>0, <2>1 DEF PcType
  <2>3. \A e \in Descs : (InFree(e)' <=> InFree(e)) /\ (InRing(e)' <=> InRing(e))
    BY <2>1 DEF InFree, InRing
  <2>4. \A u \in Threads :
       /\ pc'[u] = "fill" => desc'[own'[u]].status = "kStatusFinished"
       /\ pc'[u] = "run" => Undecided(own[u])' \/ Decided(own[u])'
       /\ pc'[u] = "push" => Decided(own[u])'
    BY <2>1, <2>2 DEF StatusInv, Decided, Undecided
  <2>5. QED
    BY <2>1, <2>3, <2>4, <1>01 DEF StatusInv
<1>4. ASSUME NEW t \in Threads, TakeDescriptor(t) PROVE StatusInv'
  <2>1. PICK p \in Partitions : p = Part(t) /\ pc[t] = "allocate"
    BY <1>0, <1>4, PartIs DEF TakeDescriptor, BusyInv
  <2>2. PICK q \in Seq(Descs) : q = free_list[p]
    BY <1>0 DEF ListType
  <2>3. /\ q # <<>> /\ free_list' = [free_list EXCEPT ![p] = Tail(q)] /\ own' = [own EXCEPT ![t] = Head(q)]
        /\ pc' = [pc EXCEPT ![t] = "fill"] /\ UNCHANGED <<ring, desc>>
    BY <1>4, <2>1, <2>2 DEF TakeDescriptor, Put, ringVars
  <2>4. PICK d \in Descs : d = Head(q) /\ InFree(d)
    <3>1. Head(q) \in Descs /\ Head(q) = q[1] /\ 1 \in DOMAIN q
      BY <2>3
    <3>2. Owner(Head(q)) = p
      BY <3>1, <2>2 DEF PlaceInv
    <3>3. QED
      BY <3>1, <3>2, <2>2 DEF InFree
  <2>5. /\ own'[t] = d /\ pc'[t] = "fill" /\ \A u \in Threads \ {t} : own'[u] = own[u] /\ pc'[u] = pc[u]
        /\ free_list'[p] = Tail(q) /\ \A o \in Partitions \ {p} : free_list'[o] = free_list[o]
    BY <1>0, <2>3, <2>4 DEF PcType, ListType
  <2>6. \A i \in DOMAIN Tail(q) : \E j \in DOMAIN q : Tail(q)[i] = q[j]
    <3>1. \A i \in DOMAIN Tail(q) : i + 1 \in DOMAIN q /\ Tail(q)[i] = q[i + 1]
      BY <2>3
    <3>2. QED
      BY <3>1
  <2>7. ASSUME NEW e \in Descs, InFree(e)' PROVE InFree(e)
    <3>1. CASE Owner(e) = p
      <4>1. PICK r : r = Tail(q)
        OBVIOUS
      <4>2. PICK i \in DOMAIN r : r[i] = e
        BY <2>5, <2>7, <3>1, <4>1 DEF InFree
      <4>3. PICK j \in DOMAIN q : e = q[j]
        BY <2>6, <4>1, <4>2
      <4>4. QED
        BY <2>2, <3>1, <4>3 DEF InFree
    <3>2. CASE Owner(e) # p
      BY <2>5, <2>7, <3>2, Basics DEF InFree
    <3>3. QED
      BY <3>1, <3>2
  <2>8. \A e \in Descs : InRing(e)' <=> InRing(e)
    BY <2>3 DEF InRing
  <2>9. desc[d].status = "kStatusFinished"
    BY <2>4 DEF StatusInv
  <2>10. \A u \in Threads :
       /\ pc'[u] = "fill" => desc'[own'[u]].status = "kStatusFinished"
       /\ pc'[u] = "run" => Undecided(own[u])' \/ Decided(own[u])'
       /\ pc'[u] = "push" => Decided(own[u])'
    BY <2>3, <2>5, <2>9 DEF StatusInv, Decided, Undecided
  <2>11. QED
    BY <2>3, <2>7, <2>8, <2>10, <1>01 DEF StatusInv
<1>5. ASSUME NEW t \in Threads, ScavengeDescriptors(t) PROVE StatusInv'
  <2>0. PICK p \in Partitions, s \in Nat, q \in Seq(Descs) : ScavengeEffect(t, p, s, q)
    BY <1>5, ScavengeIs
  <2>1. /\ free_list' = [free_list EXCEPT ![p] = q] /\ Lists(q, Descs, {ring[p][k].item : k \in Reclaimable(p, s)})
        /\ desc' = [d \in Descs |-> IF d \in ToSet(q) THEN Initialize ELSE desc[d]]
        /\ UNCHANGED <<own, pc>> /\ ring' = AfterScavenge(p, s)
    BY <2>0 DEF ScavengeEffect, opVars
  <2>2. /\ free_list'[p] = q /\ \A o \in Partitions \ {p} : free_list'[o] = free_list[o]
        /\ \A e \in ToSet(q) : \E k \in Slots : e = ring[p][k].item
        /\ \A e \in Descs : e \in ToSet(q) <=> \E i \in DOMAIN q : e = q[i]
    BY <1>0, <2>1 DEF ListType, Lists, ToSet, Reclaimable
  <2>3. \A e \in ToSet(q) : e \in Descs /\ Owner(e) = p /\ InRing(e)
    <3>1. ToSet(q) \subseteq Descs
      BY DEF ToSet
    <3>2. \A k \in Slots : ring[p][k].item \in Descs => Owner(ring[p][k].item) = p
      BY Basics DEF PlaceInv
    <3>3. QED
      BY <3>1, <3>2, <2>2 DEF InRing
  <2>4. /\ \A e \in ToSet(q) : desc'[e].status = "kStatusFinished"
        /\ \A e \in Descs : e \notin ToSet(q) => desc'[e] = desc[e]
    BY <2>1, <2>3 DEF Initialize
  <2>5. \A e \in Descs : e \notin ToSet(q) =>
            /\ (Decided(e)' <=> Decided(e)) /\ (Undecided(e)' <=> Undecided(e))
            /\ (Succeeded(e)' <=> Succeeded(e)) /\ Entries(e)' = Entries(e)
    BY <2>4 DEF Decided, Undecided, Succeeded, Entries
  <2>6. ASSUME NEW e \in Descs, InFree(e)' PROVE desc'[e].status = "kStatusFinished"
    <3>1. CASE Owner(e) = p
      BY <2>2, <2>4, <2>6, <3>1 DEF InFree
    <3>2. CASE Owner(e) # p
      <4>1. InFree(e)
        BY <2>2, <2>6, <3>2, Basics, SMTT(40) DEF InFree
      <4>2. e \notin ToSet(q)
        BY <2>3, <3>2
      <4>3. QED
        BY <4>1, <4>2, <2>4 DEF StatusInv
    <3>3. QED
      BY <3>1, <3>2
  <2>7. ASSUME NEW e \in Descs, InRing(e)' PROVE Decided(e)'
    <3>1. e \notin ToSet(q)
      <4>1. ~InFree(e)'
        BY <2>7 DEF PlaceInv
      <4>2. QED
        BY <4>1, <2>2, <2>3 DEF InFree
    <3>2. InRing(e)
      <4>1. \A o \in Partitions : \A k \in Slots : ring'[o][k] = EmptySlot \/ ring'[o][k] = ring[o][k]
        BY <1>0, <2>1, ScavengedRing
      <4>2. EmptySlot.item # e
        BY Basics DEF EmptySlot
      <4>3. QED
        BY <4>1, <4>2, <2>7, Basics DEF InRing
    <3>3. QED
      BY <3>1, <3>2, <2>5 DEF StatusInv
  <2>8. ASSUME NEW u \in Threads
        PROVE  /\ pc'[u] = "fill" => desc'[own'[u]].status = "kStatusFinished"
               /\ pc'[u] = "run" => Undecided(own[u])' \/ Decided(own[u])'
               /\ pc'[u] = "push" => Decided(own[u])'
    <3>1. pc[u] \in {"fill", "run", "push"} => own[u] \in Descs /\ own[u] \notin ToSet(q)
      BY <2>3, OwnIs
    <3>2. QED
      BY <3>1, <2>1, <2>4 DEF StatusInv, Undecided, Decided
  <2>9. ASSUME NEW e \in Descs, Undecided(e)' \/ Succeeded(e)' PROVE \A x \in Entries(e)' : x.new # Reserved
    <3>1. e \notin ToSet(q)
      BY <2>4, <2>9 DEF Undecided, Succeeded
    <3>2. QED
      BY <3>1, <2>5, <2>9 DEF StatusInv
  <2>10. QED
    BY <2>1, <2>6, <2>7, <2>8, <2>9 DEF StatusInv
<1>6. ASSUME NEW t \in Threads, AllocateAndAddEntry(t) \/ ReserveAndAddEntry(t) \/ FillReserved(t) PROVE StatusInv'
  <2>1. PICK d \in Descs, q \in Seq(EntrySet) : FillEffect(t, d, q)
    BY <1>6, AddIs, FillIs
  <2>2. /\ d = own[t] /\ pc[t] = "fill" /\ desc' = [desc EXCEPT ![d].entries = q] /\ UNCHANGED <<free_list, ring, own, pc>>
    BY <2>1 DEF FillEffect, ringVars
  <2>3. desc[d].status = "kStatusFinished"
    BY <2>2 DEF StatusInv
  <2>4. desc'[d].status = "kStatusFinished" /\ \A e \in Descs \ {d} : desc'[e] = desc[e]
    BY <1>0, <2>2, <2>3 DEF DescType
  <2>5. ~Undecided(d)' /\ ~Succeeded(d)'
    BY <2>4 DEF Undecided, Succeeded
  <2>6. QED
    BY <2>2, <2>4, <2>5, StatusInPlace
<1>7. ASSUME NEW t \in Threads, StartMwCAS(t) \/ Abort(t) PROVE StatusInv'
  <2>1. PICK d \in Descs : d = own[t] /\ pc[t] = "fill"
    BY <1>7, OwnIs DEF StartMwCAS, Abort
  <2>2. UNCHANGED <<free_list, ring, own>>
    BY <1>7 DEF StartMwCAS, Abort, ringVars
  <2>3. CASE StartMwCAS(t)
    <3>1. desc' = [desc EXCEPT ![d].status = "kStatusUndecided"] /\ pc' = [pc EXCEPT ![t] = "run"]
          /\ \A e \in Entries(d) : e.new # Reserved
      BY <2>1, <2>3 DEF StartMwCAS, Put
    <3>2. /\ Undecided(d)' /\ Entries(d)' = Entries(d) /\ \A e \in Descs \ {d} : desc'[e] = desc[e]
          /\ pc'[t] = "run" /\ \A u \in Threads \ {t} : pc'[u] = pc[u]
      BY <1>0, <3>1 DEF DescType, PcType, Undecided, Entries
    <3>3. QED
      BY <2>1, <2>2, <3>1, <3>2, StatusInPlace
  <2>4. CASE Abort(t)
    <3>1. desc' = [desc EXCEPT ![d].status = "kStatusFailed"] /\ pc' = [pc EXCEPT ![t] = "push"]
      BY <2>1, <2>4 DEF Abort, Put
    <3>2. /\ Decided(d)' /\ ~Undecided(d)' /\ ~Succeeded(d)' /\ \A e \in Descs \ {d} : desc'[e] = desc[e]
          /\ pc'[t] = "push" /\ \A u \in Threads \ {t} : pc'[u] = pc[u]
      BY <1>0, <3>1 DEF DescType, PcType, Undecided, Decided, Succeeded
    <3>3. QED
      BY <2>1, <2>2, <3>1, <3>2, StatusInPlace
  <2>5. QED
    BY <1>7, <2>3, <2>4
<1>8. ASSUME NEW t \in Threads, Decide(t) PROVE StatusInv'
  <2>1. PICK d \in reached[t], s \in {"kStatusSucceeded", "kStatusFailed"} :
          Undecided(d) /\ desc' = [desc EXCEPT ![d].status = s]
    BY <1>8 DEF Decide
  <2>2. UNCHANGED <<free_list, ring, own, pc>> /\ d \in Descs
    BY <1>8, <2>1, Types DEF Decide, ringVars, opVars, ReachType
  <2>3. Decided(d)' /\ ~Undecided(d)' /\ Entries(d)' = Entries(d) /\ \A e \in Descs \ {d} : desc'[e] = desc[e]
    BY <1>0, <2>1, <2>2 DEF DescType, Decided, Undecided, Entries
  <2>4. \A e \in Descs \ {d} : /\ (Decided(e)' <=> Decided(e)) /\ (Undecided(e)' <=> Undecided(e))
                               /\ (Succeeded(e)' <=> Succeeded(e)) /\ Entries(e)' = Entries(e)
    BY <2>3 DEF Decided, Undecided, Succeeded, Entries
  <2>5. \A e \in Descs : (InFree(e)' <=> InFree(e)) /\ (InRing(e)' <=> InRing(e))
    BY <2>2 DEF InFree, InRing
  <2>6. ~InFree(d) /\ ~InRing(d)
    BY <2>1, <2>2 DEF StatusInv, Undecided, Decided
  <2>7. ASSUME NEW u \in Threads
        PROVE  /\ pc'[u] = "fill" => desc'[own'[u]].status = "kStatusFinished"
               /\ pc'[u] = "run" => Undecided(own[u])' \/ Decided(own[u])'
               /\ pc'[u] = "push" => Decided(own[u])'
    <3>1. pc[u] \in {"fill", "run", "push"} => own[u] \in Descs
      BY OwnIs
    <3>2. CASE own[u] = d
      BY <3>2, <2>1, <2>2, <2>3 DEF StatusInv, Undecided, Decided
    <3>3. CASE own[u] # d
      BY <3>1, <3>3, <2>2, <2>3 DEF StatusInv, Undecided, Decided
    <3>4. QED
      BY <3>2, <3>3
  <2>8. QED
    BY <2>1, <2>2, <2>3, <2>4, <2>5, <2>6, <2>7 DEF StatusInv
<1>9. ASSUME NEW t \in Threads, Cleanup(t) PROVE StatusInv'
  <2>1. PICK d \in Descs : d = own[t] /\ pc[t] = "run"
    BY <1>9, OwnIs DEF Cleanup
  <2>2. UNCHANGED <<free_list, ring, own, desc>> /\ pc' = [pc EXCEPT ![t] = "push"] /\ ~Undecided(d)
    BY <1>9, <2>1 DEF Cleanup, EndsOn, Put
  <2>3. pc'[t] = "push" /\ \A u \in Threads \ {t} : pc'[u] = pc[u]
    BY <1>0, <2>2 DEF PcType
  <2>4. Decided(d) /\ Decided(d)'
    BY <2>1, <2>2 DEF StatusInv, Decided
  <2>5. Undecided(d)' \/ Succeeded(d)' => \A e \in Entries(d)' : e.new # Reserved
    BY <2>2, <1>01 DEF StatusInv
  <2>6. QED
    BY <2>1, <2>2, <2>3, <2>4, <2>5, StatusInPlace
<1>10. ASSUME NEW t \in Threads, PushDescriptor(t) PROVE StatusInv'
  <2>0. PICK d \in Descs, p \in Partitions, k \in Slots : PushEffect(t, d, p, k)
    BY <1>10, PushIs
  <2>1. /\ d = own[t] /\ p = Owner(d) /\ pc[t] = "push"
        /\ ring' = [ring EXCEPT ![p][k] = [item |-> d, epoch |-> stamp[t]]]
        /\ pc' = [pc EXCEPT ![t] = "idle"] /\ own' = [own EXCEPT ![t] = NoItem] /\ UNCHANGED <<desc, free_list>>
    BY <2>0 DEF PushEffect, descVars
  <2>2. /\ ring'[p][k].item = d
        /\ \A o \in Partitions : \A s \in Slots : o # p \/ s # k => ring'[o][s] = ring[o][s]
        /\ pc'[t] = "idle" /\ \A u \in Threads \ {t} : pc'[u] = pc[u] /\ own'[u] = own[u]
    BY <1>0, <2>1 DEF RingType, PcType
  <2>3. \A e \in Descs : InRing(e)' => InRing(e) \/ e = d
    BY <2>2, Basics DEF InRing
  <2>4. \A e \in Descs : InFree(e)' <=> InFree(e)
    BY <2>1 DEF InFree
  <2>5. Decided(d)
    BY <2>1 DEF StatusInv
  <2>6. \A u \in Threads :
       /\ pc'[u] = "fill" => desc'[own'[u]].status = "kStatusFinished"
    BY <2>1, <2>2 DEF StatusInv, Decided, Undecided
  <2>7. \A u \in Threads :
       /\ pc'[u] = "run" => Undecided(own[u])' \/ Decided(own[u])'
       /\ pc'[u] = "push" => Decided(own[u])'
    BY <2>1, <2>2 DEF StatusInv, Decided, Undecided
  <2>8. QED
    BY <2>1, <2>3, <2>4, <2>5, <2>6, <2>7, <1>01 DEF StatusInv
<1>11. ASSUME ReplacePool PROVE StatusInv'
  <2>1. /\ desc' = [d \in Descs |-> Initialize] /\ ring' = EmptyRings /\ \A t \in Threads : pc'[t] = "idle"
    BY <1>11 DEF ReplacePool, BusyInv, Running, Idle, opVars
  <2>2. \A d \in Descs : desc'[d].status = "kStatusFinished" /\ ~InRing(d)'
    BY <2>1, Basics DEF Initialize, EmptyRings, EmptySlot, InRing
  <2>3. QED
    BY <2>1, <2>2 DEF StatusInv, Undecided, Succeeded
<1>12. QED
  BY <1>1, <1>2, <1>3, <1>4, <1>5, <1>6, <1>7, <1>8, <1>9, <1>10, <1>11, StatusSteps

-----------------------------------------------------------------------------
(***************************************************************************)
(* Who can still reach a descriptor.                                       *)
(***************************************************************************)
\* The entries of a descriptor have the types of entries.
LEMMA EntriesIn ==
  ASSUME TypeOK, NEW d \in Descs
  PROVE  \A e \in Entries(d) : e.addr \in Words /\ e.old \in Blocks /\ e.new \in Blocks \cup {Reserved}
<1>1. PICK q \in Seq(EntrySet) : q = desc[d].entries
  BY Types DEF DescType
<1>2. \A i \in DOMAIN q : q[i] \in EntrySet
  OBVIOUS
<1>3. Entries(d) \subseteq EntrySet
  BY <1>1, <1>2 DEF Entries, ToSet
<1>4. QED
  BY <1>3 DEF EntrySet

\* The entry of a descriptor for an address it has.
LEMMA EntryAt ==
  ASSUME TypeOK, NEW d \in Descs, NEW a, Has(d, a)
  PROVE  LET e == CHOOSE e \in Entries(d) : e.addr = a
         IN  /\ e \in Entries(d) /\ e.addr = a /\ e.old \in Blocks /\ e.new \in Blocks \cup {Reserved}
<1>2. PICK e : e = CHOOSE f \in Entries(d) : f.addr = a
  OBVIOUS
<1>3. e \in Entries(d) /\ e.addr = a
  BY <1>2 DEF Has
<1>4. e.old \in Blocks /\ e.new \in Blocks \cup {Reserved}
  BY <1>3, EntriesIn
<1>5. QED
  BY <1>2, <1>3, <1>4, Zenon

\* CondCAS replaces its pointer by the descriptor or by a value.
LEMMA OutcomeIs ==
  ASSUME TypeOK, NEW d \in Descs, NEW a, Has(d, a)
  PROVE  /\ Outcome(d, a) \in Content /\ Outcome(d, a) # NoItem
         /\ Outcome(d, a).kind = "value" \/ Outcome(d, a) = Installed(d)
<1>1. PICK e : e = (CHOOSE f \in Entries(d) : f.addr = a) /\ e.old \in Blocks
  BY EntryAt
<1>2. Outcome(d, a) = IF Undecided(d) THEN Installed(d) ELSE Plain(e.old)
  BY <1>1 DEF Outcome
<1>3. Plain(e.old) \in Content /\ Plain(e.old).kind = "value" /\ Installed(d) \in Content
  BY <1>1 DEF Plain, Installed, Content
<1>4. QED
  BY <1>2, <1>3, NamesAssumption

\* What a word holds.
LEMMA ContentIs ==
  ASSUME NEW w \in Content
  PROVE  /\ w.kind \in {"value", "mwcas", "condcas"}
         /\ w.kind = "value" => w.of \in Blocks
         /\ w.kind # "value" => w.of \in Descs
         /\ \A d : w = Installed(d) <=> w.kind = "mwcas" /\ w.of = d
         /\ \A d : w = Conditional(d) <=> w.kind = "condcas" /\ w.of = d
  BY DEF Content, Installed, Conditional

\* Phase 2 takes the descriptor out of the words and leaves the other words
\* alone.
LEMMA Phase2Is ==
  ASSUME TypeOK, StatusInv, ReachInv, NEW d \in Descs, Phase2(d)
  PROVE  /\ word' \in [Words -> Content]
         /\ \A a \in Words : /\ word[a] = Installed(d) => word'[a].kind = "value"
                             /\ word[a] # Installed(d) => word'[a] = word[a]
<1>1. \A a \in Words : word[a] \in Content
  BY Types DEF DescType
<1>2. ASSUME NEW a \in Words, word[a] = Installed(d)
      PROVE  word'[a] \in Content /\ word'[a].kind = "value"
  <2>1. Has(d, a)
    BY <1>1, <1>2, ContentIs DEF ReachInv
  <2>2. PICK e : e = (CHOOSE f \in Entries(d) : f.addr = a) /\ e \in Entries(d) /\ e.old \in Blocks
                 /\ e.new \in Blocks \cup {Reserved}
    BY <2>1, EntryAt
  <2>3. PICK b : b = IF Succeeded(d) THEN e.new ELSE e.old
    OBVIOUS
  <2>4. b \in Blocks
    BY <2>2, <2>3 DEF StatusInv
  <2>5. word'[a] = Plain(b)
    BY <1>2, <2>2, <2>3 DEF Phase2
  <2>6. QED
    BY <2>4, <2>5 DEF Plain, Content
<1>3. \A a \in Words : word[a] # Installed(d) => word'[a] = word[a]
  BY DEF Phase2
<1>4. \A a \in Words : word'[a] \in Content
  BY <1>1, <1>2, <1>3
<1>5. word' = [a \in Words |-> word'[a]]
  BY DEF Phase2
<1>6. QED
  BY <1>2, <1>3, <1>4, <1>5

\* A descriptor that a thread has reached, or that a word names.
LEMMA GuardedIs ==
  ASSUME TypeOK, BusyInv, PlaceInv, StatusInv, NEW t \in Threads, NEW d \in Descs, Guarded(t, d)
  PROVE  /\ Undecided(d) \/ Decided(d)
         /\ ~InFree(d)
         /\ \A u \in Threads : own[u] = d => pc[u] \in {"run", "push"}
         /\ Undecided(d) => \E u \in Threads : own[u] = d /\ pc[u] = "run"
<1>1. CASE InRing(d)
  <2>1. Decided(d) /\ ~InFree(d) /\ ~Held(d)
    BY <1>1 DEF StatusInv, PlaceInv
  <2>2. QED
    BY <2>1 DEF Held, Decided, Undecided
<1>2. CASE \E u \in Threads : own[u] = d /\ pc[u] \in {"run", "push"}
  <2>1. PICK u \in Threads : own[u] = d /\ pc[u] \in {"run", "push"}
    BY <1>2
  <2>2. ~InFree(d) /\ \A v \in Threads \ {u} : own[v] # d
    BY <2>1, OwnIs
  <2>3. QED
    BY <2>1, <2>2 DEF StatusInv, Decided, Undecided
<1>3. QED
  BY <1>1, <1>2 DEF Guarded, InRing

\* What a word points to is worked on by some thread in its region.
LEMMA LinkedReached ==
  ASSUME TypeOK, ReachInv, NEW a \in Words, word[a].kind # "value"
  PROVE  /\ word[a].of \in Descs /\ Has(word[a].of, a)
         /\ \E t \in Threads : word[a].of \in reached[t] /\ Protected(t) /\ Guarded(t, word[a].of)
<1>1. word[a].kind \in {"mwcas", "condcas"} /\ word[a].of \in Descs
  BY Types, ContentIs DEF DescType
<1>2. PICK t \in Threads : word[a].of \in reached[t]
  BY <1>1 DEF ReachInv, Putting
<1>3. QED
  BY <1>1, <1>2 DEF ReachInv

\* A step after which the words and those who have reached descriptors are the
\* same, and what these have reached is still guarded and has its entries.
LEMMA ReachKept ==
  ASSUME TypeOK, ReachInv, UNCHANGED <<word, reached, cond>>,
         \A t \in Threads : Protected(t) => Protected(t)',
         \A t \in Threads, d \in Descs : d \in reached[t] => Guarded(t, d)' /\ \A a \in Words : Has(d, a) => Has(d, a)'
  PROVE  ReachInv'
<1>1. \A t \in Threads : \A d \in reached'[t] : Protected(t)' /\ Guarded(t, d)'
  <2>1. \A t \in Threads : reached[t] \subseteq Descs
    BY Types DEF ReachType
  <2>2. QED
    BY <2>1 DEF ReachInv
<1>2. ASSUME NEW t \in Threads, cond'[t] # NoItem
      PROVE  /\ Protected(t)'
             /\ cond'[t].to = NoItem => cond'[t].d \in reached'[t] /\ Has(cond[t].d, cond[t].addr)'
             /\ cond'[t].to # NoItem => cond'[t].to.kind = "value" \/ cond'[t].to = Installed(cond'[t].d)
  <2>1. Protected(t)'
    BY <1>2 DEF ReachInv
  <2>2. cond[t] \in CondCASes
    BY <1>2, Types DEF ReachType
  <2>3. cond[t].d \in Descs /\ cond[t].addr \in Words
    BY <2>2 DEF CondCASes
  <2>4. QED
    BY <1>2, <2>1, <2>3 DEF ReachInv
<1>3. \A a \in Words : word[a].kind # "value" => Has(word[a].of, a)'
  BY LinkedReached
<1>4. \A a \in Words : word[a].kind = "mwcas" => \E t \in Threads : word'[a].of \in reached'[t]
  BY DEF ReachInv
<1>5. \A a \in Words : word[a].kind = "condcas" => \E t \in Threads : Putting(t, a, word[a].of)'
  BY DEF ReachInv, Putting
<1>6. QED
  BY <1>1, <1>2, <1>3, <1>4, <1>5 DEF ReachInv

\* The steps that touch descriptors, words, memory or what threads have reached.
LEMMA DescSteps ==
  Next => \/ UNCHANGED <<desc, word, mem, reached, todo, cond>>
          \/ \E t \in Threads : \/ Leave(t) \/ ScavengeDescriptors(t) \/ AllocateAndAddEntry(t) \/ ReserveAndAddEntry(t)
                                \/ FillReserved(t) \/ StartMwCAS(t) \/ Abort(t) \/ PutConditional(t) \/ LookAtStatus(t)
                                \/ MeetConditional(t) \/ ReplaceConditional(t) \/ ReachDescriptor(t) \/ Decide(t)
                                \/ StopHelping(t) \/ Cleanup(t) \/ PushDescriptor(t)
          \/ ReplacePool
  BY DEF Next, OpSteps, Enter, Lifecycle, BeginAllocate, TakeDescriptor, descVars, opVars

\* What is freed or left is memory.
LEMMA FreedIs ==
  ASSUME TypeOK, NEW d \in Descs
  PROVE  DeallocateMemory(d) \subseteq Blocks
<1>1. \A e \in Entries(d) : e.old \in Blocks /\ e.new \in Blocks \cup {Reserved}
  BY EntriesIn
<1>2. \A e \in Entries(d) : FreedOf(d, e) \in {e.old, e.new, Reserved}
  BY DEF FreedOf
<1>3. QED
  BY <1>1, <1>2 DEF DeallocateMemory

\* The pairs that a thread has to do for a descriptor are of descriptors and
\* words.
LEMMA WordsOf ==
  ASSUME TypeOK, NEW d \in Descs
  PROVE  {<<d, e.addr>> : e \in Entries(d)} \subseteq Descs \X Words
  BY EntriesIn

\* Every step keeps the types of descriptors, words, memory and of what threads
\* hold.
LEMMA DescStep ==
  ASSUME TypeOK, TlsInv, BusyInv, PlaceInv, RingInv, EpochInv, StatusInv, ReachInv, Next \/ UNCHANGED vars
  PROVE  DescType' /\ ReachType'
<1>0. DescType /\ ReachType
  BY Types
<1>01. /\ desc \in [Descs -> [status : {"kStatusFinished", "kStatusUndecided", "kStatusSucceeded",
                                   "kStatusFailed"}, entries : Seq(EntrySet)]]
       /\ \A a \in Words : word[a] \in Content
       /\ \A t \in Threads : reached[t] \subseteq Descs
       /\ \A t \in Threads : cond[t] # NoItem => cond[t] \in CondCASes
  BY <1>0 DEF DescType, ReachType
<1>1. CASE UNCHANGED <<desc, word, mem, reached, todo, cond>>
  BY <1>0, <1>1 DEF DescType, ReachType
<1>2. CASE UNCHANGED vars
  BY <1>1, <1>2 DEF vars, descVars, opVars
<1>3. ASSUME NEW t \in Threads, Leave(t) PROVE DescType' /\ ReachType'
  BY <1>0, <1>3 DEF Leave, DescType, ReachType, descVars, Put
<1>4. ASSUME NEW t \in Threads, ScavengeDescriptors(t) PROVE DescType' /\ ReachType'
  <2>1. PICK p \in Partitions, s \in Nat, q \in Seq(Descs) : ScavengeEffect(t, p, s, q)
    BY <1>4, ScavengeIs
  <2>2. /\ desc' = [d \in Descs |-> IF d \in ToSet(q) THEN Initialize ELSE desc[d]]
        /\ mem' \subseteq mem
        /\ UNCHANGED <<word, reached, todo, cond>>
    BY <2>1 DEF ScavengeEffect, opVars
  <2>3. ToSet(q) \subseteq Descs
    BY DEF ToSet
  <2>4. mem' \subseteq Blocks
    BY <1>0, <2>2, <2>3, FreedIs DEF DescType
  <2>5. \A d \in Descs : desc'[d] \in [status : {"kStatusFinished", "kStatusUndecided", "kStatusSucceeded",
                                   "kStatusFailed"}, entries : Seq(EntrySet)]
    BY <1>01, <2>2 DEF Initialize
  <2>6. QED
    BY <1>0, <2>2, <2>4, <2>5 DEF DescType, ReachType
<1>5. ASSUME NEW t \in Threads, AllocateAndAddEntry(t) \/ ReserveAndAddEntry(t) \/ FillReserved(t)
      PROVE  DescType' /\ ReachType'
  <2>1. PICK d \in Descs, q \in Seq(EntrySet) : FillEffect(t, d, q)
    BY <1>5, AddIs, FillIs
  <2>2. /\ desc' = [desc EXCEPT ![d].entries = q] /\ UNCHANGED <<word, reached, todo, cond>>
        /\ mem' \subseteq Blocks
    BY <2>1 DEF FillEffect
  <2>3. QED
    BY <1>0, <2>2 DEF DescType, ReachType
<1>6. ASSUME NEW t \in Threads, StartMwCAS(t) PROVE DescType' /\ ReachType'
  <2>1. PICK d \in Descs : d = own[t]
    BY <1>6, OwnIs DEF StartMwCAS
  <2>2. PICK W \in SUBSET (Descs \X Words) : W = {<<d, e.addr>> : e \in Entries(d)}
    BY WordsOf
  <2>3. /\ desc' = [desc EXCEPT ![d].status = "kStatusUndecided"]
        /\ reached' = [reached EXCEPT ![t] = @ \cup {d}]
        /\ todo' = [todo EXCEPT ![t] = @ \cup W]
        /\ UNCHANGED <<word, mem, cond>>
    BY <1>6, <2>1, <2>2 DEF StartMwCAS
  <2>4. DescType'
    BY <1>0, <2>3 DEF DescType
  <2>5. ReachType'
    BY <1>0, <2>3 DEF ReachType
  <2>6. QED
    BY <2>4, <2>5
<1>7. ASSUME NEW t \in Threads, Abort(t) PROVE DescType' /\ ReachType'
  <2>1. PICK d \in Descs : d = own[t]
    BY <1>7, OwnIs DEF Abort
  <2>2. desc' = [desc EXCEPT ![d].status = "kStatusFailed"] /\ UNCHANGED <<word, mem, reached, todo, cond>>
    BY <1>7, <2>1 DEF Abort
  <2>3. QED
    BY <1>0, <2>2 DEF DescType, ReachType
<1>8. ASSUME NEW t \in Threads, PutConditional(t) PROVE DescType' /\ ReachType'
  <2>1. PICK d, e :
          /\ d \in reached[t] /\ e \in Entries(d)
          /\ word' = Put(word, e.addr, Conditional(d))
          /\ todo' = [todo EXCEPT ![t] = @ \ {<<d, e.addr>>}]
          /\ cond' = Put(cond, t, [addr |-> e.addr, d |-> d, to |-> NoItem])
    BY <1>8 DEF PutConditional
  <2>2. UNCHANGED <<desc, mem, reached>> /\ d \in Descs
    BY <1>8, <2>1, <1>01 DEF PutConditional
  <2>3. PICK a \in Words : a = e.addr
    BY <2>1, <2>2, EntriesIn
  <2>4. Conditional(d) \in Content /\ [addr |-> a, d |-> d, to |-> NoItem] \in CondCASes
    BY <2>2 DEF Conditional, Content, CondCASes
  <2>5. DescType'
    BY <1>0, <2>1, <2>2, <2>3, <2>4 DEF DescType, Put
  <2>6. ReachType'
    BY <1>0, <2>1, <2>2, <2>3, <2>4 DEF ReachType, Put
  <2>7. QED
    BY <2>5, <2>6
<1>9. ASSUME NEW t \in Threads, LookAtStatus(t) PROVE DescType' /\ ReachType'
  <2>1. /\ cond[t] # NoItem /\ cond[t].to = NoItem /\ cond[t] \in CondCASes
        /\ cond' = [cond EXCEPT ![t].to = Outcome(cond[t].d, cond[t].addr)]
        /\ UNCHANGED <<desc, word, mem, reached, todo>>
    BY <1>9, <1>01 DEF LookAtStatus, descVars
  <2>2. PICK d \in Descs, a \in Words : d = cond[t].d /\ a = cond[t].addr /\ Has(d, a)
    BY <2>1 DEF CondCASes, ReachInv
  <2>3. PICK w \in Content : w = Outcome(d, a)
    BY <2>2, OutcomeIs
  <2>4. [cond[t] EXCEPT !.to = w] \in CondCASes
    BY <2>1 DEF CondCASes
  <2>5. QED
    BY <1>0, <2>1, <2>2, <2>3, <2>4 DEF DescType, ReachType
<1>10. ASSUME NEW t \in Threads, MeetConditional(t) PROVE DescType' /\ ReachType'
  <2>1. PICK a \in Words : word[a].kind = "condcas" /\ cond' = Put(cond, t, [addr |-> a, d |-> word[a].of, to |-> Outcome(word[a].of, a)])
    BY <1>10 DEF MeetConditional
  <2>2. UNCHANGED <<desc, word, mem, reached, todo>>
    BY <1>10 DEF MeetConditional, descVars
  <2>3. PICK d \in Descs : d = word[a].of /\ Has(d, a)
    BY <2>1, LinkedReached
  <2>4. PICK w \in Content : w = Outcome(d, a)
    BY <2>3, OutcomeIs
  <2>5. [addr |-> a, d |-> d, to |-> w] \in CondCASes
    BY DEF CondCASes
  <2>6. QED
    BY <1>0, <2>1, <2>2, <2>3, <2>4, <2>5 DEF DescType, ReachType, Put
<1>11. ASSUME NEW t \in Threads, ReplaceConditional(t) PROVE DescType' /\ ReachType'
  <2>1. cond[t] # NoItem /\ cond[t].to # NoItem /\ cond[t] \in CondCASes
    BY <1>11, <1>01 DEF ReplaceConditional
  <2>2. PICK a \in Words, w \in Content : a = cond[t].addr /\ w = cond[t].to
    BY <2>1 DEF CondCASes
  <2>3. /\ word' = [word EXCEPT ![a] = w] \/ UNCHANGED word
        /\ cond' = [cond EXCEPT ![t] = NoItem] /\ UNCHANGED <<desc, mem, reached, todo>>
    BY <1>11, <2>2 DEF ReplaceConditional, Put
  <2>4. QED
    BY <1>0, <2>2, <2>3 DEF DescType, ReachType
<1>12. ASSUME NEW t \in Threads, ReachDescriptor(t) PROVE DescType' /\ ReachType'
  <2>1. PICK a \in Words : word[a].kind = "mwcas" /\ StartsOn(t, word[a].of)
    BY <1>12 DEF ReachDescriptor
  <2>2. PICK d \in Descs : d = word[a].of
    BY <2>1, LinkedReached
  <2>3. PICK W \in SUBSET (Descs \X Words) : W = {<<d, e.addr>> : e \in Entries(d)}
    BY WordsOf
  <2>4. /\ reached' = [reached EXCEPT ![t] = @ \cup {d}]
        /\ todo' = [todo EXCEPT ![t] = @ \cup W]
        /\ UNCHANGED <<desc, word, mem, cond>>
    <3>1. StartsOn(t, d)
      BY <2>1, <2>2
    <3>2. UNCHANGED <<desc, word, mem, cond>>
      BY <1>12 DEF ReachDescriptor, descVars
    <3>3. QED
      BY <3>1, <3>2, <2>3 DEF StartsOn
  <2>5. QED
    BY <1>0, <2>4 DEF DescType, ReachType
<1>13. ASSUME NEW t \in Threads, Decide(t) PROVE DescType' /\ ReachType'
  <2>1. PICK d \in reached[t], s \in {"kStatusSucceeded", "kStatusFailed"} : desc' = [desc EXCEPT ![d].status = s]
    BY <1>13 DEF Decide
  <2>2. d \in Descs /\ UNCHANGED <<word, mem, reached, todo, cond>>
    BY <1>13, <1>01 DEF Decide, opVars
  <2>3. QED
    BY <1>0, <2>1, <2>2 DEF DescType, ReachType
<1>14. ASSUME NEW t \in Threads, StopHelping(t) \/ Cleanup(t) PROVE DescType' /\ ReachType'
  <2>1. PICK d : EndsOn(t, d)
    BY <1>14 DEF StopHelping, Cleanup
  <2>2. /\ d \in Descs /\ Phase2(d) /\ UNCHANGED <<desc, mem, cond>>
        /\ reached' = [reached EXCEPT ![t] = @ \ {d}]
        /\ todo' = [todo EXCEPT ![t] = {x \in @ : x[1] # d}]
    BY <2>1, <1>01, <1>14 DEF EndsOn, StopHelping, Cleanup
  <2>3. word' \in [Words -> Content]
    BY <2>2, Phase2Is
  <2>4. QED
    BY <1>0, <2>2, <2>3 DEF DescType, ReachType
<1>15. ASSUME NEW t \in Threads, PushDescriptor(t) PROVE DescType' /\ ReachType'
  <2>1. PICK d \in Descs, p \in Partitions, k \in Slots : PushEffect(t, d, p, k)
    BY <1>15, PushIs
  <2>2. QED
    BY <2>1, <1>1 DEF PushEffect, descVars
<1>16. ASSUME ReplacePool PROVE DescType' /\ ReachType'
  <2>1. /\ desc' = [d \in Descs |-> Initialize] /\ UNCHANGED <<word, mem, reached, todo, cond>>
    BY <1>16 DEF ReplacePool, opVars
  <2>2. QED
    BY <1>0, <2>1 DEF DescType, ReachType, Initialize
<1>17. QED
  BY <1>1, <1>2, <1>3, <1>4, <1>5, <1>6, <1>7, <1>8, <1>9, <1>10, <1>11, <1>12, <1>13, <1>14, <1>15, <1>16, DescSteps

\* Guards that do not change: no thread in "run" or "push" and no slot of a
\* guarded descriptor is touched.
LEMMA GuardsKept ==
  ASSUME NEW t \in Threads, NEW d \in Descs, Guarded(t, d), UNCHANGED <<ring, stamp>>, local'[t] = local[t],
         \A u \in Threads : pc[u] \in {"run", "push"} => pc'[u] = pc[u] /\ own'[u] = own[u]
  PROVE  Guarded(t, d)'
  BY DEF Guarded

\* A descriptor that keeps its entries keeps its addresses.
LEMMA EntriesKept ==
  ASSUME NEW d, NEW a, Has(d, a), desc'[d].entries = desc[d].entries
  PROVE  Has(d, a)'
  BY DEF Has, Entries

\* Every step keeps each reached descriptor guarded and each linked one reached.
LEMMA ReachStep ==
  ASSUME TypeOK, TlsInv, BusyInv, PlaceInv, RingInv, EpochInv, StatusInv, ReachInv, Next \/ UNCHANGED vars
  PROVE  ReachInv'
<1>0. TlsType /\ RingType /\ ListType /\ PcType /\ DescType /\ ReachType
  BY Types
<1>01. \A t \in Threads, d \in Descs : d \in reached[t] => Protected(t) /\ Guarded(t, d)
  BY DEF ReachInv
<1>02. ASSUME UNCHANGED <<word, reached, cond, local, ring, stamp, desc>>,
              \A u \in Threads : pc[u] \in {"run", "push"} => pc'[u] = pc[u] /\ own'[u] = own[u]
       PROVE  ReachInv'
  <2>1. \A t \in Threads : Protected(t) => Protected(t)'
    BY <1>02 DEF Protected
  <2>2. \A t \in Threads, d \in Descs : d \in reached[t] => Guarded(t, d)'
    BY <1>01, <1>02, GuardsKept
  <2>3. \A d \in Descs, a \in Words : Has(d, a) => Has(d, a)'
    BY <1>02 DEF Has, Entries
  <2>4. QED
    BY <1>02, <2>1, <2>2, <2>3, ReachKept
<1>1. CASE UNCHANGED vars
  BY <1>1, <1>02 DEF vars, descVars, opVars, epochVars, ringVars
<1>2. ASSUME Lifecycle PROVE ReachInv'
  BY <1>2, <1>02 DEF Lifecycle, descVars, opVars, epochVars, ringVars
<1>3. ASSUME NEW t \in Threads, Enter(t) \/ Leave(t) PROVE ReachInv'
  <2>1. /\ UNCHANGED <<word, reached, cond, ring, stamp, desc, pc, own>>
        /\ local' = [local EXCEPT ![t] = current] \/ local' = [local EXCEPT ![t] = 0]
    BY <1>3 DEF Enter, Leave, Protect, Unprotect, descVars, opVars, ringVars
  <2>2. \A u \in Threads \ {t} : local'[u] = local[u]
    BY <1>0, <2>1 DEF RingType
  <2>3. reached[t] = {} /\ cond[t] = NoItem
    BY <1>3 DEF Enter, Leave, ReachInv
  <2>4. \A u \in Threads, d \in Descs : d \in reached[u] => u # t /\ Protected(u)' /\ Guarded(u, d)'
    BY <1>01, <2>1, <2>2, <2>3, GuardsKept DEF Protected
  <2>5. \A u \in Threads : cond[u] # NoItem => u # t /\ Protected(u)'
    BY <2>2, <2>3 DEF ReachInv, Protected
  <2>6. \A d, a : Has(d, a)' <=> Has(d, a)
    BY <2>1 DEF Has, Entries
  <2>7. \A u \in Threads : reached[u] \subseteq Descs
    BY <1>0 DEF ReachType
  <2>8. \A u \in Threads : \A a, d : Putting(u, a, d)' <=> Putting(u, a, d)
    BY <2>1 DEF Putting
  <2>9. QED
    BY <2>1, <2>4, <2>5, <2>6, <2>7, <2>8 DEF ReachInv
<1>4. ASSUME NEW t \in Threads, BeginAllocate(t) \/ TakeDescriptor(t) PROVE ReachInv'
  <2>1. /\ UNCHANGED <<word, reached, cond, local, ring, stamp, desc>> /\ pc[t] \in {"idle", "allocate"}
        /\ pc' = Put(pc, t, "allocate") \/ pc' = Put(pc, t, "fill")
        /\ UNCHANGED own \/ own' = Put(own, t, Head(free_list[Part(t)]))
    BY <1>4 DEF BeginAllocate, TakeDescriptor, descVars, epochVars, ringVars
  <2>2. \A u \in Threads \ {t} : pc'[u] = pc[u] /\ own'[u] = own[u]
    BY <1>0, <2>1 DEF PcType, Put
  <2>3. \A u \in Threads : pc[u] \in {"run", "push"} => pc'[u] = pc[u] /\ own'[u] = own[u]
    BY <2>1, <2>2
  <2>4. QED
    BY <2>1, <2>3, <1>02
<1>5. ASSUME NEW t \in Threads, ScavengeDescriptors(t) PROVE ReachInv'
  <2>0. PICK p \in Partitions, s \in Nat, q \in Seq(Descs) : ScavengeEffect(t, p, s, q)
    BY <1>5, ScavengeIs
  <2>1. /\ s = SafeAfterBump /\ Lists(q, Descs, {ring[p][k].item : k \in Reclaimable(p, s)})
        /\ ring' = AfterScavenge(p, s)
        /\ desc' = [d \in Descs |-> IF d \in ToSet(q) THEN Initialize ELSE desc[d]]
        /\ UNCHANGED <<word, reached, cond, local, stamp, pc, own>>
    BY <2>0 DEF ScavengeEffect, opVars
  <2>2. \A u \in Threads : local[u] \in Nat /\ (local[u] # 0 => s < local[u])
    BY <1>0, <2>1, SafeBump DEF RingType, EpochInv
  <2>3. /\ \A o \in Partitions \ {p} : ring'[o] = ring[o]
        /\ \A k \in Slots : k \notin Reclaimable(p, s) => ring'[p][k] = ring[p][k]
        /\ \A k \in Slots : k \in Reclaimable(p, s) <=> ring[p][k].epoch # 0 /\ ring[p][k].epoch <= s
    BY <1>0, <2>1, ScavengedRing
  <2>4. ASSUME NEW u \in Threads, NEW d \in Descs, d \in reached[u]
        PROVE  Guarded(u, d)' /\ d \notin ToSet(q)
    <3>1. local[u] # 0 /\ Guarded(u, d)
      BY <1>01, <2>4 DEF Protected
    <3>2. ASSUME NEW k \in Slots, ring[Owner(d)][k].item = d, local[u] <= ring[Owner(d)][k].epoch
          PROVE  ring'[Owner(d)][k] = ring[Owner(d)][k] /\ (Owner(d) = p => k \notin Reclaimable(p, s))
      <4>1. PICK o \in Partitions : o = Owner(d)
        BY Basics
      <4>2. PICK e, l \in Nat : e = ring[o][k].epoch /\ l = local[u]
        BY <1>0 DEF RingType
      <4>3. ~(e <= s)
        BY <4>1, <4>2, <3>1, <3>2, <2>2
      <4>4. QED
        BY <4>1, <4>2, <4>3, <2>3
    <3>3. Guarded(u, d)'
      BY <3>1, <3>2, <2>1 DEF Guarded
    <3>4. d \notin ToSet(q)
      <4>1. SUFFICES ASSUME d \in ToSet(q) PROVE FALSE
        OBVIOUS
      <4>2. PICK k \in Reclaimable(p, s) : d = ring[p][k].item
        BY <4>1, <2>1 DEF Lists
      <4>3. k \in Slots /\ Owner(d) = p
        BY <4>2, Basics DEF Reclaimable, PlaceInv
      <4>4. InRing(d)
        BY <4>2, <4>3 DEF InRing
      <4>5. ~Held(d)
        BY <4>4 DEF PlaceInv
      <4>6. PICK j \in Slots : ring[p][j].item = d /\ local[u] <= ring[p][j].epoch
        BY <3>1, <4>3, <4>5 DEF Guarded, Held
      <4>7. j = k
        BY <4>2, <4>3, <4>6, Basics DEF PlaceInv
      <4>8. QED
        BY <4>2, <4>3, <4>6, <4>7, <3>2
    <3>5. QED
      BY <3>3, <3>4
  <2>5. \A d \in Descs : d \notin ToSet(q) => desc'[d].entries = desc[d].entries
    BY <2>1
  <2>6. \A u \in Threads, d \in Descs : d \in reached[u] => Guarded(u, d)' /\ \A a \in Words : Has(d, a) => Has(d, a)'
    BY <2>4, <2>5, EntriesKept
  <2>7. QED
    BY <2>1, <2>6, ReachKept DEF Protected
<1>6. ASSUME NEW t \in Threads, AllocateAndAddEntry(t) \/ ReserveAndAddEntry(t) \/ FillReserved(t) PROVE ReachInv'
  <2>1. PICK d \in Descs, q \in Seq(EntrySet) : FillEffect(t, d, q)
    BY <1>6, AddIs, FillIs
  <2>2. /\ d = own[t] /\ pc[t] = "fill" /\ desc' = [desc EXCEPT ![d].entries = q]
        /\ UNCHANGED <<word, reached, cond, local, ring, stamp, pc, own>>
    BY <2>1 DEF FillEffect, epochVars, ringVars
  <2>3. ASSUME NEW u \in Threads, NEW e \in Descs, e \in reached[u]
        PROVE  Guarded(u, e)' /\ desc'[e].entries = desc[e].entries
    <3>1. Guarded(u, e)
      BY <1>01, <2>3
    <3>2. e # d
      BY <3>1, <2>2, GuardedIs
    <3>3. desc'[e] = desc[e]
      BY <1>0, <2>2, <3>2 DEF DescType
    <3>4. QED
      BY <2>2, <3>1, <3>3, GuardsKept
  <2>4. \A u \in Threads, e \in Descs : e \in reached[u] => Guarded(u, e)' /\ \A a \in Words : Has(e, a) => Has(e, a)'
    BY <2>3, EntriesKept
  <2>5. QED
    BY <2>2, <2>4, ReachKept DEF Protected
<1>7. ASSUME NEW d \in Descs, NEW s, desc' = [desc EXCEPT ![d].status = s]
      PROVE  \A e \in Descs : desc'[e].entries = desc[e].entries /\ \A a : Has(e, a)' <=> Has(e, a)
  <2>1. \A e \in Descs : desc'[e].entries = desc[e].entries
    BY <1>0, <1>7 DEF DescType
  <2>2. QED
    BY <2>1 DEF Has, Entries
<1>8. ASSUME NEW t \in Threads, StartMwCAS(t) PROVE ReachInv'
  <2>1. PICK d \in Descs : d = own[t]
    BY <1>8, OwnIs DEF StartMwCAS
  <2>2. /\ pc[t] = "fill" /\ desc' = [desc EXCEPT ![d].status = "kStatusUndecided"]
        /\ reached' = [reached EXCEPT ![t] = @ \cup {d}] /\ pc' = [pc EXCEPT ![t] = "run"]
        /\ UNCHANGED <<word, cond, local, ring, stamp, own>>
    BY <1>8, <2>1 DEF StartMwCAS, Put, epochVars, ringVars
  <2>3. /\ reached'[t] = reached[t] \cup {d} /\ pc'[t] = "run"
        /\ \A u \in Threads \ {t} : reached'[u] = reached[u] /\ pc'[u] = pc[u]
    BY <1>0, <2>2 DEF ReachType, PcType
  <2>4. \A u \in Threads : pc[u] \in {"run", "push"} => pc'[u] = pc[u] /\ own'[u] = own[u]
    BY <2>2, <2>3
  <2>5. \A u \in Threads, e \in Descs : e \in reached[u] => Protected(u)' /\ Guarded(u, e)'
    BY <1>01, <2>2, <2>4, GuardsKept DEF Protected
  <2>6. Protected(t)' /\ Guarded(t, d)'
    BY <2>1, <2>2, <2>3 DEF BusyInv, Protected, Guarded
  <2>7. \A u \in Threads : reached[u] \subseteq Descs /\ reached[u] \subseteq reached'[u]
    BY <1>0, <2>3 DEF ReachType
  <2>8. \A u \in Threads : \A e \in reached'[u] : Protected(u)' /\ Guarded(u, e)'
    BY <2>3, <2>5, <2>6, <2>7
  <2>9. \A e \in Descs : \A a : Has(e, a)' <=> Has(e, a)
    BY <1>7, <2>2
  <2>10. \A u \in Threads : cond[u] # NoItem => cond[u].d \in Descs
    BY <1>0 DEF ReachType, CondCASes
  <2>11. \A u \in Threads : cond'[u] # NoItem =>
           /\ Protected(u)'
           /\ cond'[u].to = NoItem => cond'[u].d \in reached'[u] /\ Has(cond[u].d, cond[u].addr)'
           /\ cond'[u].to # NoItem => cond'[u].to.kind = "value" \/ cond'[u].to = Installed(cond'[u].d)
    BY <2>2, <2>7, <2>9, <2>10 DEF ReachInv, Protected
  <2>12. \A a \in Words : word[a].kind # "value" => Has(word[a].of, a)'
    BY <2>2, <2>9, LinkedReached
  <2>13. \A a \in Words : word'[a].kind = "mwcas" => \E u \in Threads : word'[a].of \in reached'[u]
    BY <2>2, <2>7 DEF ReachInv
  <2>14. \A a \in Words : word[a].kind = "condcas" => \E u \in Threads : Putting(u, a, word[a].of)'
    BY <2>2, <2>7 DEF ReachInv, Putting
  <2>15. QED
    BY <2>2, <2>8, <2>11, <2>12, <2>13, <2>14 DEF ReachInv
<1>9. ASSUME NEW t \in Threads, Abort(t) PROVE ReachInv'
  <2>1. PICK d \in Descs : d = own[t]
    BY <1>9, OwnIs DEF Abort
  <2>2. /\ pc[t] = "fill" /\ desc' = [desc EXCEPT ![d].status = "kStatusFailed"]
        /\ stamp' = [stamp EXCEPT ![t] = current] /\ pc' = [pc EXCEPT ![t] = "push"]
        /\ UNCHANGED <<word, reached, cond, local, ring, own>>
    BY <1>9, <2>1 DEF Abort, Put, epochVars
  <2>3. \A u \in Threads \ {t} : stamp'[u] = stamp[u] /\ pc'[u] = pc[u]
    BY <1>0, <2>2 DEF RingType, PcType
  <2>4. \A u \in Threads, e \in Descs : e \in reached[u] => Guarded(u, e)'
    BY <1>01, <2>2, <2>3 DEF Guarded
  <2>5. \A e \in Descs : \A a : Has(e, a)' <=> Has(e, a)
    BY <1>7, <2>2
  <2>6. QED
    BY <2>2, <2>4, <2>5, ReachKept DEF Protected
<1>10. ASSUME NEW t \in Threads, Decide(t) PROVE ReachInv'
  <2>1. PICK d \in reached[t], s \in {"kStatusSucceeded", "kStatusFailed"} : desc' = [desc EXCEPT ![d].status = s]
    BY <1>10 DEF Decide
  <2>2. d \in Descs /\ UNCHANGED <<word, reached, cond, local, ring, stamp, pc, own>>
    BY <1>10, <1>0 DEF Decide, opVars, epochVars, ringVars, ReachType
  <2>3. \A u \in Threads, e \in Descs : e \in reached[u] => Guarded(u, e)'
    BY <1>01, <2>2, GuardsKept
  <2>4. \A e \in Descs : \A a : Has(e, a)' <=> Has(e, a)
    BY <1>7, <2>1, <2>2
  <2>5. QED
    BY <2>2, <2>3, <2>4, ReachKept DEF Protected
<1>11. ASSUME NEW t \in Threads, PushDescriptor(t) PROVE ReachInv'
  <2>0. PICK d \in Descs, p \in Partitions, k \in Slots : PushEffect(t, d, p, k)
    BY <1>11, PushIs
  <2>1. /\ d = own[t] /\ p = Owner(d) /\ pc[t] = "push" /\ ring[p][k] = EmptySlot
        /\ ring' = [ring EXCEPT ![p][k] = [item |-> d, epoch |-> stamp[t]]] /\ stamp' = [stamp EXCEPT ![t] = 0]
        /\ pc' = [pc EXCEPT ![t] = "idle"] /\ own' = [own EXCEPT ![t] = NoItem]
        /\ UNCHANGED <<word, reached, cond, local, desc>>
    BY <2>0 DEF PushEffect, descVars
  <2>2. /\ ring'[p][k].item = d /\ ring'[p][k].epoch = stamp[t] /\ ring[p][k].item = NoItem
        /\ \A o \in Partitions : \A s \in Slots : o # p \/ s # k => ring'[o][s] = ring[o][s]
        /\ \A u \in Threads \ {t} : stamp'[u] = stamp[u] /\ pc'[u] = pc[u] /\ own'[u] = own[u]
    BY <1>0, <2>1 DEF RingType, PcType, EmptySlot
  <2>3. ASSUME NEW u \in Threads, NEW e \in Descs, e \in reached[u] PROVE Guarded(u, e)'
    <3>1. Guarded(u, e)
      BY <1>01, <2>3
    <3>2. CASE \E v \in Threads : own[v] = e /\ pc[v] = "run"
      BY <3>2, <2>1, <2>2 DEF Guarded
    <3>3. CASE \E v \in Threads : own[v] = e /\ pc[v] = "push" /\ local[u] <= stamp[v]
      <4>1. PICK v \in Threads : own[v] = e /\ pc[v] = "push" /\ local[u] <= stamp[v]
        BY <3>3
      <4>2. CASE v = t
        BY <4>1, <4>2, <2>1, <2>2 DEF Guarded
      <4>3. CASE v # t
        BY <4>1, <4>3, <2>1, <2>2 DEF Guarded
      <4>4. QED
        BY <4>2, <4>3
    <3>4. CASE \E s \in Slots : ring[Owner(e)][s].item = e /\ local[u] <= ring[Owner(e)][s].epoch
      <4>1. PICK s \in Slots : ring[Owner(e)][s].item = e /\ local[u] <= ring[Owner(e)][s].epoch
        BY <3>4
      <4>2. Owner(e) \in Partitions /\ (Owner(e) # p \/ s # k)
        BY <4>1, <2>2, Basics
      <4>3. ring'[Owner(e)][s] = ring[Owner(e)][s]
        BY <4>2, <2>2
      <4>4. QED
        BY <4>1, <4>3, <2>1 DEF Guarded
    <3>5. QED
      BY <3>1, <3>2, <3>3, <3>4 DEF Guarded
  <2>4. \A e, a : Has(e, a)' <=> Has(e, a)
    BY <2>1 DEF Has, Entries
  <2>5. QED
    BY <2>1, <2>3, <2>4, ReachKept DEF Protected
<1>12. ASSUME NEW t \in Threads, PutConditional(t) PROVE ReachInv'
  <2>1. PICK d, e :
          /\ d \in reached[t] /\ e \in Entries(d)
          /\ word' = Put(word, e.addr, Conditional(d))
          /\ cond' = Put(cond, t, [addr |-> e.addr, d |-> d, to |-> NoItem])
    BY <1>12 DEF PutConditional
  <2>2. UNCHANGED <<desc, reached, local, ring, stamp, pc, own>> /\ d \in Descs /\ cond[t] = NoItem
    BY <1>12, <1>0, <2>1 DEF PutConditional, ReachType, epochVars, ringVars
  <2>3. PICK a \in Words : a = e.addr /\ Has(d, a)
    BY <2>1, <2>2, EntriesIn DEF Has
  <2>4. /\ word'[a] = Conditional(d) /\ \A b \in Words \ {a} : word'[b] = word[b]
        /\ cond'[t] = [addr |-> a, d |-> d, to |-> NoItem] /\ \A u \in Threads \ {t} : cond'[u] = cond[u]
    BY <1>0, <2>1, <2>3 DEF Put, DescType, ReachType
  <2>5. \A u \in Threads, c \in Descs : c \in reached[u] => Protected(u)' /\ Guarded(u, c)'
    BY <1>01, <2>2, GuardsKept DEF Protected
  <2>6. \A u \in Threads : \A c \in reached'[u] : Protected(u)' /\ Guarded(u, c)'
    BY <1>0, <2>2, <2>5 DEF ReachType
  <2>7. \A c, b : Has(c, b)' <=> Has(c, b)
    BY <2>2 DEF Has, Entries
  <2>8. cond'[t] # NoItem /\ cond'[t].addr = a /\ cond'[t].d = d /\ cond'[t].to = NoItem
    <3>1. [addr |-> a, d |-> d, to |-> NoItem] \in CondCASes
      BY <2>2 DEF CondCASes
    <3>2. QED
      BY <2>4, <3>1, NamesAssumption
  <2>9. \A u \in Threads : cond'[u] # NoItem =>
           /\ Protected(u)'
           /\ cond'[u].to = NoItem => cond'[u].d \in reached'[u] /\ Has(cond'[u].d, cond'[u].addr)
           /\ cond'[u].to # NoItem => cond'[u].to.kind = "value" \/ cond'[u].to = Installed(cond'[u].d)
    BY <2>1, <2>2, <2>3, <2>4, <2>6, <2>8 DEF ReachInv, Protected
  <2>10. Conditional(d).kind = "condcas" /\ Conditional(d).of = d
    BY DEF Conditional
  <2>11. \A b \in Words : word'[b].kind # "value" => Has(word'[b].of, b)
    BY <2>3, <2>4, <2>10 DEF ReachInv
  <2>12. \A b \in Words : word'[b].kind = "mwcas" => \E u \in Threads : word'[b].of \in reached'[u]
    BY <2>2, <2>4, <2>10 DEF ReachInv
  <2>13. \A b \in Words : word'[b].kind = "condcas" =>
           \E u \in Threads : cond'[u] # NoItem /\ cond'[u].addr = b /\ cond'[u].d = word'[b].of /\ word'[b].of \in reached'[u]
    BY <2>1, <2>2, <2>4, <2>8, <2>10 DEF ReachInv, Putting
  <2>14. QED
    BY <2>2, <2>6, <2>9, <2>11, <2>12, <2>13 DEF ReachInv, Putting, Has, Entries
\* The guards and the entries stay: what is left to see is the words, the
\* CondCASes, and who has reached what.
<1>13. ASSUME UNCHANGED <<desc, local, ring, stamp, pc, own>>,
              \A u \in Threads : \A c \in reached'[u] : c \in Descs /\ Protected(u) /\ Guarded(u, c),
              \A u \in Threads : cond'[u] # NoItem =>
                /\ Protected(u)
                /\ cond'[u].to = NoItem => cond'[u].d \in reached'[u] /\ Has(cond'[u].d, cond'[u].addr)
                /\ cond'[u].to # NoItem => cond'[u].to.kind = "value" \/ cond'[u].to = Installed(cond'[u].d),
              \A b \in Words : word'[b].kind # "value" => Has(word'[b].of, b),
              \A b \in Words : word'[b].kind = "mwcas" => \E u \in Threads : word'[b].of \in reached'[u],
              \A b \in Words : word'[b].kind = "condcas" =>
                \E u \in Threads : cond'[u] # NoItem /\ cond'[u].addr = b /\ cond'[u].d = word'[b].of
                                   /\ word'[b].of \in reached'[u]
       PROVE  ReachInv'
  <2>1. \A u \in Threads : \A c \in reached'[u] : Protected(u)' /\ Guarded(u, c)'
    BY <1>13, GuardsKept DEF Protected
  <2>2. QED
    BY <1>13, <2>1 DEF ReachInv, Putting, Has, Entries, Protected
<1>14. \A u \in Threads : \A c \in reached[u] : c \in Descs /\ Protected(u) /\ Guarded(u, c)
  BY <1>0, <1>01 DEF ReachType
<1>15. ASSUME NEW t \in Threads, LookAtStatus(t) PROVE ReachInv'
  <2>1. /\ cond[t] # NoItem /\ cond[t].to = NoItem /\ cond[t] \in CondCASes
        /\ cond' = [cond EXCEPT ![t].to = Outcome(cond[t].d, cond[t].addr)]
        /\ UNCHANGED <<desc, word, reached, local, ring, stamp, pc, own>>
    BY <1>15, <1>0 DEF LookAtStatus, descVars, epochVars, ringVars, ReachType
  <2>2. PICK d \in Descs, a \in Words : d = cond[t].d /\ a = cond[t].addr /\ Has(d, a) /\ Protected(t)
    BY <2>1 DEF CondCASes, ReachInv
  <2>3. PICK w \in Content : w = Outcome(d, a) /\ w # NoItem /\ (w.kind = "value" \/ w = Installed(d))
    BY <2>2, OutcomeIs
  <2>4. /\ cond'[t] = [cond[t] EXCEPT !.to = w] /\ \A u \in Threads \ {t} : cond'[u] = cond[u]
    BY <1>0, <2>1, <2>2, <2>3 DEF ReachType
  <2>5. /\ cond'[t].addr = a /\ cond'[t].d = d /\ cond'[t].to = w /\ cond'[t] # NoItem
    BY <2>1, <2>2, <2>3, <2>4, NamesAssumption DEF CondCASes
  <2>6. \A u \in Threads : cond'[u] # NoItem =>
                /\ Protected(u)
                /\ cond'[u].to = NoItem => cond'[u].d \in reached'[u] /\ Has(cond'[u].d, cond'[u].addr)
                /\ cond'[u].to # NoItem => cond'[u].to.kind = "value" \/ cond'[u].to = Installed(cond'[u].d)
    BY <2>1, <2>2, <2>3, <2>4, <2>5 DEF ReachInv
  <2>7. \A b \in Words : word'[b].kind = "condcas" =>
                \E u \in Threads : cond'[u] # NoItem /\ cond'[u].addr = b /\ cond'[u].d = word'[b].of
                                   /\ word'[b].of \in reached'[u]
    BY <2>1, <2>2, <2>4, <2>5 DEF ReachInv, Putting
  <2>8. /\ \A b \in Words : word'[b].kind # "value" => Has(word'[b].of, b)
        /\ \A b \in Words : word'[b].kind = "mwcas" => \E u \in Threads : word'[b].of \in reached'[u]
        /\ \A u \in Threads : \A c \in reached'[u] : c \in Descs /\ Protected(u) /\ Guarded(u, c)
    BY <2>1, <1>14 DEF ReachInv
  <2>9. QED
    BY <2>1, <2>6, <2>7, <2>8, <1>13
<1>16. ASSUME NEW t \in Threads, MeetConditional(t) PROVE ReachInv'
  <2>1. PICK a \in Words : word[a].kind = "condcas" /\ cond' = Put(cond, t, [addr |-> a, d |-> word[a].of, to |-> Outcome(word[a].of, a)])
    BY <1>16 DEF MeetConditional
  <2>2. UNCHANGED <<desc, word, reached, local, ring, stamp, pc, own>> /\ Protected(t) /\ cond[t] = NoItem
    BY <1>16 DEF MeetConditional, Working, descVars, epochVars, ringVars
  <2>3. PICK d \in Descs : d = word[a].of /\ Has(d, a)
    BY <2>1, LinkedReached
  <2>4. PICK w \in Content : w = Outcome(d, a) /\ w # NoItem /\ (w.kind = "value" \/ w = Installed(d))
    BY <2>3, OutcomeIs
  <2>5. /\ cond'[t] = [addr |-> a, d |-> d, to |-> w] /\ \A u \in Threads \ {t} : cond'[u] = cond[u]
    BY <1>0, <2>1, <2>3, <2>4 DEF ReachType, Put
  <2>6. cond'[t].d = d /\ cond'[t].to = w
    BY <2>5
  <2>7. \A u \in Threads : cond'[u] # NoItem =>
                /\ Protected(u)
                /\ cond'[u].to = NoItem => cond'[u].d \in reached'[u] /\ Has(cond'[u].d, cond'[u].addr)
                /\ cond'[u].to # NoItem => cond'[u].to.kind = "value" \/ cond'[u].to = Installed(cond'[u].d)
    BY <2>2, <2>4, <2>5, <2>6 DEF ReachInv
  <2>8. \A b \in Words : word'[b].kind = "condcas" =>
                \E u \in Threads : cond'[u] # NoItem /\ cond'[u].addr = b /\ cond'[u].d = word'[b].of
                                   /\ word'[b].of \in reached'[u]
    BY <2>2, <2>5 DEF ReachInv, Putting
  <2>9. /\ \A b \in Words : word'[b].kind # "value" => Has(word'[b].of, b)
        /\ \A b \in Words : word'[b].kind = "mwcas" => \E u \in Threads : word'[b].of \in reached'[u]
        /\ \A u \in Threads : \A c \in reached'[u] : c \in Descs /\ Protected(u) /\ Guarded(u, c)
    BY <2>2, <1>14 DEF ReachInv
  <2>10. QED
    BY <2>2, <2>7, <2>8, <2>9, <1>13
<1>17. ASSUME NEW t \in Threads, ReplaceConditional(t) PROVE ReachInv'
  <2>1. cond[t] # NoItem /\ cond[t].to # NoItem /\ cond[t] \in CondCASes
    BY <1>17, <1>0 DEF ReplaceConditional, ReachType
  <2>2. PICK a \in Words, d \in Descs, w \in Content :
          a = cond[t].addr /\ d = cond[t].d /\ w = cond[t].to /\ (w.kind = "value" \/ w = Installed(d))
    BY <2>1 DEF CondCASes, ReachInv
  <2>3. /\ word' = IF word[a] = Conditional(d) THEN [word EXCEPT ![a] = w] ELSE word
        /\ cond' = [cond EXCEPT ![t] = NoItem] /\ UNCHANGED <<desc, reached, local, ring, stamp, pc, own>>
    BY <1>17, <2>2 DEF ReplaceConditional, Put, epochVars, ringVars
  <2>4. /\ cond'[t] = NoItem /\ \A u \in Threads \ {t} : cond'[u] = cond[u]
        /\ \A b \in Words \ {a} : word'[b] = word[b]
        /\ word[a] = Conditional(d) => word'[a] = w
        /\ word[a] # Conditional(d) => word'[a] = word[a]
    BY <1>0, <2>3 DEF ReachType, DescType
  <2>5. \A u \in Threads : cond'[u] # NoItem =>
                /\ Protected(u)
                /\ cond'[u].to = NoItem => cond'[u].d \in reached'[u] /\ Has(cond'[u].d, cond'[u].addr)
                /\ cond'[u].to # NoItem => cond'[u].to.kind = "value" \/ cond'[u].to = Installed(cond'[u].d)
    BY <2>3, <2>4 DEF ReachInv
  <2>6. \A b \in Words : word[b] \in Content
    BY <1>0 DEF DescType
  <2>7. word[a] = Conditional(d) => Has(d, a) /\ \E u \in Threads : d \in reached[u]
    BY <2>6, ContentIs, LinkedReached DEF Conditional
  <2>8. Installed(d).kind = "mwcas" /\ Installed(d).of = d
    BY DEF Installed
  <2>9. ASSUME NEW b \in Words
        PROVE  /\ word'[b].kind # "value" => Has(word'[b].of, b)
               /\ word'[b].kind = "mwcas" => \E u \in Threads : word'[b].of \in reached'[u]
               /\ word'[b].kind = "condcas" =>
                    \E u \in Threads : cond'[u] # NoItem /\ cond'[u].addr = b /\ cond'[u].d = word'[b].of
                                       /\ word'[b].of \in reached'[u]
    <3>1. CASE b = a /\ word[a] = Conditional(d)
      BY <3>1, <2>2, <2>3, <2>4, <2>7, <2>8
    <3>2. CASE ~(b = a /\ word[a] = Conditional(d))
      <4>1. word'[b] = word[b]
        BY <3>2, <2>4
      <4>2. word[b].kind = "condcas" => word[b] = Conditional(word[b].of)
        BY <2>6, ContentIs
      <4>3. ASSUME word[b].kind = "condcas", NEW u \in Threads, Putting(u, b, word[b].of) PROVE u # t
        BY <4>2, <4>3, <3>2, <2>2 DEF Putting
      <4>4. QED
        BY <4>1, <4>3, <2>3, <2>4 DEF ReachInv, Putting
    <3>3. QED
      BY <3>1, <3>2
  <2>10. QED
    BY <2>3, <2>5, <2>9, <1>13, <1>14
<1>18. ASSUME NEW t \in Threads, ReachDescriptor(t) PROVE ReachInv'
  <2>1. PICK a \in Words : word[a].kind = "mwcas" /\ StartsOn(t, word[a].of) /\ Undecided(word[a].of)
    BY <1>18 DEF ReachDescriptor
  <2>2. PICK d \in Descs, v \in Threads : d = word[a].of /\ Guarded(v, d) /\ Undecided(d)
    BY <2>1, LinkedReached
  <2>3. /\ reached' = [reached EXCEPT ![t] = @ \cup {d}] /\ Protected(t)
        /\ UNCHANGED <<desc, word, cond, local, ring, stamp, pc, own>>
    BY <1>18, <2>1, <2>2 DEF StartsOn, ReachDescriptor, Working, descVars, epochVars, ringVars
  <2>4. /\ reached'[t] = reached[t] \cup {d} /\ \A u \in Threads \ {t} : reached'[u] = reached[u]
    BY <1>0, <2>3 DEF ReachType
  <2>5. \A u \in Threads : reached[u] \subseteq reached'[u]
    BY <2>4
  <2>6. Guarded(t, d)
    BY <2>2, GuardedIs DEF Guarded
  <2>7. \A u \in Threads : \A c \in reached'[u] : c \in Descs /\ Protected(u) /\ Guarded(u, c)
    BY <2>3, <2>4, <2>6, <1>14
  <2>8. \A u \in Threads : cond'[u] # NoItem =>
                /\ Protected(u)
                /\ cond'[u].to = NoItem => cond'[u].d \in reached'[u] /\ Has(cond'[u].d, cond'[u].addr)
                /\ cond'[u].to # NoItem => cond'[u].to.kind = "value" \/ cond'[u].to = Installed(cond'[u].d)
    BY <2>3, <2>5 DEF ReachInv
  <2>9. /\ \A b \in Words : word'[b].kind # "value" => Has(word'[b].of, b)
        /\ \A b \in Words : word'[b].kind = "mwcas" => \E u \in Threads : word'[b].of \in reached'[u]
        /\ \A b \in Words : word'[b].kind = "condcas" =>
             \E u \in Threads : cond'[u] # NoItem /\ cond'[u].addr = b /\ cond'[u].d = word'[b].of
                                /\ word'[b].of \in reached'[u]
    BY <2>3, <2>5 DEF ReachInv, Putting
  <2>10. QED
    BY <2>3, <2>7, <2>8, <2>9, <1>13
<1>19. ASSUME NEW t \in Threads, NEW d \in Descs, EndsOn(t, d), UNCHANGED cond
       PROVE  /\ \A u \in Threads : reached'[u] \subseteq reached[u]
              /\ \A u \in Threads : cond'[u] # NoItem =>
                   /\ Protected(u)
                   /\ cond'[u].to = NoItem => cond'[u].d \in reached'[u] /\ Has(cond'[u].d, cond'[u].addr)
                   /\ cond'[u].to # NoItem => cond'[u].to.kind = "value" \/ cond'[u].to = Installed(cond'[u].d)
              /\ \A b \in Words : word'[b].kind # "value" => Has(word'[b].of, b)
              /\ \A b \in Words : word'[b].kind = "mwcas" => \E u \in Threads : word'[b].of \in reached'[u]
              /\ \A b \in Words : word'[b].kind = "condcas" =>
                   \E u \in Threads : cond'[u] # NoItem /\ cond'[u].addr = b /\ cond'[u].d = word'[b].of
                                      /\ word'[b].of \in reached'[u]
  <2>1. /\ cond[t] = NoItem /\ Phase2(d) /\ reached' = [reached EXCEPT ![t] = @ \ {d}]
    BY <1>19 DEF EndsOn
  <2>2. /\ reached'[t] = reached[t] \ {d} /\ \A u \in Threads \ {t} : reached'[u] = reached[u]
    BY <1>0, <2>1 DEF ReachType
  <2>3. \A b \in Words : /\ word[b] = Installed(d) => word'[b].kind = "value"
                         /\ word[b] # Installed(d) => word'[b] = word[b]
    BY <2>1, Phase2Is
  <2>4. \A b \in Words : word[b] \in Content
    BY <1>0 DEF DescType
  <2>5. ASSUME NEW b \in Words, word'[b].kind # "value"
        PROVE  /\ word'[b] = word[b] /\ (word[b].kind = "mwcas" => word[b].of # d)
               /\ \A u \in Threads : Putting(u, b, word[b].of) => u # t
    BY <2>1, <2>3, <2>4, <2>5, ContentIs DEF Putting
  <2>6. \A b \in Words : word'[b].kind = "mwcas" => \E u \in Threads : word'[b].of \in reached'[u]
    BY <2>2, <2>5 DEF ReachInv
  <2>7. \A b \in Words : word'[b].kind = "condcas" =>
                   \E u \in Threads : cond'[u] # NoItem /\ cond'[u].addr = b /\ cond'[u].d = word'[b].of
                                      /\ word'[b].of \in reached'[u]
    BY <1>19, <2>2, <2>5 DEF ReachInv, Putting
  <2>8. \A b \in Words : word'[b].kind # "value" => Has(word'[b].of, b)
    BY <2>5 DEF ReachInv
  <2>9. \A u \in Threads : cond'[u] # NoItem =>
                   /\ Protected(u)
                   /\ cond'[u].to = NoItem => cond'[u].d \in reached'[u] /\ Has(cond'[u].d, cond'[u].addr)
                   /\ cond'[u].to # NoItem => cond'[u].to.kind = "value" \/ cond'[u].to = Installed(cond'[u].d)
    BY <1>19, <2>1, <2>2 DEF ReachInv
  <2>10. QED
    BY <2>2, <2>6, <2>7, <2>8, <2>9
<1>20. ASSUME NEW t \in Threads, StopHelping(t) PROVE ReachInv'
  <2>1. PICK d \in Descs : EndsOn(t, d)
    BY <1>20 DEF StopHelping
  <2>2. UNCHANGED <<desc, cond, local, ring, stamp, pc, own>>
    BY <1>20 DEF StopHelping, epochVars, ringVars
  <2>3. \A u \in Threads : reached'[u] \subseteq reached[u]
    BY <2>1, <2>2, <1>19
  <2>4. \A u \in Threads : \A c \in reached'[u] : c \in Descs /\ Protected(u) /\ Guarded(u, c)
    BY <2>3, <1>14
  <2>5. QED
    BY <2>1, <2>2, <2>4, <1>13, <1>19
<1>21. ASSUME NEW t \in Threads, Cleanup(t) PROVE ReachInv'
  <2>1. PICK d \in Descs : d = own[t] /\ pc[t] = "run" /\ EndsOn(t, d)
    BY <1>21, OwnIs DEF Cleanup
  <2>2. /\ UNCHANGED <<desc, cond, local, ring, own>> /\ stamp' = [stamp EXCEPT ![t] = current] /\ pc' = [pc EXCEPT ![t] = "push"]
    BY <1>21 DEF Cleanup, epochVars, Put
  <2>3. /\ stamp'[t] = current /\ pc'[t] = "push" /\ \A u \in Threads \ {t} : stamp'[u] = stamp[u] /\ pc'[u] = pc[u]
    BY <1>0, <2>2 DEF RingType, PcType
  <2>4. ASSUME NEW u \in Threads, NEW c \in Descs, Guarded(u, c) PROVE Guarded(u, c)'
    <3>1. CASE \E v \in Threads : own[v] = c /\ pc[v] = "run"
      <4>1. PICK v \in Threads : own[v] = c /\ pc[v] = "run"
        BY <3>1
      <4>2. CASE v = t
        <5>1. local[u] <= current
          BY DEF EpochInv
        <5>2. QED
          BY <4>1, <4>2, <5>1, <2>2, <2>3 DEF Guarded
      <4>3. CASE v # t
        BY <4>1, <4>3, <2>2, <2>3 DEF Guarded
      <4>4. QED
        BY <4>2, <4>3
    <3>2. CASE \E v \in Threads : own[v] = c /\ pc[v] = "push" /\ local[u] <= stamp[v]
      <4>1. PICK v \in Threads : own[v] = c /\ pc[v] = "push" /\ local[u] <= stamp[v]
        BY <3>2
      <4>2. v # t
        BY <4>1, <2>1
      <4>3. QED
        BY <4>1, <4>2, <2>2, <2>3 DEF Guarded
    <3>3. CASE \E s \in Slots : ring[Owner(c)][s].item = c /\ local[u] <= ring[Owner(c)][s].epoch
      BY <3>3, <2>2 DEF Guarded
    <3>4. QED
      BY <2>4, <3>1, <3>2, <3>3 DEF Guarded
  <2>5. /\ \A u \in Threads : reached'[u] \subseteq reached[u]
        /\ \A u \in Threads : cond'[u] # NoItem =>
                   /\ Protected(u)
                   /\ cond'[u].to = NoItem => cond'[u].d \in reached'[u] /\ Has(cond'[u].d, cond'[u].addr)
                   /\ cond'[u].to # NoItem => cond'[u].to.kind = "value" \/ cond'[u].to = Installed(cond'[u].d)
        /\ \A b \in Words : word'[b].kind # "value" => Has(word'[b].of, b)
        /\ \A b \in Words : word'[b].kind = "mwcas" => \E u \in Threads : word'[b].of \in reached'[u]
        /\ \A b \in Words : word'[b].kind = "condcas" =>
             \E u \in Threads : cond'[u] # NoItem /\ cond'[u].addr = b /\ cond'[u].d = word'[b].of
                                /\ word'[b].of \in reached'[u]
    BY <2>1, <2>2, <1>19
  <2>6. \A u \in Threads : \A c \in reached'[u] : Protected(u)' /\ Guarded(u, c)'
    BY <2>2, <2>4, <2>5, <1>14 DEF Protected
  <2>7. QED
    BY <2>2, <2>5, <2>6 DEF ReachInv, Putting, Has, Entries, Protected
<1>22. ASSUME ReplacePool PROVE ReachInv'
  <2>1. UNCHANGED <<word, reached, cond>>
    BY <1>22 DEF ReplacePool, opVars
  <2>2. \A u \in Threads : ~Protected(u)
    BY <1>22 DEF ReplacePool, BusyInv, Running, Idle
  <2>3. \A u \in Threads : reached[u] = {} /\ cond[u] = NoItem
    BY <2>2 DEF ReachInv
  <2>4. \A a \in Words : word[a].kind = "value"
    BY <2>2, LinkedReached
  <2>5. QED
    BY <2>1, <2>3, <2>4 DEF ReachInv
<1>23. QED
  BY <1>1, <1>2, <1>3, <1>4, <1>5, <1>6, <1>8, <1>9, <1>10, <1>11, <1>12, <1>15, <1>16, <1>17, <1>18, <1>20, <1>21, <1>22
     DEF Next, OpSteps

-----------------------------------------------------------------------------
(***************************************************************************)
(* What an allocation waits for.                                           *)
(***************************************************************************)
\* The steps that change a ring, a region or the owner of a partition; the others
\* neither begin nor end an operation.
LEMMA WaitSteps ==
  ASSUME PcType, Next
  PROVE  \/ /\ UNCHANGED <<tlsVars, pool, next_partition, epochVars, ring, tail, region>>
            /\ \A u \in Threads : pc'[u] = "idle" <=> pc[u] = "idle"
         \/ \E t \in Threads : Enter(t) \/ Leave(t) \/ BeginAllocate(t) \/ ScavengeDescriptors(t) \/ PushDescriptor(t)
         \/ ReplacePool \/ Lifecycle
<1>1. ASSUME NEW t \in Threads, NEW l \in {"fill", "run", "push"}, pc[t] # "idle", pc' = Put(pc, t, l)
      PROVE  \A u \in Threads : pc'[u] = "idle" <=> pc[u] = "idle"
  BY <1>1 DEF PcType, Put
<1>2. \/ UNCHANGED <<tlsVars, pool, next_partition, epochVars, ringVars, region, pc>>
      \/ \E t \in Threads : TakeDescriptor(t) \/ StartMwCAS(t) \/ Abort(t) \/ Cleanup(t)
      \/ \E t \in Threads : Enter(t) \/ Leave(t) \/ BeginAllocate(t) \/ ScavengeDescriptors(t) \/ PushDescriptor(t)
      \/ ReplacePool \/ Lifecycle
  <2>1. ASSUME NEW t \in Threads,
               \/ LookAtStatus(t) \/ ReplaceConditional(t) \/ Decide(t) \/ StopHelping(t) \/ AllocateAndAddEntry(t)
               \/ ReserveAndAddEntry(t) \/ FillReserved(t) \/ PutConditional(t) \/ MeetConditional(t) \/ ReachDescriptor(t)
        PROVE  UNCHANGED <<tlsVars, pool, next_partition, epochVars, ringVars, region, pc>>
    BY <2>1 DEF LookAtStatus, ReplaceConditional, Decide, StopHelping, AllocateAndAddEntry, AddEntry,
       ReserveAndAddEntry, FillReserved, PutConditional, MeetConditional, ReachDescriptor, opVars
  <2>2. QED
    BY <2>1 DEF Next, OpSteps
<1>3. ASSUME NEW t \in Threads, TakeDescriptor(t) \/ StartMwCAS(t) \/ Abort(t) \/ Cleanup(t)
      PROVE  /\ UNCHANGED <<tlsVars, pool, next_partition, epochVars, ring, tail, region>>
             /\ \A u \in Threads : pc'[u] = "idle" <=> pc[u] = "idle"
  <2>1. UNCHANGED <<tlsVars, pool, next_partition, epochVars, ring, tail, region>> /\ pc[t] # "idle"
    BY <1>3 DEF TakeDescriptor, StartMwCAS, Abort, Cleanup, ringVars
  <2>2. \E l \in {"fill", "run", "push"} : pc' = Put(pc, t, l)
    BY <1>3 DEF TakeDescriptor, StartMwCAS, Abort, Cleanup
  <2>3. QED
    BY <2>1, <2>2, <1>1
<1>4. QED
  BY <1>2, <1>3 DEF ringVars

\* Push bumps the epoch at every quarter of the ring, so among the last slots
\* that make a quarter there is one at which it did.
LEMMA QuarterIs ==
  /\ Quarter \in Nat \ {0} /\ MaxPerRegion + Quarter <= ItemCount
  /\ \A k \in Slots : \E r \in Slots : BumpsAt(r) /\ (IF r < k THEN k - r ELSE k + ItemCount - r) <= Quarter
<1>1. PICK n \in Nat \ {0}, m \in Nat : n = ItemCount /\ m = MaxPerRegion /\ 4 * m <= 3 * n
  BY PoolAssumption, CallersAssumption
<1>2. Slots = 0 .. n - 1 /\ \A r \in Slots : BumpsAt(r) <=> (r * 4) % n = 0
  BY <1>1, Basics DEF BumpsAt
<1>3. CASE n = 2
  <2>1. Quarter = 1
    BY <1>1, <1>3 DEF Quarter
  <2>2. (0 * 4) % 2 = 0 /\ (1 * 4) % 2 = 0
    OBVIOUS
  <2>3. BumpsAt(0) /\ BumpsAt(1) /\ 0 \in Slots /\ 1 \in Slots
    BY <1>2, <1>3, <2>2
  <2>4. \A k \in Slots : k = 0 \/ k = 1
    BY <1>2, <1>3
  <2>5. QED
    BY <1>1, <1>3, <2>1, <2>3, <2>4
<1>4. CASE n # 2
  <2>1. PICK q \in Nat \ {0} : n = 4 * q /\ Quarter = q
    <3>1. n % 4 = 0
      BY <1>1, <1>4, PoolAssumption
    <3>2. n \div 4 \in Nat \ {0} /\ n = 4 * (n \div 4)
      BY <3>1
    <3>3. QED
      BY <3>2, <1>1, <1>4 DEF Quarter
  <2>2. \A j \in 0 .. 3 : (j * n) % n = 0
    OBVIOUS
  <2>3. \A j \in 0 .. 3 : j * q \in Slots /\ BumpsAt(j * q)
    <3>1. ASSUME NEW j \in 0 .. 3 PROVE j * q \in Slots /\ BumpsAt(j * q)
      <4>1. j = 0 \/ j = 1 \/ j = 2 \/ j = 3
        OBVIOUS
      <4>2. j * q \in 0 .. n - 1 /\ (j * q) * 4 = j * n
        BY <2>1, <4>1
      <4>3. QED
        BY <4>2, <1>2, <2>2
    <3>2. QED
      BY <3>1
  <2>4. /\ 0 \in Slots /\ BumpsAt(0) /\ q \in Slots /\ BumpsAt(q)
        /\ 2 * q \in Slots /\ BumpsAt(2 * q) /\ 3 * q \in Slots /\ BumpsAt(3 * q)
    <3>1. 0 * q = 0 /\ 1 * q = q
      OBVIOUS
    <3>2. QED
      BY <2>3, <3>1
  <2>5. ASSUME NEW k \in Slots
        PROVE  \E r \in Slots : BumpsAt(r) /\ (IF r < k THEN k - r ELSE k + n - r) <= q
    <3>0. k \in 0 .. n - 1
      BY <1>2
    <3>1. CASE k = 0
      BY <3>1, <2>1, <2>4
    <3>2. CASE k > 0 /\ k <= q
      BY <3>0, <3>2, <2>4
    <3>3. CASE k > q /\ k <= 2 * q
      BY <3>0, <3>3, <2>4
    <3>4. CASE k > 2 * q /\ k <= 3 * q
      BY <3>0, <3>4, <2>4
    <3>5. CASE k > 3 * q
      BY <3>0, <3>5, <2>1, <2>4
    <3>6. QED
      BY <3>0, <3>1, <3>2, <3>3, <3>4, <3>5
  <2>6. m + q <= n
    BY <1>1, <2>1
  <2>7. QED
    BY <1>1, <2>1, <2>5, <2>6
<1>5. QED
  BY <1>3, <1>4

\* What is older than a quarter of the ring is older than the current epoch.
LEMMA QuarterOld ==
  ASSUME RingType, EpochInv, BumpInv, NEW p \in Partitions, NEW s \in Slots, Age(p, s) > Quarter - 1
  PROVE  ring[p][s].epoch < current
<1>1. PICK k \in Slots : k = tail[p]
  BY DEF RingType
<1>2. PICK r \in Slots : BumpsAt(r) /\ (IF r < k THEN k - r ELSE k + ItemCount - r) <= Quarter
  BY QuarterIs
<1>3. Age(p, r) <= Quarter
  BY <1>1, <1>2 DEF Age
<1>4. Age(p, r) \in Nat /\ Age(p, s) \in Nat /\ Quarter \in Nat
  BY AgeIs, QuarterIs
<1>5. Age(p, r) <= Age(p, s)
  BY <1>3, <1>4
<1>6. ring[p][s].epoch # current
  BY <1>2, <1>5 DEF BumpInv
<1>7. ring[p][s].epoch \in Nat /\ current \in Nat /\ ring[p][s].epoch <= current
  BY DEF RingType, EpochInv
<1>8. QED
  BY <1>6, <1>7

\* After a bump nothing in a ring bears the current epoch.
LEMMA BumpedIs ==
  ASSUME RingType, EpochInv, current' = Bumped
  PROVE  \A p \in Partitions : \A s \in Slots : ring[p][s].epoch # current'
                                              /\ \A t \in Threads : stamp[t] # current'
<1>1. current \in Nat /\ (\A t \in Threads : stamp[t] \in Nat /\ stamp[t] <= current)
      /\ (\A p \in Partitions : \A s \in Slots : ring[p][s].epoch \in Nat /\ ring[p][s].epoch <= current)
  BY DEF RingType, EpochInv
<1>2. CASE InUse
  <2>1. current' = current + 1
    BY <1>2 DEF Bumped
  <2>2. QED
    BY <1>1, <2>1
<1>3. CASE ~InUse
  <2>1. current' = current
    BY <1>3 DEF Bumped
  <2>2. QED
    BY <1>3, <2>1, Basics DEF InUse
<1>4. QED
  BY <1>2, <1>3

\* The operations that a thread makes in its region are bounded by its callers.
LEMMA RegionStep ==
  ASSUME TypeOK, TlsInv, BusyInv, PlaceInv, RingInv, RegionInv, Next \/ UNCHANGED vars
  PROVE  RegionInv'
<1>0. PcType /\ RingType
  BY Types
<1>01. MaxPerRegion \in Nat
  BY CallersAssumption
<1>1. ASSUME UNCHANGED <<region, local>>, \A u \in Threads : pc'[u] = "idle" <=> pc[u] = "idle" PROVE RegionInv'
  BY <1>1 DEF RegionInv, Protected
<1>2. CASE UNCHANGED vars
  BY <1>1, <1>2 DEF vars, epochVars, opVars
<1>3. ASSUME NEW t \in Threads, Enter(t) PROVE RegionInv'
  <2>1. local' = [local EXCEPT ![t] = current] /\ UNCHANGED <<pc, region>> /\ ~Protected(t)
    BY <1>3 DEF Enter, Protect, opVars
  <2>2. \A u \in Threads \ {t} : local'[u] = local[u]
    BY <2>1, <1>0 DEF RingType
  <2>3. QED
    BY <2>1, <2>2 DEF RegionInv, Protected
<1>4. ASSUME NEW t \in Threads, Leave(t) PROVE RegionInv'
  <2>1. local' = [local EXCEPT ![t] = 0] /\ UNCHANGED pc /\ region' = [region EXCEPT ![t] = 0] /\ pc[t] = "idle"
    BY <1>4 DEF Leave, Unprotect, Put
  <2>2. region'[t] = 0 /\ \A u \in Threads \ {t} : local'[u] = local[u] /\ region'[u] = region[u]
    BY <2>1, <1>0 DEF RingType, PcType
  <2>3. QED
    BY <2>1, <2>2, <1>01 DEF RegionInv, Protected
<1>5. ASSUME NEW t \in Threads, BeginAllocate(t) PROVE RegionInv'
  <2>1. /\ region' = [region EXCEPT ![t] = @ + 1] /\ pc' = [pc EXCEPT ![t] = "allocate"] /\ UNCHANGED local
        /\ Protected(t) /\ region[t] < MaxPerRegion
    BY <1>5 DEF BeginAllocate, Put, epochVars
  <2>2. /\ region'[t] = region[t] + 1 /\ region[t] \in Nat
        /\ \A u \in Threads \ {t} : pc'[u] = pc[u] /\ region'[u] = region[u]
    BY <2>1, <1>0 DEF PcType
  <2>3. QED
    BY <2>1, <2>2, <1>01 DEF RegionInv, Protected
<1>6. ASSUME NEW t \in Threads, ScavengeDescriptors(t) PROVE RegionInv'
  BY <1>6, <1>1 DEF ScavengeDescriptors, opVars
<1>7. ASSUME NEW t \in Threads, PushDescriptor(t) PROVE RegionInv'
  <2>0. PICK d \in Descs, p \in Partitions, k \in Slots : PushEffect(t, d, p, k)
    BY <1>7, PushIs
  <2>1. pc' = [pc EXCEPT ![t] = "idle"] /\ UNCHANGED <<local, region>>
    BY <2>0 DEF PushEffect
  <2>2. pc'[t] = "idle" /\ \A u \in Threads \ {t} : pc'[u] = pc[u]
    BY <2>1, <1>0 DEF PcType
  <2>3. QED
    BY <2>1, <2>2 DEF RegionInv, Protected
<1>8. ASSUME ReplacePool \/ Lifecycle PROVE RegionInv'
  BY <1>8, <1>1 DEF ReplacePool, Lifecycle, epochVars, opVars
<1>9. QED
  BY <1>0, <1>1, <1>2, <1>3, <1>4, <1>5, <1>6, <1>7, <1>8, WaitSteps DEF epochVars

\* A step that only empties slots.
OnlyEmpties ==
  \A p \in Partitions : \A s \in Slots :
    Age(p, s)' = Age(p, s) /\ ring'[p][s].epoch \in {0, ring[p][s].epoch}

\* The ring, the ages of its slots and the threads after Push.
PushedRing(t, p, k) ==
  /\ pc[t] = "push" /\ Owner(own[t]) = p /\ k = tail[p]
  /\ ring'[p][k].epoch = stamp[t] /\ Age(p, k)' = 1
  /\ \A s \in Slots \ {k} : ring'[p][s] = ring[p][s] /\ Age(p, s)' = Age(p, s) + 1
  /\ \A o \in Partitions \ {p} : \A s \in Slots : ring'[o][s] = ring[o][s] /\ Age(o, s)' = Age(o, s)
  /\ pc'[t] = "idle" /\ (\A u \in Threads \ {t} : pc'[u] = pc[u])
  /\ current' = (IF BumpsAt(k) THEN Bumped ELSE current)
  /\ UNCHANGED <<tlsVars, local, pool, next_partition, region>>

\* Push puts one slot at the young end of its ring and makes the others older.
LEMMA PushedIs ==
  ASSUME TypeOK, TlsInv, BusyInv, PlaceInv, RingInv, NEW t \in Threads, PushDescriptor(t)
  PROVE  \E p \in Partitions, k \in Slots : PushedRing(t, p, k)
<1>0. RingType /\ PcType
  BY Types
<1>1. PICK d \in Descs, p \in Partitions, k \in Slots : PushEffect(t, d, p, k)
  BY PushIs
<1>2. /\ d = own[t] /\ p = Owner(d) /\ k = tail[p] /\ pc[t] = "push"
      /\ ring' = [ring EXCEPT ![p][k] = [item |-> d, epoch |-> stamp[t]]]
      /\ tail' = [tail EXCEPT ![p] = IF tail[p] + 1 = ItemCount THEN 0 ELSE tail[p] + 1]
      /\ pc' = [pc EXCEPT ![t] = "idle"]
      /\ current' = IF BumpsAt(k) THEN Bumped ELSE current
      /\ UNCHANGED <<tlsVars, local, pool, next_partition, region>>
  BY <1>1 DEF PushEffect
<1>3. /\ ring'[p][k].epoch = stamp[t] /\ \A s \in Slots \ {k} : ring'[p][s] = ring[p][s]
      /\ \A o \in Partitions \ {p} : \A s \in Slots : ring'[o][s] = ring[o][s]
      /\ tail'[p] = (IF tail[p] + 1 = ItemCount THEN 0 ELSE tail[p] + 1)
      /\ \A o \in Partitions \ {p} : tail'[o] = tail[o]
      /\ pc'[t] = "idle" /\ \A u \in Threads \ {t} : pc'[u] = pc[u]
  BY <1>0, <1>2 DEF RingType, PcType
<1>4. \A s \in Slots : Age(p, s)' = IF s = tail[p] THEN 1 ELSE Age(p, s) + 1
  BY <1>0, <1>3, AgeNext
<1>5. \A o \in Partitions \ {p} : \A s \in Slots : Age(o, s)' = Age(o, s)
  BY <1>3 DEF Age
<1>6. PushedRing(t, p, k)
  BY <1>2, <1>3, <1>4, <1>5 DEF PushedRing
<1>7. QED
  BY <1>6

\* Scavenge only empties slots, after a bump.
LEMMA ScavengedOnly ==
  ASSUME TypeOK, TlsInv, BusyInv, PlaceInv, EpochInv, NEW t \in Threads, ScavengeDescriptors(t)
  PROVE  OnlyEmpties /\ current' = Bumped /\ UNCHANGED <<tlsVars, local, pool, next_partition, opVars>>
<1>1. PICK p \in Partitions, s \in Nat, q \in Seq(Descs) : ScavengeEffect(t, p, s, q)
  BY ScavengeIs
<1>2. ring' = AfterScavenge(p, s) /\ current' = Bumped /\ UNCHANGED <<tlsVars, local, tail, pool, next_partition, opVars>>
  BY <1>1 DEF ScavengeEffect
<1>3. \A o \in Partitions : \A k \in Slots : ring'[o][k] = EmptySlot \/ ring'[o][k] = ring[o][k]
  <2>1. /\ \A o \in Partitions \ {p} : ring'[o] = ring[o]
        /\ \A k \in Slots : ring'[p][k] = EmptySlot \/ ring'[p][k] = ring[p][k]
    BY <1>2, Types, ScavengedRing
  <2>2. QED
    BY <2>1
<1>4. \A o \in Partitions : \A k \in Slots : Age(o, k)' = Age(o, k)
  BY <1>2 DEF Age
<1>5. QED
  BY <1>2, <1>3, <1>4 DEF OnlyEmpties, EmptySlot

\* What bears the current epoch was retired since the last bump of Push.
LEMMA BumpStep ==
  ASSUME TypeOK, TlsInv, BusyInv, PlaceInv, RingInv, EpochInv, BumpInv, Next \/ UNCHANGED vars
  PROVE  BumpInv'
<1>0. PcType /\ RingType /\ current \in Nat /\ current >= 1 /\ Bumped \in {current, current + 1}
  BY Types DEF Bumped, RingType, EpochInv
<1>1. ASSUME UNCHANGED <<current, ring, tail>> PROVE BumpInv'
  BY <1>1 DEF BumpInv, Age, BumpsAt
<1>2. CASE UNCHANGED vars
  BY <1>1, <1>2 DEF vars, epochVars, ringVars
<1>3. ASSUME NEW t \in Threads, Enter(t) \/ Leave(t) \/ BeginAllocate(t) PROVE BumpInv'
  BY <1>3, <1>1 DEF Enter, Leave, BeginAllocate, Protect, Unprotect, epochVars, ringVars
<1>4. ASSUME NEW t \in Threads, ScavengeDescriptors(t) PROVE BumpInv'
  <2>1. OnlyEmpties /\ current' = Bumped
    BY <1>4, ScavengedOnly
  <2>2. current' # 0
    BY <1>0, <2>1
  <2>3. \A p \in Partitions : \A s \in Slots : ring[p][s].epoch # current'
    BY <1>0, <2>1, BumpedIs
  <2>4. \A p \in Partitions : \A s \in Slots : ring'[p][s].epoch # current'
    BY <2>1, <2>2, <2>3 DEF OnlyEmpties
  <2>5. QED
    BY <2>4 DEF BumpInv
<1>5. ASSUME NEW t \in Threads, PushDescriptor(t) PROVE BumpInv'
  <2>1. PICK p \in Partitions, k \in Slots : PushedRing(t, p, k)
    BY <1>5, PushedIs
  <2>2. CASE BumpsAt(k)
    <3>1. current' = Bumped
      BY <2>1, <2>2 DEF PushedRing
    <3>2. \A o \in Partitions : \A s \in Slots : ring[o][s].epoch # current' /\ stamp[t] # current'
      BY <1>0, <3>1, BumpedIs
    <3>3. \A o \in Partitions : \A s \in Slots : ring'[o][s].epoch # current'
      BY <2>1, <3>2 DEF PushedRing
    <3>4. QED
      BY <3>3 DEF BumpInv
  <2>3. CASE ~BumpsAt(k)
    <3>1. current' = current /\ \A r \in Slots : BumpsAt(r)' <=> BumpsAt(r)
      BY <2>1, <2>3 DEF PushedRing, BumpsAt
    <3>2. ASSUME NEW o \in Partitions, NEW s \in Slots, NEW r \in Slots, ring'[o][s].epoch = current',
                 Age(o, r)' <= Age(o, s)'
          PROVE  ~BumpsAt(r)
      <4>1. CASE o # p
        <5>1. ring[o][s].epoch = current /\ Age(o, r) <= Age(o, s)
          BY <2>1, <3>1, <3>2, <4>1 DEF PushedRing
        <5>2. QED
          BY <5>1 DEF BumpInv
      <4>2. CASE o = p /\ r = k
        BY <2>3, <4>2
      <4>3. CASE o = p /\ r # k
        <5>1. Age(p, r) \in Nat \ {0} /\ Age(p, s) \in Nat \ {0}
          BY <1>0, AgeIs
        <5>2. Age(p, r)' = Age(p, r) + 1
          BY <2>1, <4>3 DEF PushedRing
        <5>3. s # k
          <6>1. SUFFICES ASSUME s = k PROVE FALSE
            OBVIOUS
          <6>2. Age(p, s)' = 1
            BY <6>1, <2>1 DEF PushedRing
          <6>3. QED
            BY <6>2, <5>1, <5>2, <3>2, <4>3
        <5>4. ring'[p][s] = ring[p][s] /\ Age(p, s)' = Age(p, s) + 1
          BY <5>3, <2>1 DEF PushedRing
        <5>5. Age(p, r) <= Age(p, s) /\ ring[p][s].epoch = current
          BY <5>1, <5>2, <5>4, <3>1, <3>2, <4>3
        <5>6. QED
          BY <5>5 DEF BumpInv
      <4>4. QED
        BY <4>1, <4>2, <4>3
    <3>3. QED
      BY <3>1, <3>2 DEF BumpInv
  <2>4. QED
    BY <2>2, <2>3
<1>6. ASSUME ReplacePool PROVE BumpInv'
  <2>1. current' = 1 /\ ring' = EmptyRings
    BY <1>6 DEF ReplacePool
  <2>2. \A p \in Partitions : \A s \in Slots : ring'[p][s].epoch = 0
    BY <2>1 DEF EmptyRings, EmptySlot
  <2>3. QED
    BY <2>1, <2>2 DEF BumpInv
<1>7. ASSUME Lifecycle PROVE BumpInv'
  BY <1>7, <1>1 DEF Lifecycle, epochVars, ringVars
<1>8. QED
  BY <1>0, <1>1, <1>2, <1>3, <1>4, <1>5, <1>6, <1>7, WaitSteps DEF epochVars

\* A step that only empties slots, and gives no partition to a thread.
LEMMA OlderByEmptying ==
  ASSUME TlsType, RingType, OlderInv, OnlyEmpties, UNCHANGED <<local, next_partition>>, Done \subseteq Done',
         \A u \in Threads : Assigned(u)' => Assigned(u) /\ Part(u)' = Part(u) /\ Part(u) \in Partitions,
         \A u \in Threads : Assigned(u)' => Made(u)' = Made(u),
         Turn(Main)' => Turn(Main), Assigned(Main) => Assigned(Main)'
  PROVE  OlderInv'
<1>1. ASSUME NEW t \in Threads, NEW p \in Partitions, NEW n, Older(t, p, n), Protected(t) PROVE Older(t, p, n)'
  <2>1. SUFFICES ASSUME NEW s \in Slots, Age(p, s)' > n PROVE ring'[p][s].epoch < local'[t]
    BY DEF Older
  <2>2. Age(p, s)' = Age(p, s) /\ ring'[p][s].epoch \in {0, ring[p][s].epoch}
    BY DEF OnlyEmpties
  <2>3. PICK l \in Nat : l = local[t] /\ l = local'[t] /\ l > 0
    BY <1>1 DEF RingType, Protected
  <2>4. ring[p][s].epoch < l
    BY <1>1, <2>1, <2>2, <2>3 DEF Older
  <2>5. QED
    BY <2>2, <2>3, <2>4
<1>2. \A t \in Threads : Protected(t)' <=> Protected(t)
  BY DEF Protected
<1>3. ASSUME NEW t \in Threads, Protected(t)', Assigned(t)' PROVE Older(t, Part(t), Made(t) + Quarter - 1)'
  <2>1. PICK p \in Partitions : p = Part(t) /\ p = Part(t)'
    BY <1>3
  <2>2. PICK m : m = Made(t) + Quarter - 1 /\ Older(t, p, m)
    BY <1>2, <1>3, <2>1 DEF OlderInv
  <2>3. Older(t, p, m)'
    BY <1>1, <1>2, <1>3, <2>2
  <2>4. (Made(t) + Quarter - 1)' = m
    <3>1. Quarter' = Quarter
      BY DEF Quarter
    <3>2. QED
      BY <1>3, <2>2, <3>1
  <2>5. QED
    BY <2>1, <2>3, <2>4 DEF Older
<1>4. ASSUME NEW t \in Workers, Protected(t)', NEW p \in Partitions, Behind(p)' > Cardinality(Done')
      PROVE  Older(t, p, Quarter - 1)'
  <2>1. Behind(p)' = Behind(p) /\ Behind(p) \in Nat /\ t \in Threads
    BY BehindIs, Basics DEF Behind, TlsType, Workers
  <2>2. PICK b, c, e \in Nat : b = Behind(p) /\ c = Cardinality(Done) /\ e = Cardinality(Done') /\ c <= e
    BY <2>1, DoneGrows, DoneIs
  <2>3. Behind(p) > Cardinality(Done)
    BY <1>4, <2>1, <2>2
  <2>4. PICK m : m = Quarter - 1
    OBVIOUS
  <2>5. Older(t, p, m)
    BY <1>2, <1>4, <2>1, <2>3, <2>4 DEF OlderInv
  <2>6. Older(t, p, m)'
    BY <1>1, <1>2, <1>4, <2>1, <2>5
  <2>7. (Quarter - 1)' = m
    BY <2>4 DEF Quarter
  <2>8. QED
    BY <2>6, <2>7 DEF Older
<1>5. ASSUME Turn(Main)', ~Assigned(Main)' PROVE \A p \in Partitions : \A s \in Slots : ring'[p][s].epoch = 0
  BY <1>5 DEF OlderInv, OnlyEmpties
<1>6. QED
  BY <1>3, <1>4, <1>5 DEF OlderInv

\* The first allocation of a thread gives it the next partition.
LEMMA BeginAssigns ==
  ASSUME TlsType, TlsInv, NEW t \in Threads, BeginAllocate(t), ~Assigned(t)
  PROVE  /\ Assigned(t)' /\ Part(t)' = next_partition /\ Running(t) /\ UNCHANGED <<life, pool>>
         /\ \A u \in Threads \ {t} : Assigned(u)' => Assigned(u) /\ Part(u)' = Part(u)
         /\ next_partition' = (next_partition + 1) % partition_count
         /\ t \in Workers => t \notin Done /\ Done' = Done \cup {t}
<1>1. Running(t) /\ UNCHANGED <<life, id, pool>> /\ id[t] \in Ids
  BY DEF BeginAllocate, Turn, AssignTls, tlsVars, TlsInv, Alive, Running
<1>2. tls_part[id[t]] = NoPart
  BY <1>1 DEF Assigned
<1> DEFINE r == [pool |-> pool, part |-> next_partition]
<1>3. tls_part' = [tls_part EXCEPT ![id[t]] = r] /\ next_partition' = (next_partition + 1) % partition_count
  BY <1>2 DEF BeginAllocate, AssignTls
<1>4. r # NoPart /\ r.part = next_partition
  BY NamesAssumption DEF TlsType
<1> HIDE DEF r
<1>5. tls_part'[id[t]] = r /\ \A i \in Ids \ {id[t]} : tls_part'[i] = tls_part[i]
  BY <1>1, <1>3 DEF TlsType
<1>6. \A u \in Threads \ {t} : Running(u) => id[u] \in Ids \ {id[t]}
  BY <1>1 DEF TlsInv, Alive, Running
<1>7. /\ Assigned(t)' /\ Part(t)' = next_partition
      /\ \A u \in Threads \ {t} : Assigned(u)' <=> Assigned(u)
      /\ \A u \in Threads \ {t} : Assigned(u) => Part(u)' = Part(u)
  BY <1>1, <1>4, <1>5, <1>6 DEF Assigned, Running, Part
<1>8. t \in Workers => t \notin Done /\ Done' = Done \cup {t}
  BY <1>1, <1>7 DEF Done, Running, Workers
<1>9. QED
  BY <1>1, <1>3, <1>7, <1>8

\* What a thread finds in its partition, beyond the newest quarter and what it has
\* retired itself, was retired before it entered its region.
LEMMA OlderStep ==
  ASSUME TypeOK, TlsInv, BusyInv, PlaceInv, RingInv, EpochInv, WaitInv, Next \/ UNCHANGED vars
  PROVE  OlderInv'
<1>0. PcType /\ RingType /\ TlsType /\ OlderInv /\ RegionInv /\ BumpInv /\ Quarter \in Nat \ {0}
  BY Types, QuarterIs DEF WaitInv
<1>01. \A t \in Threads : Made(t) \in Nat
  BY <1>0 DEF RegionInv, PcType, Made
<1>02. \A p \in Partitions : \A s \in Slots : Age(p, s) \in Nat \ {0} /\ ring[p][s].epoch \in Nat
  BY <1>0, AgeIs DEF RingType
<1>03. \A t \in Threads : Assigned(t) => Part(t) \in Partitions
  BY <1>0, PartIs
<1>04. \A t \in Workers : Protected(t) => Running(t) /\ Idle(Main)
  BY DEF BusyInv, Idle, Workers
<1>05. Quarter' = Quarter
  BY DEF Quarter
<1>1. ASSUME UNCHANGED <<tlsVars, pool, next_partition, local>>, OnlyEmpties,
             \A u \in Threads : Made(u)' = Made(u)
      PROVE  OlderInv'
  <2>1. /\ Done' = Done /\ \A u \in Threads : (Assigned(u)' <=> Assigned(u)) /\ Part(u)' = Part(u)
        /\ Turn(Main)' <=> Turn(Main)
    BY <1>1 DEF tlsVars, Done, Assigned, Part, Running, Turn
  <2>2. QED
    BY <1>0, <1>03, <1>1, <2>1, MainAssumption, OlderByEmptying
<1>2. ASSUME UNCHANGED <<ring, tail>> PROVE OnlyEmpties
  BY <1>2 DEF OnlyEmpties, Age
<1>3. ASSUME UNCHANGED <<tlsVars, pool, next_partition, epochVars, ring, tail, region>>,
             \A u \in Threads : pc'[u] = "idle" <=> pc[u] = "idle"
      PROVE  OlderInv'
  BY <1>1, <1>2, <1>3 DEF Made, epochVars
<1>4. CASE UNCHANGED vars
  BY <1>3, <1>4 DEF vars, ringVars, opVars
<1>5. ASSUME NEW t \in Threads, ScavengeDescriptors(t) PROVE OlderInv'
  <2>1. OnlyEmpties /\ UNCHANGED <<tlsVars, local, pool, next_partition, pc, region>>
    BY <1>5, ScavengedOnly DEF opVars
  <2>2. QED
    BY <1>1, <2>1 DEF Made
<1>6. ASSUME Lifecycle PROVE OlderInv'
  <2>1. UNCHANGED <<local, next_partition, pool, pc, region, ring, tail>>
    BY <1>6 DEF Lifecycle, epochVars, ringVars, opVars
  <2>2. /\ Done \subseteq Done' /\ (Assigned(Main) => Assigned(Main)')
        /\ \A u \in Threads : Assigned(u)' => Assigned(u) /\ Part(u)' = Part(u)
    BY <1>0, <1>6, TlsByLifecycle
  <2>3. ~Turn(Main)'
    <3>1. PICK t \in Threads : StartThread(t) \/ ExitThread(t) \/ JoinThread(t) \/ DestroyThread(t)
      BY <1>6 DEF Lifecycle, ThreadSteps
    <3>2. PICK l \in {"running", "exited", "joined", "destroyed"} :
            life' = [life EXCEPT ![t] = l] /\ life[t] # "destroyed" /\ t # Main
      BY <3>1 DEF StartThread, ExitThread, JoinThread, DestroyThread, Become, TlsInv, Running
    <3>3. t \in Workers /\ pool = 1
      BY <3>2 DEF TlsInv, Workers
    <3>4. life'[t] # "new"
      BY <1>0, <3>2 DEF TlsType
    <3>5. QED
      BY <3>3, <3>4, <2>1 DEF Turn, Workers
  <2>4. \A u \in Threads : Made(u)' = Made(u)
    BY <2>1 DEF Made
  <2>5. QED
    BY <1>0, <1>03, <1>2, <2>1, <2>2, <2>3, <2>4, OlderByEmptying
<1>7. ASSUME ReplacePool PROVE OlderInv'
  <2>1. ring' = EmptyRings /\ UNCHANGED local
    BY <1>7 DEF ReplacePool
  <2>2. \A t \in Threads : local[t] = 0
    BY <1>7 DEF ReplacePool, BusyInv, Running, Idle, Protected
  <2>3. \A p \in Partitions : \A s \in Slots : ring'[p][s].epoch = 0
    BY <2>1 DEF EmptyRings, EmptySlot
  <2>4. \A t \in Threads : ~Protected(t)'
    BY <2>1, <2>2 DEF Protected
  <2>5. QED
    BY <2>3, <2>4 DEF OlderInv, Workers
<1>8. ASSUME NEW t \in Threads, Enter(t) \/ Leave(t) PROVE OlderInv'
  <2>1. /\ UNCHANGED <<tlsVars, pool, next_partition, current, ring, tail, pc>>
        /\ local' = [local EXCEPT ![t] = current] \/ local' = [local EXCEPT ![t] = 0]
        /\ region' = region \/ region' = [region EXCEPT ![t] = 0]
    BY <1>8 DEF Enter, Leave, Protect, Unprotect, Put, epochVars, ringVars, opVars
  <2>2. /\ local'[t] \in {0, current}
        /\ \A u \in Threads \ {t} : local'[u] = local[u] /\ region'[u] = region[u]
        /\ region'[t] \in {region[t], 0}
    BY <1>0, <2>1 DEF RingType, PcType
  <2>3. /\ Done' = Done /\ (\A u \in Threads : (Assigned(u)' <=> Assigned(u)) /\ Part(u)' = Part(u))
        /\ Turn(Main)' <=> Turn(Main)
        /\ \A p \in Partitions : Behind(p)' = Behind(p)
        /\ \A p \in Partitions : \A s \in Slots : Age(p, s)' = Age(p, s)
    BY <2>1 DEF tlsVars, Done, Assigned, Part, Running, Turn, Behind, Age
  <2>4. \A u \in Threads \ {t} : (Protected(u)' <=> Protected(u)) /\ Made(u)' = Made(u)
    BY <2>1, <2>2 DEF Protected, Made
  <2>5. ASSUME NEW p \in Partitions, NEW s \in Slots, Protected(t)', Age(p, s) > Quarter - 1
        PROVE  ring'[p][s].epoch < local'[t]
    <3>1. ring[p][s].epoch < current
      BY <1>0, <2>5, QuarterOld
    <3>2. QED
      BY <3>1, <2>1, <2>2, <2>5 DEF Protected
  <2>6. ASSUME NEW u \in Threads, Protected(u)', Assigned(u)' PROVE Older(u, Part(u), Made(u) + Quarter - 1)'
    <3>1. PICK p \in Partitions : p = Part(u) /\ p = Part(u)'
      BY <1>03, <2>3, <2>6
    <3>2. SUFFICES ASSUME NEW s \in Slots, Age(p, s)' > (Made(u) + Quarter - 1)' PROVE ring'[p][s].epoch < local'[u]
      BY <3>1 DEF Older
    <3>3. PICK a \in Nat : a = Age(p, s) /\ a = Age(p, s)'
      BY <1>02, <2>3
    <3>4. CASE u = t
      <4>1. Made(t)' \in Nat
        <5>1. pc'[t] = pc[t] /\ region'[t] \in {region[t], 0} /\ region[t] \in Nat /\ (pc[t] # "idle" => region[t] >= 1)
          BY <1>0, <2>1, <2>2 DEF RegionInv, PcType
        <5>2. pc[t] = "idle"
          BY <1>8 DEF Enter, Leave, BusyInv
        <5>3. QED
          BY <5>1, <5>2 DEF Made
      <4>2. a > Quarter - 1
        BY <4>1, <3>2, <3>3, <3>4, <1>0, <1>05
      <4>3. QED
        BY <4>2, <3>3, <3>4, <2>5, <2>6
    <3>5. CASE u # t
      <4>1. Older(u, p, Made(u) + Quarter - 1)
        BY <1>0, <2>3, <2>4, <2>6, <3>1, <3>5 DEF OlderInv
      <4>2. Age(p, s) > Made(u) + Quarter - 1
        BY <3>2, <3>3, <3>5, <2>4, <1>05
      <4>3. ring[p][s].epoch < local[u]
        BY <4>1, <4>2 DEF Older
      <4>4. QED
        BY <4>3, <2>1, <2>2, <3>5
    <3>6. QED
      BY <3>4, <3>5
  <2>7. ASSUME NEW u \in Workers, Protected(u)', NEW p \in Partitions, Behind(p)' > Cardinality(Done')
        PROVE  Older(u, p, Quarter - 1)'
    <3>1. SUFFICES ASSUME NEW s \in Slots, Age(p, s)' > (Quarter - 1)' PROVE ring'[p][s].epoch < local'[u]
      BY DEF Older
    <3>2. Age(p, s) > Quarter - 1 /\ u \in Threads
      BY <3>1, <2>3, <1>05 DEF Workers
    <3>3. CASE u = t
      BY <3>2, <3>3, <2>5, <2>7
    <3>4. CASE u # t
      <4>1. Older(u, p, Quarter - 1)
        BY <1>0, <2>3, <2>4, <2>7, <3>2, <3>4 DEF OlderInv
      <4>2. QED
        BY <4>1, <3>2, <3>4, <2>1, <2>2 DEF Older
    <3>5. QED
      BY <3>3, <3>4
  <2>8. Turn(Main)' /\ ~Assigned(Main)' => \A p \in Partitions : \A s \in Slots : ring'[p][s].epoch = 0
    BY <1>0, <2>1, <2>3, MainAssumption DEF OlderInv
  <2>9. QED
    BY <2>6, <2>7, <2>8 DEF OlderInv
<1>9. ASSUME NEW t \in Threads, BeginAllocate(t) PROVE OlderInv'
  <2>1. /\ UNCHANGED <<pool, local, ring, tail, life>> /\ Protected(t) /\ Turn(t) /\ pc[t] = "idle"
        /\ pc' = [pc EXCEPT ![t] = "allocate"] /\ region' = [region EXCEPT ![t] = @ + 1]
    BY <1>9 DEF BeginAllocate, Put, AssignTls, tlsVars, epochVars, ringVars
  <2>2. \A u \in Threads : Made(u)' = Made(u)
    <3>1. /\ pc'[t] = "allocate" /\ region'[t] = region[t] + 1 /\ region[t] \in Nat
          /\ \A u \in Threads \ {t} : pc'[u] = pc[u] /\ region'[u] = region[u]
      BY <1>0, <2>1 DEF PcType
    <3>2. QED
      BY <3>1, <2>1 DEF Made
  <2>3. CASE Assigned(t)
    <3>1. UNCHANGED <<tlsVars, next_partition>>
      BY <1>0, <1>9, <2>3, TlsByBegin
    <3>2. QED
      BY <1>1, <1>2, <2>1, <2>2, <3>1
  <2>4. CASE ~Assigned(t)
    <3>1. /\ Assigned(t)' /\ Part(t)' = next_partition /\ Running(t)
          /\ \A u \in Threads \ {t} : Assigned(u)' => Assigned(u) /\ Part(u)' = Part(u)
          /\ next_partition' = (next_partition + 1) % partition_count
          /\ t \in Workers => t \notin Done /\ Done' = Done \cup {t}
      BY <1>0, <1>9, <2>4, BeginAssigns
    <3>2. PICK o \in Partitions : o = next_partition
      BY <1>0 DEF TlsType
    <3>3. \A p \in Partitions : \A s \in Slots : Age(p, s)' = Age(p, s)
      BY <2>1 DEF Age
    <3>4. \A u \in Threads : Protected(u)' <=> Protected(u)
      BY <2>1 DEF Protected
    <3>5. ASSUME NEW u \in Threads, NEW p \in Partitions, NEW n, Older(u, p, n) PROVE Older(u, p, n)'
      BY <3>5, <3>3, <2>1 DEF Older
    <3>6. Older(t, o, Made(t) + Quarter - 1)
      <4>1. CASE t \in Workers
        <5>1. Behind(o) > Cardinality(Done)
          BY <3>1, <3>2, <4>1, DoneIs, BehindIs, Basics
        <5>2. Older(t, o, Quarter - 1)
          BY <1>0, <2>1, <4>1, <5>1 DEF OlderInv
        <5>3. \A s \in Slots : Age(o, s) > Made(t) + Quarter - 1 => Age(o, s) > Quarter - 1
          BY <1>0, <1>01, <1>02
        <5>4. QED
          BY <5>2, <5>3 DEF Older
      <4>2. CASE t = Main
        <5>1. \A s \in Slots : ring[o][s].epoch = 0
          BY <1>0, <2>1, <2>4, <4>2 DEF OlderInv
        <5>2. local[t] \in Nat \ {0}
          BY <1>0, <2>1 DEF RingType, Protected
        <5>3. QED
          BY <5>1, <5>2 DEF Older
      <4>3. QED
        BY <4>1, <4>2 DEF Workers
    <3>7. ASSUME NEW u \in Threads, Protected(u)', Assigned(u)' PROVE Older(u, Part(u), Made(u) + Quarter - 1)'
      <4>0. PICK p \in Partitions : p = Part(u)' /\ Older(u, p, Made(u) + Quarter - 1)
        <5>1. CASE u = t
          BY <5>1, <3>1, <3>2, <3>6
        <5>2. CASE u # t
          BY <5>2, <1>0, <1>03, <3>1, <3>4, <3>7 DEF OlderInv
        <5>3. QED
          BY <5>1, <5>2
      <4>1. PICK m : p = Part(u)' /\ m = Made(u) + Quarter - 1 /\ Older(u, p, m)
        BY <4>0
      <4>2. Older(u, p, m)'
        BY <4>1, <3>5
      <4>3. (Made(u) + Quarter - 1)' = m
        BY <4>1, <2>2, <1>05
      <4>4. QED
        BY <4>1, <4>2, <4>3 DEF Older
    <3>8. ASSUME NEW u \in Workers, Protected(u)', NEW p \in Partitions, Behind(p)' > Cardinality(Done')
          PROVE  Older(u, p, Quarter - 1)'
      <4>1. u \in Threads /\ Running(u) /\ Protected(u)
        BY <1>04, <3>4, <3>8 DEF Workers
      <4>2. t \in Workers
        <5>1. t # Main
          BY <4>1, <2>1, <3>8 DEF Turn, Running, Workers
        <5>2. QED
          BY <5>1 DEF Workers
      <4>3. PICK c \in Nat : c = Cardinality(Done) /\ Cardinality(Done') = c + 1
        BY <3>1, <4>2, DoneIs
      <4>4. Behind(p)' = IF p = next_partition THEN 1 ELSE Behind(p) + 1
        BY <1>0, <3>1, BehindNext DEF TlsType
      <4>5. Behind(p) \in Nat
        BY <1>0, BehindIs, Basics DEF TlsType
      <4>6. Behind(p) > Cardinality(Done)
        BY <4>3, <4>4, <4>5, <3>8
      <4>7. PICK m : m = Quarter - 1 /\ Older(u, p, m)
        BY <1>0, <4>1, <4>6, <3>8 DEF OlderInv
      <4>8. Older(u, p, m)' /\ (Quarter - 1)' = m
        BY <4>1, <4>7, <3>5, <1>05
      <4>9. QED
        BY <4>8 DEF Older
    <3>9. Turn(Main)' /\ ~Assigned(Main)' => \A p \in Partitions : \A s \in Slots : ring'[p][s].epoch = 0
      <4>1. SUFFICES ASSUME Turn(Main)' PROVE Assigned(Main)'
        OBVIOUS
      <4>2. \A u \in Workers : ~Running(u)
        BY <4>1, <2>1 DEF Turn, Running, Workers
      <4>3. t = Main
        BY <4>2, <3>1 DEF Workers
      <4>4. QED
        BY <4>3, <3>1
    <3>10. QED
      BY <3>7, <3>8, <3>9 DEF OlderInv
  <2>5. QED
    BY <2>3, <2>4
<1>10. ASSUME NEW t \in Threads, PushDescriptor(t) PROVE OlderInv'
  <2>1. PICK p \in Partitions, k \in Slots : PushedRing(t, p, k)
    BY <1>10, PushedIs
  <2>2. /\ pc[t] = "push" /\ Owner(own[t]) = p /\ UNCHANGED <<tlsVars, local, pool, next_partition, region>>
        /\ pc'[t] = "idle" /\ \A u \in Threads \ {t} : pc'[u] = pc[u]
    BY <2>1 DEF PushedRing
  <2>3. /\ Done' = Done /\ (\A u \in Threads : (Assigned(u)' <=> Assigned(u)) /\ Part(u)' = Part(u))
        /\ (Turn(Main)' <=> Turn(Main)) /\ (\A o \in Partitions : Behind(o)' = Behind(o))
        /\ \A u \in Threads : Protected(u)' <=> Protected(u)
    BY <2>2 DEF tlsVars, Done, Assigned, Part, Running, Turn, Behind, Protected
  <2>4. Assigned(t) /\ Part(t) = p /\ Running(t) /\ Protected(t) /\ own[t] # NoItem
    BY <2>2 DEF BusyInv, Assigned
  <2>5. ASSUME NEW u \in Threads, NEW o \in Partitions \ {p}, NEW n, Older(u, o, n) PROVE Older(u, o, n)'
    BY <2>5, <2>1, <2>2 DEF Older, PushedRing
  <2>6. ASSUME NEW u \in Threads \ {t}, Protected(u), Assigned(u) PROVE Part(u) # p
    <3>1. Running(u) /\ ~Idle(u) /\ ~Idle(t)
      BY <2>4, <2>6 DEF Idle, Assigned
    <3>2. t \in Workers /\ u \in Workers
      BY <2>4, <3>1 DEF BusyInv, Workers
    <3>3. QED
      BY <3>2, <2>4, <2>6 DEF TlsInv
  <2>7. ASSUME NEW u \in Threads, Protected(u)', Assigned(u)' PROVE Older(u, Part(u), Made(u) + Quarter - 1)'
    <3>1. CASE u # t
      <4>0. PICK o \in Partitions : o = Part(u) /\ o = Part(u)' /\ Older(u, o, Made(u) + Quarter - 1)
        BY <1>0, <1>03, <2>3, <2>7 DEF OlderInv
      <4>1. PICK m : o = Part(u) /\ o = Part(u)' /\ m = Made(u) + Quarter - 1 /\ Older(u, o, m)
        BY <4>0
      <4>2. o # p
        BY <4>1, <3>1, <2>3, <2>6, <2>7
      <4>3. Older(u, o, m)'
        BY <4>1, <4>2, <3>1, <2>5
      <4>4. (Made(u) + Quarter - 1)' = m
        BY <4>1, <3>1, <2>2, <1>05 DEF Made
      <4>5. QED
        BY <4>1, <4>3, <4>4 DEF Older
    <3>2. CASE u = t
      <4>1. PICK m \in Nat : m = Made(t) /\ Made(t)' = m + 1
        BY <1>0, <1>01, <2>2 DEF Made, PcType, RegionInv
      <4>2. Older(t, p, m + Quarter - 1)
        BY <1>0, <2>4, <4>1 DEF OlderInv
      <4>3. ASSUME NEW s \in Slots, Age(p, s)' > m + 1 + Quarter - 1 PROVE ring'[p][s].epoch < local'[t]
        <5>1. s # k
          BY <4>3, <1>0, <2>1 DEF PushedRing
        <5>2. ring'[p][s] = ring[p][s] /\ Age(p, s)' = Age(p, s) + 1
          BY <5>1, <2>1 DEF PushedRing
        <5>3. Age(p, s) > m + Quarter - 1
          BY <4>3, <5>2, <1>0, <1>02
        <5>4. QED
          BY <5>2, <5>3, <4>2, <2>2 DEF Older
      <4>4. Part(t)' = p /\ (Made(t) + Quarter - 1)' = m + 1 + Quarter - 1
        BY <4>1, <2>3, <2>4, <1>05
      <4>5. QED
        BY <3>2, <4>3, <4>4 DEF Older
    <3>3. QED
      BY <3>1, <3>2
  <2>8. ASSUME NEW u \in Workers, Protected(u)', NEW o \in Partitions, Behind(o)' > Cardinality(Done')
        PROVE  Older(u, o, Quarter - 1)'
    <3>1. u \in Threads /\ Protected(u) /\ Idle(Main)
      BY <1>04, <2>3, <2>8 DEF Workers
    <3>2. t \in Workers
      BY <3>1, <2>4 DEF Idle, Workers
    <3>3. Behind(p) <= Cardinality(Done)
      BY <3>2, <2>4 DEF TlsInv
    <3>4. o # p /\ Behind(o) > Cardinality(Done)
      <4>1. Behind(p) \in Nat /\ Behind(o) \in Nat /\ Cardinality(Done) \in Nat
        BY <1>0, BehindIs, Basics, DoneIs DEF TlsType
      <4>2. QED
        BY <4>1, <3>3, <2>3, <2>8
    <3>5. PICK m : m = Quarter - 1 /\ Older(u, o, m)
      BY <1>0, <3>1, <3>4, <2>8 DEF OlderInv
    <3>6. Older(u, o, m)' /\ (Quarter - 1)' = m
      BY <3>1, <3>4, <3>5, <2>5, <1>05
    <3>7. QED
      BY <3>6 DEF Older
  <2>9. Turn(Main)' /\ ~Assigned(Main)' => \A o \in Partitions : \A s \in Slots : ring'[o][s].epoch = 0
    <3>1. SUFFICES ASSUME Turn(Main)' PROVE Assigned(Main)'
      OBVIOUS
    <3>2. \A u \in Workers : ~Running(u)
      BY <3>1, <2>3 DEF Turn, Running, Workers
    <3>3. t = Main
      BY <3>2, <2>4 DEF Workers
    <3>4. QED
      BY <3>3, <2>3, <2>4
  <2>10. QED
    BY <2>7, <2>8, <2>9 DEF OlderInv
<1>11. QED
  BY <1>0, <1>3, <1>4, <1>5, <1>6, <1>7, <1>8, <1>9, <1>10, WaitSteps

\* A partition without a free descriptor, and whose thread has none in hand, has
\* them all in its ring; the one at the tail is the oldest.
LEMMA OldAtTail ==
  ASSUME TypeOK, TlsInv, BusyInv, PlaceInv, EpochInv, WaitInv, NEW t \in Threads, pc[t] = "allocate",
         free_list[Part(t)] = <<>>
  PROVE  \E s \in Slots : ring[Part(t)][s].epoch \in 1 .. local[t] - 1
<1>0. RingType /\ TlsType /\ PcType
  BY Types
<1>1. Assigned(t) /\ Protected(t) /\ own[t] = NoItem
  BY DEF BusyInv
<1>2. PICK p \in Partitions : p = Part(t)
  BY <1>0, <1>1, PartIs
<1>3. PICK k \in Slots : k = tail[p]
  BY <1>0 DEF RingType
<1>4. ring[p] \in [Slots -> [item : Descs \cup {NoItem}, epoch : Nat]]
  BY <1>0 DEF RingType
<1>5. \A d \in Descs : Owner(d) = p => InRing(d)
  <2>1. ASSUME NEW d \in Descs, Owner(d) = p PROVE ~InFree(d)
    BY <1>2, <2>1 DEF InFree
  <2>2. ASSUME NEW d \in Descs, Owner(d) = p, NEW u \in Threads, own[u] = d PROVE FALSE
    <3>1. d # NoItem
      BY Basics
    <3>2. u # t /\ pc[u] # "idle" /\ Part(u) = p
      BY <3>1, <2>2, <1>1 DEF BusyInv
    <3>3. QED
      BY <3>2, <1>2, PartsDiffer
  <2>3. QED
    BY <2>1, <2>2 DEF PlaceInv, Held
<1>6. ASSUME ring[p][k].epoch = 0 PROVE FALSE
  <2>1. ring[p][k].item = NoItem
    BY <1>6 DEF PlaceInv
  <2> DEFINE g == [x \in Slots |-> CHOOSE s \in Slots : ring[p][s].item = <<p, x>>]
             T == Slots \ {k}
  <2>2. \A x \in Slots : g[x] \in Slots /\ ring[p][g[x]].item = <<p, x>>
    <3>1. ASSUME NEW x \in Slots PROVE \E s \in Slots : ring[p][s].item = <<p, x>>
      <4>1. PICK d \in Descs : d = <<p, x>> /\ Owner(d) = p
        BY Basics DEF Owner
      <4>2. QED
        BY <4>1, <1>5 DEF InRing
    <3>2. QED
      BY <3>1
  <2>3. \A x \in Slots : g[x] # k
    <3>1. \A x \in Slots : <<p, x>> # NoItem
      BY Basics
    <3> HIDE DEF g
    <3>2. QED
      BY <2>1, <2>2, <3>1
  <2>4. g \in [Slots -> T]
    BY <2>2, <2>3
  <2>5. \A x, y \in Slots : x # y => g[x] # g[y]
    <3>1. ASSUME NEW x \in Slots, NEW y \in Slots, g[x] = g[y] PROVE x = y
      <4>1. <<p, x>> = <<p, y>>
        <5> HIDE DEF g
        <5>1. QED
          BY <3>1, <2>2
      <4>2. QED
        BY <4>1
    <3> HIDE DEF g
    <3>2. QED
      BY <3>1
  <2>6. IsFiniteSet(Slots) /\ Cardinality(Slots) \in Nat
    BY Basics, FS_Interval, FS_CardinalityType
  <2>7. IsFiniteSet(T) /\ Cardinality(T) < Cardinality(Slots)
    <3>1. IsFiniteSet(Slots \ {k}) /\ Cardinality(Slots \ {k}) = Cardinality(Slots) - 1
      BY <2>6, FS_RemoveElement
    <3>2. QED
      BY <2>6, <3>1
  <2> HIDE DEF g, T
  <2>8. PICK x, y \in Slots : x # y /\ g[x] = g[y]
    BY <2>4, <2>6, <2>7, FS_PigeonHole
  <2>9. QED
    BY <2>5, <2>8
<1>7. ring[p][k].epoch < local[t]
  <2>1. Older(t, p, Made(t) + Quarter - 1)
    BY <1>1, <1>2 DEF WaitInv, OlderInv
  <2>2. Age(p, k) = ItemCount
    BY <1>0, <1>3, AgeIs
  <2>3. Made(t) = region[t] - 1 /\ region[t] \in Nat /\ region[t] <= MaxPerRegion
    BY <1>0 DEF Made, WaitInv, RegionInv, PcType
  <2>4. ItemCount > Made(t) + Quarter - 1
    <3>1. PICK m, q, n, r \in Nat : m = MaxPerRegion /\ q = Quarter /\ n = ItemCount /\ r = region[t]
      BY <2>3, QuarterIs, CallersAssumption, Basics
    <3>2. m + q <= n /\ r <= m
      BY <3>1, <2>3, QuarterIs
    <3>3. QED
      BY <2>3, <3>1, <3>2
  <2>5. QED
    BY <2>1, <2>2, <2>4 DEF Older
<1>8. ring[p][k].epoch \in Nat /\ local[t] \in Nat
  BY <1>0, <1>4 DEF RingType
<1>9. QED
  BY <1>2, <1>6, <1>7, <1>8

-----------------------------------------------------------------------------
(***************************************************************************)
(* The first state, and what every state is like.                          *)
(***************************************************************************)
\* The inductive invariant.
PoolInv == TypeOK /\ TlsInv /\ BusyInv /\ PlaceInv /\ RingInv /\ EpochInv /\ StatusInv /\ ReachInv
           /\ WaitInv

\* The types of the first state.
LEMMA InitTypes ==
  ASSUME Init PROVE TypeOK
<1>1. TlsType
  <2>1. Ids # {}
    <3>1. Cardinality(Threads) # 0
      BY MainAssumption, IdsAssumption, FS_EmptySet
    <3>2. Cardinality(Threads) \in Nat
      BY IdsAssumption, FS_CardinalityType
    <3>3. QED
      BY <3>1, <3>2, IdsAssumption, FS_EmptySet
  <2>2. (CHOOSE i \in Ids : TRUE) \in Ids
    BY <2>1
  <2>3. 0 \in Partitions /\ 1 \in 1 .. MaxPools
    BY Basics, CallersAssumption
  <2>4. QED
    BY <2>2, <2>3 DEF Init, TlsInit, PoolInit, TlsType
<1>2. RingType
  <2>1. 0 \in Slots
    BY Basics
  <2>2. QED
    BY <2>1, Basics DEF Init, ListInit, RingType, EmptyRings, EmptySlot
<1>3. ListType
  BY FreshList DEF Init, PoolInit, ListType
<1>4. DescType
  <2>1. PICK f : f = CHOOSE g \in Injection(Words, Blocks) : TRUE
    OBVIOUS
  <2>2. f \in [Words -> Blocks]
    <3>1. f \in Injection(Words, Blocks)
      BY <2>1, NamesAssumption
    <3>2. QED
      BY <3>1 DEF Injection, IsInjective
  <2>3. word = [a \in Words |-> Plain(f[a])] /\ mem = {f[a] : a \in Words}
    BY <2>1 DEF Init
  <2>4. \A b \in Blocks : Plain(b) \in Content
    BY DEF Plain, Content
  <2>5. word \in [Words -> Content] /\ mem \subseteq Blocks
    BY <2>2, <2>3, <2>4
  <2>6. <<>> \in Seq(EntrySet)
    OBVIOUS
  <2>7. QED
    BY <2>5, <2>6 DEF Init, PoolInit, Initialize, DescType
<1>5. PcType
  BY CallersAssumption DEF Init, PcType
<1>6. ReachType
  BY DEF Init, ReachType
<1>7. QED
  BY <1>1, <1>2, <1>3, <1>4, <1>5, <1>6, Types

\* The first state has all that is kept.
LEMMA InitInv ==
  ASSUME Init PROVE PoolInv
<1>0. TypeOK /\ TlsType /\ RingType /\ ListType /\ DescType /\ PcType /\ ReachType
  BY InitTypes, Types
<1>1. TlsInv
  <2>1. \A t \in Threads : (life[t] = "running" <=> t = Main) /\ (t # Main => life[t] = "new")
    BY DEF Init, TlsInit
  <2>2. \A i \in Ids : tls_part[i] = NoPart
    BY DEF Init, TlsInit
  <2>3. id[Main] \in Ids
    <3>1. id[Main] = CHOOSE i \in Ids : TRUE
      BY MainAssumption DEF Init, TlsInit
    <3>2. Ids # {}
      <4>1. Cardinality(Threads) # 0
        BY MainAssumption, IdsAssumption, FS_EmptySet
      <4>2. Cardinality(Threads) \in Nat
        BY IdsAssumption, FS_CardinalityType
      <4>3. QED
        BY <4>1, <4>2, IdsAssumption, FS_EmptySet
    <3>3. QED
      BY <3>1, <3>2
  <2>4. \A t \in Threads : ~Assigned(t)
    BY <2>1, <2>2, <2>3 DEF Assigned, Running
  <2>5. \A t \in Threads : Alive(t) <=> t = Main
    BY <2>1 DEF Alive
  <2>6. pool = 1 /\ Running(Main)
    BY <2>1, MainAssumption DEF Init, Running
  <2>7. QED
    BY <2>2, <2>3, <2>4, <2>5, <2>6 DEF TlsInv, Workers
<1>2. \A t \in Threads : pc[t] = "idle" /\ local[t] = 0 /\ own[t] = NoItem /\ stamp[t] = 0
                         /\ reached[t] = {} /\ cond[t] = NoItem
  BY Basics DEF Init, ListInit
<1>3. BusyInv
  BY <1>2, MainAssumption DEF BusyInv, Idle, Protected
<1>4. \A p \in Partitions : free_list[p] = DescsOf(p) /\ \A s \in Slots : ring[p][s] = EmptySlot
  BY DEF Init, PoolInit, ListInit, EmptyRings
<1>5. \A p \in Partitions : \A s \in Slots : ring[p][s].item = NoItem /\ ring[p][s].epoch = 0
  BY <1>4 DEF EmptySlot
<1>6. \A d \in Descs : InFree(d) /\ ~InRing(d) /\ ~Held(d)
  <2> TAKE d \in Descs
  <2>1. PICK p \in Partitions : p = Owner(d)
    BY Basics
  <2>2. \E i \in DOMAIN DescsOf(p) : DescsOf(p)[i] = d
    BY <2>1, FreshList
  <2>3. InFree(d)
    BY <1>4, <2>1, <2>2 DEF InFree
  <2>4. QED
    BY <2>1, <2>3, <1>2, <1>5, Basics DEF InRing, Held
<1>7. PlaceInv
  <2>1. \A p \in Partitions : \A i, j \in DOMAIN free_list[p] :
          Owner(free_list[p][i]) = p /\ (i # j => free_list[p][i] # free_list[p][j])
    BY <1>4, FreshList
  <2>2. QED
    BY <2>1, <1>2, <1>5, <1>6 DEF PlaceInv
<1>8. RingInv
  BY <1>5 DEF RingInv
<1>9. EpochInv
  BY <1>2, <1>5 DEF EpochInv, Init, ListInit
<1>10. \A d \in Descs : desc[d].status = "kStatusFinished"
  BY DEF Init, PoolInit, Initialize
<1>11. StatusInv
  BY <1>2, <1>6, <1>10 DEF StatusInv, Undecided, Succeeded
<1>12. ReachInv
  <2>1. \A a \in Words : word[a].kind = "value"
    BY DEF Init, Plain
  <2>2. QED
    BY <2>1, <1>2 DEF ReachInv
<1>13. WaitInv
  <2>1. \A t \in Threads : region[t] = 0
    BY DEF Init
  <2>2. RegionInv
    BY <2>1, <1>2, CallersAssumption DEF RegionInv, Protected
  <2>3. BumpInv
    BY <1>5, <1>9, <1>0 DEF BumpInv, EpochInv, RingType
  <2>4. OlderInv
    BY <1>2, <1>5 DEF OlderInv, Protected, Workers
  <2>5. QED
    BY <2>2, <2>3, <2>4 DEF WaitInv
<1>14. QED
  BY <1>0, <1>1, <1>3, <1>7, <1>8, <1>9, <1>11, <1>12, <1>13 DEF PoolInv

\* A step keeps all of it.
LEMMA StepInv ==
  ASSUME PoolInv, [Next]_vars PROVE PoolInv'
<1>0. TypeOK /\ TlsInv /\ BusyInv /\ PlaceInv /\ RingInv /\ EpochInv /\ StatusInv /\ ReachInv /\ WaitInv
      /\ TlsType /\ (Next \/ UNCHANGED vars)
  BY Types DEF PoolInv
<1>1. TlsType' /\ TlsInv'
  BY <1>0, TlsStep
<1>2. PcType' /\ BusyInv'
  BY <1>0, BusyStep
<1>3. ListType' /\ PlaceInv'
  BY <1>0, PlaceStep
<1>4. RingType' /\ EpochInv' /\ RingInv'
  BY <1>0, EpochStep
<1>5. StatusInv'
  BY <1>0, <1>3, StatusStep
<1>6. DescType' /\ ReachType'
  BY <1>0, DescStep
<1>7. ReachInv'
  BY <1>0, <1>3, <1>6, ReachStep
<1>8. TypeOK'
  <2>1. TypeOK' <=> TlsType' /\ RingType' /\ ListType' /\ DescType' /\ PcType' /\ ReachType'
    BY Zenon DEF TypeOK, TlsType, RingType, ListType, DescType, PcType, ReachType
  <2>2. QED
    BY <2>1, <1>1, <1>2, <1>3, <1>4, <1>6
<1>9. WaitInv'
  BY <1>0, BumpStep, RegionStep, OlderStep DEF WaitInv
<1>10. QED
  BY <1>1, <1>2, <1>3, <1>4, <1>5, <1>7, <1>8, <1>9 DEF PoolInv

\* The inductive invariant of the pool.
THEOREM PoolInvariant == Spec => []PoolInv
<1>1. Init => PoolInv
  BY InitInv
<1>2. PoolInv /\ [Next]_vars => PoolInv'
  BY StepInv
<1>3. QED
  BY <1>1, <1>2, PTL DEF Spec

\* Every variable stays in its type.
THEOREM TypeCorrect == Spec => []TypeOK
<1>1. PoolInv => TypeOK
  BY DEF PoolInv
<1>2. QED
  BY <1>1, PoolInvariant, PTL

\* While a thread allocates it has a partition of the pool there is now, and
\* nobody else works with that partition.
THEOREM OwnPartition == Spec => []PartitionIsOwn
<1>1. ASSUME PoolInv PROVE PartitionIsOwn
  <2>1. TlsInv /\ BusyInv
    BY <1>1 DEF PoolInv
  <2>2. SUFFICES ASSUME NEW t \in Threads, pc[t] = "allocate"
                 PROVE  /\ tls_part[id[t]] # NoPart /\ tls_part[id[t]].pool = pool
                        /\ \A u \in Threads \ {t} : pc[u] # "idle" => Part(u) # Part(t)
    BY DEF PartitionIsOwn
  <2>3. Assigned(t)
    BY <2>1, <2>2 DEF BusyInv
  <2>4. tls_part[id[t]] # NoPart /\ tls_part[id[t]].pool = pool
    BY <2>1, <2>3 DEF Assigned, TlsInv
  <2>5. \A u \in Threads \ {t} : pc[u] # "idle" => Part(u) # Part(t)
    BY <2>1, <2>2, PartsDiffer
  <2>6. QED
    BY <2>4, <2>5
<1>2. QED
  BY <1>1, PoolInvariant, PTL

\* Every descriptor is in one place, and Push finds its slot empty.
THEOREM InOnePlace == Spec => []OnePlace
<1>1. ASSUME PoolInv PROVE OnePlace
  <2>0. TypeOK /\ BusyInv /\ PlaceInv /\ RingInv /\ RingType /\ PcType
    BY <1>1, Types DEF PoolInv
  <2>1. ASSUME NEW d \in Descs PROVE Places(d) = 1
    <3> DEFINE F == {i \in DOMAIN free_list[Owner(d)] : free_list[Owner(d)][i] = d}
               R == {s \in Slots : ring[Owner(d)][s].item = d}
               H == {t \in Threads : own[t] = d}
    <3>1. \A i, j \in F : i = j
      BY <2>0, Basics DEF PlaceInv
    <3>2. \A r, s \in R : r = s
      BY <2>0, Basics DEF PlaceInv
    <3>3. \A t, u \in H : t = u
      BY <2>0, Basics DEF PlaceInv
    <3>4. (InFree(d) <=> F # {}) /\ (InRing(d) <=> R # {}) /\ (Held(d) <=> H # {})
      BY DEF InFree, InRing, Held
    <3>5. \/ F # {} /\ R = {} /\ H = {}
          \/ F = {} /\ R # {} /\ H = {}
          \/ F = {} /\ R = {} /\ H # {}
      <4> HIDE DEF F, R, H
      <4>1. QED
        BY <3>4, <2>0 DEF PlaceInv
    <3>6. ASSUME NEW S, S # {}, \A x, y \in S : x = y PROVE Cardinality(S) = 1
      <4>1. PICK x : x \in S
        BY <3>6
      <4>2. S = {x}
        BY <3>6, <4>1
      <4>3. QED
        BY <4>2, FS_Singleton
    <3>7. Places(d) = Cardinality(F) + Cardinality(R) + Cardinality(H)
      BY DEF Places
    <3> HIDE DEF F, R, H
    <3>8. (F = {} => Cardinality(F) = 0) /\ (R = {} => Cardinality(R) = 0) /\ (H = {} => Cardinality(H) = 0)
      BY FS_EmptySet
    <3>9. (F # {} => Cardinality(F) = 1) /\ (R # {} => Cardinality(R) = 1) /\ (H # {} => Cardinality(H) = 1)
      BY <3>1, <3>2, <3>3, <3>6
    <3>10. QED
      BY <3>5, <3>7, <3>8, <3>9
  <2>2. \A t \in Threads : pc[t] = "push" => LET p == Owner(own[t]) IN ring[p][tail[p]] = EmptySlot
    BY <2>0, EmptyAtTail
  <2>3. QED
    BY <2>1, <2>2 DEF OnePlace
<1>2. QED
  BY <1>1, PoolInvariant, PTL

\* A descriptor that some word points to is being worked on by a thread in its region.
THEOREM Linked == Spec => []LinkedIsHeld
<1>1. ASSUME PoolInv PROVE LinkedIsHeld
  BY <1>1, LinkedReached DEF PoolInv, LinkedIsHeld
<1>2. QED
  BY <1>1, PoolInvariant, PTL

\* No descriptor is recycled under a thread that has reached it.
THEOREM Reached == Spec => []ReachedStays
<1>1. ASSUME PoolInv PROVE ReachedStays
  <2>0. TypeOK /\ BusyInv /\ PlaceInv /\ StatusInv /\ ReachInv /\ ReachType
    BY <1>1, Types DEF PoolInv
  <2>1. SUFFICES ASSUME NEW t \in Threads, NEW d \in reached[t] PROVE desc[d].status # "kStatusFinished"
    BY DEF ReachedStays
  <2>2. d \in Descs /\ Guarded(t, d)
    BY <2>0 DEF ReachType, ReachInv
  <2>3. Undecided(d) \/ Decided(d)
    BY <2>0, <2>2, GuardedIs
  <2>4. QED
    BY <2>3 DEF Undecided, Decided
<1>2. QED
  BY <1>1, PoolInvariant, PTL

\* An allocation that finds the free list of its partition empty waits for
\* something that was retired before the thread entered its region: never for itself.
THEOREM WaitsForOthers == Spec => []AllocationWaitsForOthers
<1>1. ASSUME PoolInv PROVE AllocationWaitsForOthers
  <2>1. SUFFICES ASSUME NEW t \in Threads, pc[t] = "allocate", free_list[Part(t)] = <<>>
                 PROVE  \E s \in Slots : ring[Part(t)][s].epoch \in 1 .. local[t] - 1
    BY DEF AllocationWaitsForOthers
  <2>2. QED
    BY <1>1, <2>1, OldAtTail DEF PoolInv
<1>2. QED
  BY <1>1, PoolInvariant, PTL
=============================================================================
