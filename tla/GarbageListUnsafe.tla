------------------------- MODULE GarbageListUnsafe --------------------------
(***************************************************************************)
(* GarbageListUnsafe (src/common/garbage_list_unsafe.h): the ring of       *)
(* retired descriptors of each partition, used by the one thread that owns *)
(* the partition.  The epoch manager is the one of EpochManager with each  *)
(* of its operations in one step.                                          *)
(***************************************************************************)
EXTENDS Naturals, Sequences, FiniteSetsExt

CONSTANTS
  Users,       \* threads
  Partitions,  \* numbers from 0
  ItemCount,   \* desc_per_partition_: the size of each ring
  NoItem

\* What Initialize accepts.
ASSUME ItemCountAssumption == \E e \in 0 .. 31 : ItemCount = 2 ^ e

VARIABLES
  current, safe,  \* EpochManager: current_epoch_ and safe_to_reclaim_epoch_
  local,          \* [Users -> Nat]: the protected_epoch of its entry, 0 if none
  ring,           \* [Partitions -> [slots -> [item, epoch]]]: items_
  tail,           \* [Partitions -> slots]: tail_ modulo item_count_
  stamp           \* [Users -> Nat]: the local removal_epoch of Push, 0 outside

epochVars == <<current, safe, local>>
ringVars == <<ring, tail, stamp>>

Slots == 0 .. ItemCount - 1
EmptySlot == [item |-> NoItem, epoch |-> 0]
EmptyRings == [p \in Partitions |-> [s \in Slots |-> EmptySlot]]

ListInit ==
  /\ current = 1
  /\ safe = 0
  /\ local = [t \in Users |-> 0]
  /\ ring = EmptyRings
  /\ tail = [p \in Partitions |-> 0]
  /\ stamp = [t \in Users |-> 0]

Protect(t) == local' = [local EXCEPT ![t] = current] /\ UNCHANGED <<current, safe>>
Unprotect(t) == local' = [local EXCEPT ![t] = 0] /\ UNCHANGED <<current, safe>>

\* BumpCurrentEpoch and the new safe epoch.  While nothing bears the current
\* epoch a new number would distinguish nothing, so it stays.
InUse == \/ \E t \in Users : current \in {local[t], stamp[t]}
         \/ \E p \in Partitions, s \in Slots : ring[p][s].epoch = current
\* Mutant: the epoch is never bumped.
NeverBumped == current

Bumped == IF InUse THEN current + 1 ELSE current
SafeAfterBump == Min(({local[t] : t \in Users} \ {0}) \cup {Bumped}) - 1

\* Mutant: off by one.
IsSafeTooEarly(e, s) == e <= s + 1

IsSafeToReclaim(e, s) == e <= s

\* Push bumps the epoch when it starts on a quarter of the ring.
BumpsAt(slot) == (slot * 4) % ItemCount = 0

\* One turn of Push's loop for list p.  The next slot is taken, with what it
\* held freed, or left alone and the next turn tries the one after it.
PushSafe(p) == IF BumpsAt(tail[p]) THEN SafeAfterBump ELSE safe
PushTakes(p) ==
  LET e == ring[p][tail[p]].epoch IN e = 0 \/ IsSafeToReclaim(e, PushSafe(p))
PushFrees(p) ==
  IF PushTakes(p) /\ ring[p][tail[p]].epoch # 0 THEN <<ring[p][tail[p]].item>> ELSE <<>>

PushTurn(t, p, item) ==
  /\ tail' = [tail EXCEPT ![p] = (@ + 1) % ItemCount]
  /\ safe' = PushSafe(p)
  /\ current' = IF BumpsAt(tail[p]) THEN Bumped ELSE current
  /\ ring' = IF PushTakes(p)
             THEN [ring EXCEPT ![p][tail[p]] = [item |-> item, epoch |-> stamp[t]]] ELSE ring
  /\ stamp' = IF PushTakes(p) THEN [stamp EXCEPT ![t] = 0] ELSE stamp
  /\ UNCHANGED local

\* Scavenge of list p with the safe epoch s: the slots it empties, in order.
Reclaimable(p, s) == {k \in Slots : ring[p][k].epoch # 0 /\ IsSafeToReclaim(ring[p][k].epoch, s)}
Scavenged(p, s) ==
  LET Take(k) == IF k \in Reclaimable(p, s) THEN <<ring[p][k].item>> ELSE <<>>
      upTo[k \in 0 .. ItemCount] == IF k = 0 THEN <<>> ELSE upTo[k - 1] \o Take(k - 1)
  IN  upTo[ItemCount]
\* Mutant: the slots are not reset.
AfterScavengeKeeps(p, s) == ring

AfterScavenge(p, s) ==
  [ring EXCEPT ![p] = [k \in Slots |-> IF k \in Reclaimable(p, s) THEN EmptySlot ELSE @[k]]]
=============================================================================
