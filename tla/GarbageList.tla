----------------------------- MODULE GarbageList ----------------------------
(***************************************************************************)
(* GarbageList of src/common/garbage_list.h: a ring of slots, shared by    *)
(* all threads, that holds removed items aside until EpochManager says     *)
(* their removal epoch is safe.                                            *)
(*                                                                         *)
(* The list is composed with EpochManager: it is the list's calls that     *)
(* retire items, advance the epoch and reclaim.  Destruction is not        *)
(* guarded here by the item's own state, only by what the code looks at,   *)
(* the epoch in the slot; that the list keeps to the protocol of           *)
(* EpochManager is a property (FollowsEpochProtocol).                      *)
(***************************************************************************)
EXTENDS EpochManager

CONSTANTS
  ItemCount,    \* item_count_, a power of two
  ListManager,  \* epoch_manager_
  NoItem

ASSUME ItemCountAssumption == ItemCount \in Nat \ {0}
ASSUME ListManagerAssumption == ListManager \in Managers /\ NoItem \notin Items

RingSlots == 0 .. ItemCount - 1
Invalid == -1    \* invalid_epoch: the slot is locked

VARIABLES
  slot_epoch,    \* [RingSlots -> Nat \cup {Invalid}]  Item::removal_epoch; 0: empty
  slot_item,     \* [RingSlots -> Items \cup {NoItem}] Item::removed_item
  tail,          \* tail_, modulo ItemCount
  lpc,           \* where each thread is in a call of the list
  pushed,        \* the removed_item parameter of Push
  stamp,         \* the local removal_epoch of Push
  slot,          \* the local slot
  prior          \* the local priorItemEpoch

slotVars == <<slot_epoch, slot_item, tail>>
listCallVars == <<lpc, pushed, stamp, slot, prior>>
listVars == <<vars, slotVars, listCallVars>>

ListInit ==
  /\ Init
  /\ slot_epoch = [s \in RingSlots |-> 0]
  /\ slot_item = [s \in RingSlots |-> NoItem]
  /\ tail = 0
  /\ lpc = [t \in Threads |-> "idle"]
  /\ pushed = [t \in Threads |-> NoItem]
  /\ stamp = [t \in Threads |-> 0]
  /\ slot = [t \in Threads |-> 0]
  /\ prior = [t \in Threads |-> 0]

GoTo(t, label) == lpc' = [lpc EXCEPT ![t] = label]

\* A call of the list returns: its parameters and local variables are gone.
ListReturn(t) ==
  /\ GoTo(t, "idle")
  /\ pushed' = [pushed EXCEPT ![t] = NoItem]
  /\ stamp' = [stamp EXCEPT ![t] = 0]
  /\ slot' = [slot EXCEPT ![t] = 0]
  /\ prior' = [prior EXCEPT ![t] = 0]

-----------------------------------------------------------------------------
(***************************************************************************)
(* Push.                                                                   *)
(***************************************************************************)

PushStart(t, i) ==
  /\ lpc[t] = "idle"
  /\ Home[i] = ListManager
  /\ Retire(t, i)
  /\ pushed' = [pushed EXCEPT ![t] = i]
  /\ stamp' = [stamp EXCEPT ![t] = current_epoch[ListManager]]
  /\ GoTo(t, "claim")
  /\ UNCHANGED <<slotVars, slot, prior>>

\* slot = (tail_.fetch_add(1) - 1) & (item_count_ - 1); the epoch is advanced
\* every time a quarter of the ring has been worked through.
PushClaim(t) ==
  LET s == (tail + ItemCount - 1) % ItemCount IN
  /\ lpc[t] = "claim"
  /\ Locked(t)
  /\ tail' = (tail + 1) % ItemCount
  /\ slot' = [slot EXCEPT ![t] = s]
  /\ GoTo(t, IF (4 * s) % ItemCount = 0 THEN "bump" ELSE "read")
  /\ UNCHANGED <<vars, slot_epoch, slot_item, pushed, stamp, prior>>

PushBump(t) ==
  /\ lpc[t] = "bump"
  /\ BumpCurrentEpoch(t, ListManager)
  /\ GoTo(t, "read")
  /\ UNCHANGED <<slotVars, pushed, stamp, slot, prior>>

\* Read the slot's epoch, once BumpCurrentEpoch() has returned; a locked slot
\* is somebody else's.
PushRead(t) ==
  /\ lpc[t] = "read"
  /\ pc[t] = "idle"
  /\ prior' = [prior EXCEPT ![t] = slot_epoch[slot[t]]]
  /\ GoTo(t, IF slot_epoch[slot[t]] = Invalid THEN "claim" ELSE "lock")
  /\ UNCHANGED <<vars, slotVars, pushed, stamp, slot>>

\* Mutant of LockSlot: the slot is locked whatever its epoch is.
LockBlindly(t, locked, failed) ==
  /\ slot_epoch' = [slot_epoch EXCEPT ![slot[t]] = Invalid]
  /\ locked

\* Mutant of LockSlot: any epoch but the invalid one will do.
LockUnlocked(t, locked, failed) ==
  IF slot_epoch[slot[t]] # Invalid
  THEN /\ slot_epoch' = [slot_epoch EXCEPT ![slot[t]] = Invalid]
       /\ locked
  ELSE /\ UNCHANGED slot_epoch
       /\ failed

\* The CAS that locks a slot for thread t, or fails if its epoch has changed.
LockSlot(t, locked, failed) ==
  /\ Locked(t)
  /\ IF slot_epoch[slot[t]] = prior[t]
     THEN /\ slot_epoch' = [slot_epoch EXCEPT ![slot[t]] = Invalid]
          /\ locked
     ELSE /\ UNCHANGED slot_epoch
          /\ failed

PushLock(t) ==
  /\ lpc[t] = "lock"
  /\ LockSlot(t, GoTo(t, "fill"), GoTo(t, "claim"))
  /\ UNCHANGED <<vars, slot_item, tail, pushed, stamp, slot, prior>>

\* The slot's old item must stay: put its epoch back.
Restore(t) ==
  /\ prior[t] # 0
  /\ ~IsSafeToReclaim(ListManager, prior[t])
  /\ slot_epoch' = [slot_epoch EXCEPT ![slot[t]] = prior[t]]
  /\ UNCHANGED <<vars, slot_item>>

\* The slot is empty, or its old item is safe and is destroyed; the slot gets
\* the given item and epoch.
Replace(t, i, e) ==
  /\ prior[t] = 0 \/ IsSafeToReclaim(ListManager, prior[t])
  /\ state' = IF prior[t] # 0 THEN [state EXCEPT ![slot_item[slot[t]]] = "free"] ELSE state
  /\ slot_item' = [slot_item EXCEPT ![slot[t]] = i]
  /\ slot_epoch' = [slot_epoch EXCEPT ![slot[t]] = e]
  /\ UNCHANGED <<epochVars, tableVars, callVars, region, holds, exposed, remover, removal_epoch>>

\* Mutant: Push gives up when the slot's old item must stay.
PushGivesUp(t) ==
  /\ lpc[t] = "fill"
  /\ Restore(t) \/ Replace(t, pushed[t], stamp[t])
  /\ ListReturn(t)
  /\ UNCHANGED tail

PushFill(t) ==
  /\ lpc[t] = "fill"
  /\ \/ Restore(t) /\ GoTo(t, "claim") /\ UNCHANGED <<pushed, stamp, slot, prior>>
     \/ Replace(t, pushed[t], stamp[t]) /\ ListReturn(t)
  /\ UNCHANGED tail

-----------------------------------------------------------------------------
(***************************************************************************)
(* Scavenge: the same for every slot in turn, leaving the slot empty.      *)
(***************************************************************************)

Scavenge(t) ==
  /\ lpc[t] = "idle"
  /\ pc[t] = "idle"
  /\ slot' = [slot EXCEPT ![t] = 0]
  /\ GoTo(t, "scavenge")
  /\ UNCHANGED <<vars, slotVars, pushed, stamp, prior>>

\* Mutant: the loop runs one slot too far.
NextSlotTooFar(t) ==
  IF slot[t] = ItemCount
  THEN ListReturn(t)
  ELSE /\ slot' = [slot EXCEPT ![t] = @ + 1]
       /\ prior' = [prior EXCEPT ![t] = 0]
       /\ GoTo(t, "scavenge")
       /\ UNCHANGED <<pushed, stamp>>

NextSlot(t) ==
  IF slot[t] + 1 = ItemCount
  THEN ListReturn(t)
  ELSE /\ slot' = [slot EXCEPT ![t] = @ + 1]
       /\ prior' = [prior EXCEPT ![t] = 0]
       /\ GoTo(t, "scavenge")
       /\ UNCHANGED <<pushed, stamp>>

ScavengeRead(t) ==
  /\ lpc[t] = "scavenge"
  /\ IF slot_epoch[slot[t]] \in {0, Invalid}
     THEN NextSlot(t)
     ELSE /\ prior' = [prior EXCEPT ![t] = slot_epoch[slot[t]]]
          /\ GoTo(t, "scavenge_lock")
          /\ UNCHANGED <<pushed, stamp, slot>>
  /\ UNCHANGED <<vars, slotVars>>

ScavengeLock(t) ==
  /\ lpc[t] = "scavenge_lock"
  /\ LockSlot(t, GoTo(t, "reset") /\ UNCHANGED <<pushed, stamp, slot, prior>>, NextSlot(t))
  /\ UNCHANGED <<vars, slot_item, tail>>

ScavengeReset(t) ==
  /\ lpc[t] = "reset"
  /\ Restore(t) \/ Replace(t, NoItem, 0)
  /\ NextSlot(t)
  /\ UNCHANGED tail

\* Uninitialize() and a later Initialize(): every item left is destroyed.  The
\* caller makes sure that the list is not in use.
Uninitialize ==
  /\ \A t \in Threads : lpc[t] = "idle" /\ pc[t] = "idle" /\ ListManager \notin region[t]
  /\ \E s \in RingSlots : slot_item[s] # NoItem
  /\ state' = [i \in Items |-> IF \E s \in RingSlots : slot_item[s] = i
                               THEN "free" ELSE state[i]]
  /\ slot_item' = [s \in RingSlots |-> NoItem]
  /\ slot_epoch' = [s \in RingSlots |-> 0]
  /\ tail' = 0
  /\ UNCHANGED <<epochVars, tableVars, callVars, region, holds, exposed, remover,
                 removal_epoch, listCallVars>>

-----------------------------------------------------------------------------
\* The client of the list, between calls of the list: it enters and leaves the
\* region, follows and unlinks items, and (DescriptorPool) advances the epoch.
Client(t) ==
  /\ lpc[t] = "idle"
  /\ \/ \E m \in Managers :
          Protect(t, m) \/ IsProtected(t, m) \/ Unprotect(t, m) \/ BumpCurrentEpoch(t, m)
     \/ \E i \in Items : Access(t, i) \/ Unlink(t, i)
  /\ UNCHANGED <<slotVars, listCallVars>>

\* A call of the manager goes on, whoever made it.
ManagerCall(t) ==
  /\ ReserveEntry(t) \/ Publish(t) \/ DrainStoreBuffer(t) \/ ScanEntry(t) \/ StoreSafeEpoch(t)
  /\ UNCHANGED <<slotVars, listCallVars>>

ListStep(t) ==
  \/ \E i \in Items : PushStart(t, i)
  \/ PushClaim(t) \/ PushBump(t) \/ PushRead(t) \/ PushLock(t) \/ PushFill(t)
  \/ Scavenge(t) \/ ScavengeRead(t) \/ ScavengeLock(t) \/ ScavengeReset(t)

Reuse(i) == Link(i) /\ UNCHANGED <<slotVars, listCallVars>>

ListNext ==
  \/ \E t \in Threads : Client(t) \/ ManagerCall(t) \/ ListStep(t)
  \/ \E i \in Items : Reuse(i)
  \/ Uninitialize

ListSpec == ListInit /\ [][ListNext]_listVars

-----------------------------------------------------------------------------
ListTypeOK ==
  /\ TypeOK
  /\ slot_epoch \in [RingSlots -> Nat \cup {Invalid}]
  /\ slot_item \in [RingSlots -> Items \cup {NoItem}]
  /\ tail \in RingSlots
  /\ lpc \in [Threads -> {"idle", "claim", "bump", "read", "lock", "fill",
                          "scavenge", "scavenge_lock", "reset"}]
  /\ pushed \in [Threads -> Items \cup {NoItem}]
  /\ stamp \in [Threads -> Nat]
  /\ slot \in [Threads -> RingSlots]
  /\ prior \in [Threads -> Nat \cup {Invalid}]

\* "the item will be stamped with an epoch and will not be reclaimed until the
\* EpochManager confirms that no threads can ever access the item again"
\* (garbage_list.h, Push): every step of the list is a step EpochManager's
\* protocol allows its clients.  The epoch a slot shows when it is locked must
\* therefore be that of the item then in it, although the item may have been
\* replaced since the slot was read.
FollowsEpochProtocol == Spec

\* Each item pushed is destroyed exactly once (garbage_list_test.cc, Smoke): a
\* retired item is waiting in exactly one place, whatever the races for a slot,
\* and no other item is waiting anywhere, so none is lost or destroyed twice.
WaitsInOnePlace ==
  \A i \in Items : Cardinality({s \in RingSlots : slot_item[s] = i}) +
                   Cardinality({t \in Threads : pushed[t] = i})
                     = IF state[i] = "retired" THEN 1 ELSE 0

\* The invalid epoch is a lock: a locked slot has exactly one thread working on
\* it, and a thread at work on a slot still has it locked.
SlotLockIsExclusive ==
  \A s \in RingSlots :
    Cardinality({t \in Threads : lpc[t] \in {"fill", "reset"} /\ slot[t] = s})
      = IF slot_epoch[s] = Invalid THEN 1 ELSE 0

=============================================================================
