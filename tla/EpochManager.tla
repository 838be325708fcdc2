---------------------------- MODULE EpochManager ----------------------------
(***************************************************************************)
(* Epoch-based reclamation: EpochManager and MinEpochTable of              *)
(* src/common/epoch.{h,cc}, with the clients that rely on them.            *)
(*                                                                         *)
(* A step of this module is one access of a thread to shared memory; what  *)
(* a thread does between two such accesses is folded into the step.        *)
(*                                                                         *)
(* The clients are abstracted to items.  An item is linked (reachable from *)
(* a data structure), unlinked (its remover has not stamped it yet),       *)
(* retired (stamped with a removal epoch) or free.  A thread in the        *)
(* protected region of an item's manager may take a reference to a linked  *)
(* item and keeps it until it leaves the region.                           *)
(***************************************************************************)
EXTENDS Integers, FiniteSets

CONSTANTS
  Threads,         \* threads of the process
  Managers,        \* EpochManager instances of the process
  Items,           \* client objects that are removed and reclaimed
  Home,            \* [Items -> Managers]: the manager that guards an item
  Size,            \* MinEpochTable::size_
  StartIndex,      \* [Threads -> Nat]: Murmur3_64 of the thread id
  StoreBuffering,  \* subset of {"Protect", "Unprotect"}: the functions whose store to
                   \* the entry may be delayed by the processor (x86-TSO)
  MaxEpoch,        \* bound: current_epoch_ is not advanced past this value
  NoThread, NoEntry

ASSUME SizeAssumption == Size \in Nat \ {0}
ASSUME HomeAssumption == Home \in [Items -> Managers]
ASSUME StartIndexAssumption == StartIndex \in [Threads -> Nat]
ASSUME FlagAssumption == StoreBuffering \subseteq {"Protect", "Unprotect"}
ASSUME MaxEpochAssumption == MaxEpoch \in Nat
ASSUME NoneAssumption == NoThread \notin Threads /\ NoEntry \notin Managers \X (0 .. Size - 1)

Slots == 0 .. Size - 1
Entries == Managers \X Slots

VARIABLES
  current_epoch,    \* [Managers -> Nat]
  safe_epoch,       \* [Managers -> Nat]  safe_to_reclaim_epoch_
  thread_id,        \* [Entries -> Threads \cup {NoThread}]
  protected_epoch,  \* [Entries -> Nat]  what other threads see; 0: unprotected
  tls,              \* [Threads -> Entries \cup {NoEntry}]
  store_buffer,     \* [Threads -> Int]  a protected_epoch store in flight
  pc,               \* where each thread is in a call of the manager
  mgr,              \* the manager each thread is calling
  epoch,            \* the local current_epoch / oldest_call of that call
  index,            \* the loop counter of that call
  region,           \* [Threads -> SUBSET Managers]: between Protect and Unprotect
  holds,            \* [Threads -> SUBSET Items]: references the thread may follow
  exposed,          \* history, [Threads -> SUBSET Items]: references to items that were
                    \* retired while the store of the thread's Protect() was in flight
  state,            \* [Items -> {"linked", "unlinked", "retired", "free"}]
  remover,          \* [Items -> Threads \cup {NoThread}]
  removal_epoch     \* [Items -> Nat]

tableVars  == <<thread_id, protected_epoch, tls, store_buffer>>
epochVars  == <<current_epoch, safe_epoch>>
callVars   == <<pc, mgr, epoch, index>>
clientVars == <<region, holds, exposed, state, remover, removal_epoch>>
vars == <<current_epoch, safe_epoch, thread_id, protected_epoch, tls,
          store_buffer, pc, mgr, epoch, index, region, holds, exposed, state,
          remover, removal_epoch>>

NoStore == -1

PCs == {"idle", "lookup", "reserve", "publish", "scan", "store"}

(***************************************************************************)
(* The constructors and Initialize(): epoch 1, nothing safe to reclaim,    *)
(* every entry unlocked; thread_local pointers start out null.             *)
(***************************************************************************)
Init ==
  /\ current_epoch = [m \in Managers |-> 1]
  /\ safe_epoch = [m \in Managers |-> 0]
  /\ thread_id = [e \in Entries |-> NoThread]
  /\ protected_epoch = [e \in Entries |-> 0]
  /\ tls = [t \in Threads |-> NoEntry]
  /\ store_buffer = [t \in Threads |-> NoStore]
  /\ pc = [t \in Threads |-> "idle"]
  /\ mgr \in [Threads -> Managers]
  /\ epoch = [t \in Threads |-> 0]
  /\ index = [t \in Threads |-> 0]
  /\ region = [t \in Threads |-> {}]
  /\ holds = [t \in Threads |-> {}]
  /\ exposed = [t \in Threads |-> {}]
  /\ state = [i \in Items |-> "linked"]
  /\ remover = [i \in Items |-> NoThread]
  /\ removal_epoch = [i \in Items |-> 0]

-----------------------------------------------------------------------------
(***************************************************************************)
(* MinEpochTable.                                                          *)
(***************************************************************************)

\* GetEntryForThread: the entry is found through one thread_local pointer,
\* which is local to the function and so shared by all the tables.
EntryCall(t, m, found, missing) ==
  /\ mgr' = [mgr EXCEPT ![t] = m]
  /\ index' = [index EXCEPT ![t] = 0]
  /\ pc' = [pc EXCEPT ![t] = IF tls[t] # NoEntry THEN found ELSE missing]

\* A call returns: its local variables are gone.
Return(t) ==
  /\ pc' = [pc EXCEPT ![t] = "idle"]
  /\ epoch' = [epoch EXCEPT ![t] = 0]
  /\ index' = [index EXCEPT ![t] = 0]
  /\ UNCHANGED mgr

\* A locked instruction of t, and a store that is not delayed, waits for t's
\* store buffer; so does a second store, for want of a longer buffer.
Locked(t) == store_buffer[t] = NoStore

\* A store to the calling thread's own entry.  The code orders both stores with
\* release semantics, so on x86-TSO they may stay in the thread's store buffer
\* after the call has returned.
StoreProtected(t, e, function) ==
  /\ Locked(t)
  /\ IF function \in StoreBuffering
     THEN /\ store_buffer' = [store_buffer EXCEPT ![t] = e]
          /\ UNCHANGED protected_epoch
     ELSE /\ protected_epoch' = [protected_epoch EXCEPT ![tls[t]] = e]
          /\ UNCHANGED store_buffer

\* The hardware writes the buffered store to the cache.
DrainStoreBuffer(t) ==
  /\ store_buffer[t] # NoStore
  /\ protected_epoch' = [protected_epoch EXCEPT ![tls[t]] = store_buffer[t]]
  /\ store_buffer' = [store_buffer EXCEPT ![t] = NoStore]
  /\ UNCHANGED <<epochVars, thread_id, tls, callVars, clientVars>>

\* EpochManager::Protect(): the epoch is read before the entry is looked up.
Protect(t, m) ==
  /\ pc[t] = "idle"
  /\ m \notin region[t]
  /\ epoch' = [epoch EXCEPT ![t] = current_epoch[m]]
  /\ EntryCall(t, m, "publish", "reserve")
  /\ UNCHANGED <<epochVars, tableVars, clientVars>>

\* MinEpochTable::IsProtected() of a thread that has no entry yet reserves one.
IsProtected(t, m) ==
  /\ pc[t] = "idle"
  /\ tls[t] = NoEntry
  /\ EntryCall(t, m, "idle", "lookup")
  /\ UNCHANGED <<epoch, epochVars, tableVars, clientVars>>

\* Mutant of ReserveEntry: the result of the CAS is ignored.
ReserveIgnoringCAS(t) ==
  LET e == <<mgr[t], (StartIndex[t] + index[t]) % Size>> IN
  /\ pc[t] \in {"reserve", "lookup"}
  /\ thread_id' = [thread_id EXCEPT ![e] = IF @ = NoThread THEN t ELSE @]
  /\ tls' = [tls EXCEPT ![t] = e]
  /\ pc' = [pc EXCEPT ![t] = IF @ = "reserve" THEN "publish" ELSE "idle"]
  /\ index' = [index EXCEPT ![t] = 0]
  /\ UNCHANGED <<epochVars, protected_epoch, store_buffer, mgr, epoch, clientVars>>

\* Mutant of ReserveEntry: the search stops at the end of the table instead of
\* wrapping round, and starts again.
ReserveNotWrapping(t) ==
  LET e == <<mgr[t], StartIndex[t] + index[t]>> IN
  /\ pc[t] \in {"reserve", "lookup"}
  /\ IF thread_id[e] = NoThread
     THEN /\ thread_id' = [thread_id EXCEPT ![e] = t]
          /\ tls' = [tls EXCEPT ![t] = e]
          /\ pc' = [pc EXCEPT ![t] = IF @ = "reserve" THEN "publish" ELSE "idle"]
          /\ index' = [index EXCEPT ![t] = 0]
     ELSE /\ index' = [index EXCEPT ![t] = IF e[2] + 1 = Size THEN 0 ELSE @ + 1]
          /\ UNCHANGED <<thread_id, tls, pc>>
  /\ UNCHANGED <<epochVars, protected_epoch, store_buffer, mgr, epoch, clientVars>>

\* One probe of ReserveEntry: take the entry if it is free, else look at the
\* next one, from the start index on and round the table for ever.
ReserveEntry(t) ==
  LET e == <<mgr[t], (StartIndex[t] + index[t]) % Size>> IN
  /\ pc[t] \in {"reserve", "lookup"}
  /\ Locked(t)
  /\ IF thread_id[e] = NoThread
     THEN /\ thread_id' = [thread_id EXCEPT ![e] = t]
          /\ tls' = [tls EXCEPT ![t] = e]
          /\ pc' = [pc EXCEPT ![t] = IF @ = "reserve" THEN "publish" ELSE "idle"]
          /\ index' = [index EXCEPT ![t] = 0]
     ELSE /\ index' = [index EXCEPT ![t] = (@ + 1) % Size]
          /\ UNCHANGED <<thread_id, tls, pc>>
  /\ UNCHANGED <<epochVars, protected_epoch, store_buffer, mgr, epoch, clientVars>>

\* The end of MinEpochTable::Protect(): from here on t is in the region.
Publish(t) ==
  /\ pc[t] = "publish"
  /\ StoreProtected(t, epoch[t], "Protect")
  /\ Return(t)
  /\ region' = [region EXCEPT ![t] = @ \cup {mgr[t]}]
  /\ UNCHANGED <<epochVars, thread_id, tls, holds, exposed, state, remover, removal_epoch>>

\* EpochManager::Unprotect(): the thread gives up its references to what m
\* guards and clears its entry (last_unprotected_epoch is never read).
Unprotect(t, m) ==
  /\ pc[t] = "idle"
  /\ m \in region[t]
  /\ StoreProtected(t, 0, "Unprotect")
  /\ region' = [region EXCEPT ![t] = @ \ {m}]
  /\ holds' = [holds EXCEPT ![t] = {i \in @ : Home[i] # m}]
  /\ exposed' = [exposed EXCEPT ![t] = {i \in @ : Home[i] # m}]
  /\ UNCHANGED <<epochVars, thread_id, tls, callVars, state, remover, removal_epoch>>

-----------------------------------------------------------------------------
(***************************************************************************)
(* BumpCurrentEpoch(): advance the epoch, then look at the table one entry *)
(* at a time and store the new safe epoch.                                 *)
(***************************************************************************)

\* Mutant: the scan starts from the new epoch, not from the one fetch_add returns.
BumpFromNewEpoch(t, m) ==
  /\ pc[t] = "idle"
  /\ current_epoch[m] < MaxEpoch
  /\ current_epoch' = [current_epoch EXCEPT ![m] = @ + 1]
  /\ mgr' = [mgr EXCEPT ![t] = m]
  /\ epoch' = [epoch EXCEPT ![t] = current_epoch[m] + 1]
  /\ index' = [index EXCEPT ![t] = 0]
  /\ pc' = [pc EXCEPT ![t] = "scan"]
  /\ UNCHANGED <<safe_epoch, tableVars, clientVars>>

BumpCurrentEpoch(t, m) ==
  /\ pc[t] = "idle"
  /\ Locked(t)
  /\ current_epoch[m] < MaxEpoch
  /\ current_epoch' = [current_epoch EXCEPT ![m] = @ + 1]
  /\ mgr' = [mgr EXCEPT ![t] = m]
  /\ epoch' = [epoch EXCEPT ![t] = current_epoch[m]]
  /\ index' = [index EXCEPT ![t] = 0]
  /\ pc' = [pc EXCEPT ![t] = "scan"]
  /\ UNCHANGED <<safe_epoch, tableVars, clientVars>>

\* Mutant: an unprotected entry counts as the oldest epoch of all.
ScanUnprotectedToo(t) ==
  LET seen == protected_epoch[<<mgr[t], index[t]>>] IN
  /\ pc[t] = "scan"
  /\ epoch' = [epoch EXCEPT ![t] = IF seen < @ THEN seen ELSE @]
  /\ index' = [index EXCEPT ![t] = @ + 1]
  /\ pc' = [pc EXCEPT ![t] = IF index[t] + 1 = Size THEN "store" ELSE "scan"]
  /\ UNCHANGED <<epochVars, tableVars, mgr, clientVars>>

ScanEntry(t) ==
  LET seen == protected_epoch[<<mgr[t], index[t]>>] IN
  /\ pc[t] = "scan"
  /\ epoch' = [epoch EXCEPT ![t] = IF seen # 0 /\ seen < @ THEN seen ELSE @]
  /\ index' = [index EXCEPT ![t] = @ + 1]
  /\ pc' = [pc EXCEPT ![t] = IF index[t] + 1 = Size THEN "store" ELSE "scan"]
  /\ UNCHANGED <<epochVars, tableVars, mgr, clientVars>>

\* Mutant: the oldest protected epoch itself is declared safe.
StoreOldestCall(t) ==
  /\ pc[t] = "store"
  /\ safe_epoch' = [safe_epoch EXCEPT ![mgr[t]] = epoch[t]]
  /\ Return(t)
  /\ UNCHANGED <<current_epoch, tableVars, clientVars>>

StoreSafeEpoch(t) ==
  /\ pc[t] = "store"
  /\ safe_epoch' = [safe_epoch EXCEPT ![mgr[t]] = epoch[t] - 1]
  /\ Return(t)
  /\ UNCHANGED <<current_epoch, tableVars, clientVars>>

IsSafeToReclaim(m, e) == e <= safe_epoch[m]

-----------------------------------------------------------------------------
(***************************************************************************)
(* What the clients of the manager do.                                     *)
(***************************************************************************)

\* A protected thread reads a pointer to an item that is still linked.
Access(t, i) ==
  /\ pc[t] = "idle"
  /\ Home[i] \in region[t]
  /\ state[i] = "linked"
  /\ i \notin holds[t]
  /\ holds' = [holds EXCEPT ![t] = @ \cup {i}]
  /\ UNCHANGED <<epochVars, tableVars, callVars, region, exposed, state, remover, removal_epoch>>

\* A compare-and-swap of t takes the item out of its data structure.
Unlink(t, i) ==
  /\ pc[t] = "idle"
  /\ Locked(t)
  /\ state[i] = "linked"
  /\ state' = [state EXCEPT ![i] = "unlinked"]
  /\ remover' = [remover EXCEPT ![i] = t]
  /\ UNCHANGED <<epochVars, tableVars, callVars, region, holds, exposed, removal_epoch>>

\* GetCurrentEpoch(), the first statement of GarbageList::Push().
Retire(t, i) ==
  /\ pc[t] = "idle"
  /\ state[i] = "unlinked"
  /\ remover[i] = t
  /\ removal_epoch' = [removal_epoch EXCEPT ![i] = current_epoch[Home[i]]]
  /\ state' = [state EXCEPT ![i] = "retired"]
  /\ exposed' = [u \in Threads |-> IF i \in holds[u] /\ ~Locked(u)
                                  THEN exposed[u] \cup {i} ELSE exposed[u]]
  /\ UNCHANGED <<epochVars, tableVars, callVars, region, holds, remover>>

\* The destroy callback, once the manager says the removal epoch is safe.
Reclaim(i) ==
  /\ state[i] = "retired"
  /\ IsSafeToReclaim(Home[i], removal_epoch[i])
  /\ state' = [state EXCEPT ![i] = "free"]
  /\ UNCHANGED <<epochVars, tableVars, callVars, region, holds, exposed, remover, removal_epoch>>

\* GarbageList::Uninitialize() destroys what is left without asking the
\* manager; its caller promises that no thread is in the region.
ReclaimAll(m) ==
  /\ \A t \in Threads : m \notin region[t]
  /\ \E i \in Items : Home[i] = m /\ state[i] = "retired"
  /\ state' = [i \in Items |-> IF Home[i] = m /\ state[i] = "retired"
                               THEN "free" ELSE state[i]]
  /\ UNCHANGED <<epochVars, tableVars, callVars, region, holds, exposed, remover, removal_epoch>>

\* The memory is used for a new object, which becomes reachable.
Link(i) ==
  /\ state[i] = "free"
  /\ state' = [state EXCEPT ![i] = "linked"]
  /\ remover' = [remover EXCEPT ![i] = NoThread]
  /\ removal_epoch' = [removal_epoch EXCEPT ![i] = 0]
  /\ UNCHANGED <<epochVars, tableVars, callVars, region, holds, exposed>>

-----------------------------------------------------------------------------
ManagerStep(t) ==
  \/ \E m \in Managers : Protect(t, m) \/ IsProtected(t, m) \/ Unprotect(t, m)
  \/ ReserveEntry(t)
  \/ Publish(t)
  \/ DrainStoreBuffer(t)
  \/ \E m \in Managers : BumpCurrentEpoch(t, m)
  \/ ScanEntry(t)
  \/ StoreSafeEpoch(t)

ClientStep(t) == \E i \in Items : Access(t, i) \/ Unlink(t, i) \/ Retire(t, i)

Next ==
  \/ \E t \in Threads : ManagerStep(t) \/ ClientStep(t)
  \/ \E i \in Items : Reclaim(i) \/ Link(i)
  \/ \E m \in Managers : ReclaimAll(m)

Spec == Init /\ [][Next]_vars

\* A thread that is looking for an entry keeps running.
FairSpec == Spec /\ \A t \in Threads : WF_vars(ReserveEntry(t))

-----------------------------------------------------------------------------
TypeOK ==
  /\ current_epoch \in [Managers -> Nat]
  /\ safe_epoch \in [Managers -> Nat]
  /\ thread_id \in [Entries -> Threads \cup {NoThread}]
  /\ protected_epoch \in [Entries -> Nat]
  /\ tls \in [Threads -> Entries \cup {NoEntry}]
  /\ store_buffer \in [Threads -> Nat \cup {NoStore}]
  /\ pc \in [Threads -> PCs]
  /\ mgr \in [Threads -> Managers]
  /\ epoch \in [Threads -> Nat]
  /\ index \in [Threads -> 0 .. Size]
  /\ region \in [Threads -> SUBSET Managers]
  /\ holds \in [Threads -> SUBSET Items]
  /\ exposed \in [Threads -> SUBSET Items]
  /\ state \in [Items -> {"linked", "unlinked", "retired", "free"}]
  /\ remover \in [Items -> Threads \cup {NoThread}]
  /\ removal_epoch \in [Items -> Nat]

\* "accesses to protected data structure items are guaranteed to be safe, even
\* if the item is concurrently removed from the structure" (epoch.h, Protect),
\* from the moment the protection can be seen: no item is freed while a thread
\* that reached it in the protected region has not left the region, unless the
\* item was retired before the thread's own store to its entry reached memory.
\* A release store (epoch.cc:214) leaves that window open.
VisibleProtectionHolds ==
  \A t \in Threads : \A i \in holds[t] \ exposed[t] : state[i] # "free"

\* "The returned value will never be equal to or greater than the global epoch
\* at any point, ever" (epoch.cc, ComputeNewSafeToReclaimEpoch): neither the
\* safe epoch nor the minimum a scan is about to store reaches the epoch that a
\* removal may still be stamped with.
SafeBelowCurrent ==
  /\ \A m \in Managers : safe_epoch[m] < current_epoch[m]
  /\ \A t \in Threads : pc[t] \in {"scan", "store"} => epoch[t] < current_epoch[mgr[t]]

\* ReserveEntry locks an entry with a CAS on thread_id so that no two threads
\* ever share an entry: a thread's Unprotect cannot erase another thread's
\* protection.
EntriesAreExclusive ==
  \A t, u \in Threads : t # u => tls[t] = NoEntry \/ tls[t] # tls[u]

\* The table "supports precisely size distinct threads" (epoch.cc, Initialize):
\* when there are no more threads than entries, a call that has to reserve an
\* entry does not spin for ever, whatever the start indices and the races.
ReserveTerminates ==
  \A t \in Threads : pc[t] \in {"reserve", "lookup"} ~> pc[t] \notin {"reserve", "lookup"}

=============================================================================
