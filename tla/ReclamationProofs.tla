------------------------- MODULE ReclamationProofs --------------------------
(***************************************************************************)
(* Proofs about EpochManager, for any number of threads, entries, items    *)
(* and epochs, and about GarbageList on top of it, for any ring as well.   *)
(*                                                                         *)
(* VisibleProtectionHolds is not inductive.  What makes it so is           *)
(* HeldIsGuarded: if a protected thread holds an item that was retired     *)
(* when its store had reached its entry, then the removal epoch is above   *)
(* the safe epoch, at least the epoch the thread published, and at least   *)
(* the minimum of every scan that has already passed the thread's entry; a *)
(* scan that has not passed it yet will still meet the published epoch.    *)
(***************************************************************************)
EXTENDS GarbageList, FiniteSetTheorems, TLAPS

\* The thread found through tls is the one that locked the entry.
TableInv ==
  /\ \A t \in Threads : tls[t] # NoEntry => thread_id[tls[t]] = t
  /\ \A t \in Threads : pc[t] = "publish" => tls[t] # NoEntry
  /\ \A t \in Threads : pc[t] \in {"reserve", "lookup"} => tls[t] = NoEntry
  /\ \A t \in Threads : region[t] # {} => tls[t] # NoEntry

\* Epochs start at 1 and a scan runs over the entries in order.
ClockInv ==
  /\ \A m \in Managers : current_epoch[m] >= 1
  /\ \A t \in Threads : pc[t] \in {"reserve", "publish", "scan", "store"} => epoch[t] >= 1
  /\ \A t \in Threads : pc[t] = "scan" => index[t] < Size
  /\ \A t \in Threads : pc[t] = "store" => index[t] = Size
  /\ SafeBelowCurrent

\* A thread in the region shows an epoch that has been current, once its store
\* has reached its entry.
RegionIsPublished ==
  /\ \A t \in Threads : pc[t] \in {"reserve", "publish"} =>
       epoch[t] <= current_epoch[mgr[t]] /\ mgr[t] \notin region[t]
  /\ \A t \in Threads : \A m \in region[t] : store_buffer[t] = NoStore =>
       1 <= protected_epoch[tls[t]] /\ protected_epoch[tls[t]] <= current_epoch[m]

\* Scan u has passed entry e.
Passed(u, e) == pc[u] \in {"scan", "store"} /\ index[u] > e[2]

Guarded(t, i) ==
  /\ state[i] # "free"
  /\ state[i] = "retired" =>
       /\ store_buffer[t] = NoStore
       /\ safe_epoch[Home[i]] < removal_epoch[i]
       /\ protected_epoch[tls[t]] <= removal_epoch[i]
       /\ \A u \in Threads : Passed(u, tls[t]) => epoch[u] <= removal_epoch[i]

HeldIsGuarded == \A t \in Threads : \A i \in holds[t] \ exposed[t] : Guarded(t, i)

\* References are given up when the thread leaves the region.
HeldInRegion == \A t \in Threads : \A i \in holds[t] : Home[i] \in region[t]

\* The setting of the theorem: the process has one manager.
OneManager == \A m, n \in Managers : m = n

\* What a store in flight will show: that the thread has left the region, or
\* the epoch with which it entered.
BufferedIsCurrent == \A t \in Threads : store_buffer[t] # NoStore =>
  \/ store_buffer[t] = 0 /\ region[t] = {}
  \/ /\ store_buffer[t] >= 1 /\ region[t] # {}
     /\ \A m \in region[t] : store_buffer[t] <= current_epoch[m]

-----------------------------------------------------------------------------
(***************************************************************************)
(* Types, exclusive entries and the clock: whatever the store strength and *)
(* the number of managers.                                                 *)
(***************************************************************************)
BaseInv == TypeOK /\ TableInv /\ ClockInv

\* The probe of ReserveEntry stays inside the table (index & (size_ - 1)).
LEMMA ProbeInTable == ASSUME NEW k \in Nat PROVE k % Size \in Slots
  BY SizeAssumption, SMT DEF Slots

\* So the entry a probe looks at is one of the table, and so is the next one.
LEMMA ProbeEntry ==
  ASSUME TypeOK, NEW t \in Threads
  PROVE  /\ <<mgr[t], (StartIndex[t] + index[t]) % Size>> \in Entries
         /\ (index[t] + 1) % Size \in 0 .. Size
<1>1. index[t] \in Nat /\ mgr[t] \in Managers /\ StartIndex[t] \in Nat
  BY SizeAssumption, StartIndexAssumption DEF TypeOK
<1>2. StartIndex[t] + index[t] \in Nat /\ index[t] + 1 \in Nat
  BY <1>1
<1>3. (StartIndex[t] + index[t]) % Size \in Slots /\ (index[t] + 1) % Size \in Slots
  BY <1>2, ProbeInTable
<1>4. QED
  BY <1>1, <1>3, SizeAssumption DEF Entries, Slots

\* The constructors establish the base invariant.
LEMMA BaseInvInit == Init => BaseInv
  BY SizeAssumption DEF Init, BaseInv, TypeOK, TableInv, ClockInv,
     SafeBelowCurrent, Entries, Slots, PCs, NoStore

\* Every step keeps the variables in their types.
LEMMA TypeStep == BaseInv /\ [Next]_vars => TypeOK'
<1> SUFFICES ASSUME BaseInv, [Next]_vars PROVE TypeOK'
  OBVIOUS
<1> USE SizeAssumption, HomeAssumption, StartIndexAssumption, NoneAssumption
    DEF BaseInv, TypeOK, PCs, NoStore, Entries, Slots,
        epochVars, tableVars, callVars, clientVars
<1>1. ASSUME NEW t \in Threads, NEW m \in Managers, Protect(t, m) PROVE TypeOK'
  BY <1>1 DEF Protect, EntryCall
<1>2. ASSUME NEW t \in Threads, NEW m \in Managers, IsProtected(t, m) PROVE TypeOK'
  BY <1>2 DEF IsProtected, EntryCall
<1>3. ASSUME NEW t \in Threads, NEW m \in Managers, Unprotect(t, m) PROVE TypeOK'
  <2> HIDE DEF Entries
  <2>1. CASE "Unprotect" \in StoreBuffering
    BY <1>3, <2>1 DEF Unprotect, StoreProtected
  <2>2. CASE "Unprotect" \notin StoreBuffering
    BY <1>3, <2>2, SMTT(40) DEF Unprotect, StoreProtected
  <2>3. QED
    BY <2>1, <2>2
<1>4. ASSUME NEW t \in Threads, ReserveEntry(t) PROVE TypeOK'
  <2> DEFINE e == <<mgr[t], (StartIndex[t] + index[t]) % Size>>
             n == (index[t] + 1) % Size
  <2>1. e \in Entries /\ n \in 0 .. Size
    BY ProbeEntry
  <2> HIDE DEF BaseInv, TypeOK, PCs, NoStore, Entries, Slots
  <2>2. \/ /\ thread_id' = [thread_id EXCEPT ![e] = t]
           /\ tls' = [tls EXCEPT ![t] = e]
           /\ pc' = [pc EXCEPT ![t] = IF pc[t] = "reserve" THEN "publish" ELSE "idle"]
           /\ index' = [index EXCEPT ![t] = 0]
        \/ /\ thread_id' = thread_id /\ tls' = tls /\ pc' = pc
           /\ index' = [index EXCEPT ![t] = n]
    BY <1>4 DEF ReserveEntry
  <2>3. UNCHANGED <<epochVars, protected_epoch, store_buffer, mgr, epoch, clientVars>>
    BY <1>4 DEF ReserveEntry
  <2> HIDE DEF e, n
  <2>4. QED
    BY <2>1, <2>2, <2>3, SMTT(40) DEF BaseInv, TypeOK, PCs
<1>5. ASSUME NEW t \in Threads, Publish(t) PROVE TypeOK'
  <2> HIDE DEF Entries
  <2>1. CASE "Protect" \in StoreBuffering
    BY <1>5, <2>1 DEF Publish, StoreProtected, Return
  <2>2. CASE "Protect" \notin StoreBuffering
    BY <1>5, <2>2 DEF Publish, StoreProtected, Return
  <2>3. QED
    BY <2>1, <2>2
<1>6. ASSUME NEW t \in Threads, DrainStoreBuffer(t) PROVE TypeOK'
  BY <1>6 DEF DrainStoreBuffer
<1>7. ASSUME NEW t \in Threads, NEW m \in Managers, BumpCurrentEpoch(t, m) PROVE TypeOK'
  BY <1>7 DEF BumpCurrentEpoch
<1>8. ASSUME NEW t \in Threads, ScanEntry(t) PROVE TypeOK'
  <2>1. <<mgr[t], index[t]>> \in Entries
    BY <1>8 DEF ScanEntry, ClockInv
  <2>2. QED
    BY <1>8, <2>1 DEF ScanEntry, ClockInv
<1>9. ASSUME NEW t \in Threads, StoreSafeEpoch(t) PROVE TypeOK'
  BY <1>9 DEF StoreSafeEpoch, Return, ClockInv
<1>10. ASSUME NEW t \in Threads, NEW i \in Items, Access(t, i) PROVE TypeOK'
  BY <1>10 DEF Access
<1>11. ASSUME NEW t \in Threads, NEW i \in Items, Unlink(t, i) PROVE TypeOK'
  BY <1>11 DEF Unlink
<1>12. ASSUME NEW t \in Threads, NEW i \in Items, Retire(t, i) PROVE TypeOK'
  BY <1>12 DEF Retire
<1>13. ASSUME NEW i \in Items, Reclaim(i) PROVE TypeOK'
  BY <1>13 DEF Reclaim, IsSafeToReclaim
<1>14. ASSUME NEW m \in Managers, ReclaimAll(m) PROVE TypeOK'
  BY <1>14 DEF ReclaimAll
<1>15. ASSUME NEW i \in Items, Link(i) PROVE TypeOK'
  BY <1>15 DEF Link
<1>16. CASE UNCHANGED vars
  BY <1>16 DEF vars
<1>17. QED
  BY <1>1, <1>2, <1>3, <1>4, <1>5, <1>6, <1>7, <1>8,
     <1>9, <1>10, <1>11, <1>12, <1>13, <1>14, <1>15, <1>16
     DEF Next, ManagerStep, ClientStep

\* Every step keeps the entries exclusive.
LEMMA TableStep == BaseInv /\ [Next]_vars => TableInv'
<1> SUFFICES ASSUME BaseInv, [Next]_vars PROVE TableInv'
  OBVIOUS
<1> USE SizeAssumption, NoneAssumption
    DEF BaseInv, TypeOK, TableInv, Entries, Slots,
        epochVars, tableVars, callVars, clientVars
<1>1. ASSUME NEW t \in Threads, NEW m \in Managers, Protect(t, m) PROVE TableInv'
  BY <1>1 DEF Protect, EntryCall
<1>2. ASSUME NEW t \in Threads, NEW m \in Managers, IsProtected(t, m) PROVE TableInv'
  BY <1>2 DEF IsProtected, EntryCall
<1>3. ASSUME NEW t \in Threads, NEW m \in Managers, Unprotect(t, m) PROVE TableInv'
  BY <1>3 DEF Unprotect, StoreProtected, Locked
<1>4. ASSUME NEW t \in Threads, ReserveEntry(t) PROVE TableInv'
  <2> DEFINE e == <<mgr[t], (StartIndex[t] + index[t]) % Size>>
  <2>1. e \in Entries /\ e # NoEntry
    BY ProbeEntry DEF Entries
  <2> HIDE DEF BaseInv, TypeOK, TableInv, Entries, Slots
  <2>2. CASE thread_id[e] = NoThread
    <3>1. /\ thread_id' = [thread_id EXCEPT ![e] = t]
          /\ tls' = [tls EXCEPT ![t] = e]
          /\ region' = region
          /\ pc' = [pc EXCEPT ![t] = IF pc[t] = "reserve" THEN "publish" ELSE "idle"]
      BY <1>4, <2>2 DEF ReserveEntry
    <3> HIDE DEF e
    <3>2. QED
      BY <2>1, <2>2, <3>1 DEF BaseInv, TypeOK, TableInv
  <2>3. CASE thread_id[e] # NoThread
    BY <1>4, <2>3 DEF ReserveEntry, BaseInv, TypeOK, TableInv
  <2>4. QED
    BY <2>2, <2>3
<1>5. ASSUME NEW t \in Threads, Publish(t) PROVE TableInv'
  BY <1>5 DEF Publish, StoreProtected, Locked, Return
<1>6. ASSUME NEW t \in Threads, DrainStoreBuffer(t) PROVE TableInv'
  BY <1>6 DEF DrainStoreBuffer
<1>7. ASSUME NEW t \in Threads, NEW m \in Managers, BumpCurrentEpoch(t, m) PROVE TableInv'
  BY <1>7 DEF BumpCurrentEpoch
<1>8. ASSUME NEW t \in Threads, ScanEntry(t) PROVE TableInv'
  BY <1>8 DEF ScanEntry
<1>9. ASSUME NEW t \in Threads, StoreSafeEpoch(t) PROVE TableInv'
  BY <1>9 DEF StoreSafeEpoch, Return
<1>10. ASSUME NEW t \in Threads, NEW i \in Items, Access(t, i) PROVE TableInv'
  BY <1>10 DEF Access
<1>11. ASSUME NEW t \in Threads, NEW i \in Items, Unlink(t, i) PROVE TableInv'
  BY <1>11 DEF Unlink
<1>12. ASSUME NEW t \in Threads, NEW i \in Items, Retire(t, i) PROVE TableInv'
  BY <1>12 DEF Retire
<1>13. ASSUME NEW i \in Items, Reclaim(i) PROVE TableInv'
  BY <1>13 DEF Reclaim, IsSafeToReclaim
<1>14. ASSUME NEW m \in Managers, ReclaimAll(m) PROVE TableInv'
  BY <1>14 DEF ReclaimAll
<1>15. ASSUME NEW i \in Items, Link(i) PROVE TableInv'
  BY <1>15 DEF Link
<1>16. CASE UNCHANGED vars
  BY <1>16 DEF vars
<1>17. QED
  BY <1>1, <1>2, <1>3, <1>4, <1>5, <1>6, <1>7, <1>8,
     <1>9, <1>10, <1>11, <1>12, <1>13, <1>14, <1>15, <1>16
     DEF Next, ManagerStep, ClientStep

\* Every step keeps the safe epoch, and what a scan may store, below the clock.
LEMMA ClockStep == BaseInv /\ [Next]_vars => ClockInv'
<1> SUFFICES ASSUME BaseInv, [Next]_vars PROVE ClockInv'
  OBVIOUS
<1> USE SizeAssumption
    DEF BaseInv, TypeOK, ClockInv, SafeBelowCurrent,
        epochVars, tableVars, callVars, clientVars
<1>1. ASSUME NEW t \in Threads, NEW m \in Managers, Protect(t, m) PROVE ClockInv'
  BY <1>1 DEF Protect, EntryCall
<1>2. ASSUME NEW t \in Threads, NEW m \in Managers, IsProtected(t, m) PROVE ClockInv'
  BY <1>2 DEF IsProtected, EntryCall
<1>3. ASSUME NEW t \in Threads, NEW m \in Managers, Unprotect(t, m) PROVE ClockInv'
  BY <1>3 DEF Unprotect, StoreProtected, Locked
<1>4. ASSUME NEW t \in Threads, ReserveEntry(t) PROVE ClockInv'
  BY <1>4 DEF ReserveEntry
<1>5. ASSUME NEW t \in Threads, Publish(t) PROVE ClockInv'
  BY <1>5 DEF Publish, StoreProtected, Locked, Return
<1>6. ASSUME NEW t \in Threads, DrainStoreBuffer(t) PROVE ClockInv'
  BY <1>6 DEF DrainStoreBuffer
<1>7. ASSUME NEW t \in Threads, NEW m \in Managers, BumpCurrentEpoch(t, m) PROVE ClockInv'
  BY <1>7 DEF BumpCurrentEpoch
<1>8. ASSUME NEW t \in Threads, ScanEntry(t) PROVE ClockInv'
  <2> DEFINE seen == protected_epoch[<<mgr[t], index[t]>>]
  <2>1. <<mgr[t], index[t]>> \in Entries
    BY <1>8 DEF ScanEntry, Entries, Slots
  <2>2. seen \in Nat
    BY <2>1
  <2>3. epoch'[t] \in Nat /\ 1 <= epoch'[t] /\ epoch'[t] <= epoch[t]
    BY <1>8, <2>2 DEF ScanEntry
  <2>4. QED
    BY <1>8, <2>3 DEF ScanEntry
<1>9. ASSUME NEW t \in Threads, StoreSafeEpoch(t) PROVE ClockInv'
  BY <1>9 DEF StoreSafeEpoch, Return
<1>10. ASSUME NEW t \in Threads, NEW i \in Items, Access(t, i) PROVE ClockInv'
  BY <1>10 DEF Access
<1>11. ASSUME NEW t \in Threads, NEW i \in Items, Unlink(t, i) PROVE ClockInv'
  BY <1>11 DEF Unlink
<1>12. ASSUME NEW t \in Threads, NEW i \in Items, Retire(t, i) PROVE ClockInv'
  BY <1>12 DEF Retire
<1>13. ASSUME NEW i \in Items, Reclaim(i) PROVE ClockInv'
  BY <1>13 DEF Reclaim, IsSafeToReclaim
<1>14. ASSUME NEW m \in Managers, ReclaimAll(m) PROVE ClockInv'
  BY <1>14 DEF ReclaimAll
<1>15. ASSUME NEW i \in Items, Link(i) PROVE ClockInv'
  BY <1>15 DEF Link
<1>16. CASE UNCHANGED vars
  BY <1>16 DEF vars
<1>17. QED
  BY <1>1, <1>2, <1>3, <1>4, <1>5, <1>6, <1>7, <1>8,
     <1>9, <1>10, <1>11, <1>12, <1>13, <1>14, <1>15, <1>16
     DEF Next, ManagerStep, ClientStep

\* The base invariant is inductive.
THEOREM BaseInvariant == Spec => []BaseInv
<1>1. BaseInv /\ [Next]_vars => BaseInv'
  BY TypeStep, TableStep, ClockStep DEF BaseInv
<1>2. QED
  BY <1>1, BaseInvInit, PTL DEF Spec

\* Type correctness of the manager and its clients.
THEOREM TypeCorrect == Spec => []TypeOK
<1>1. BaseInv => TypeOK
  BY DEF BaseInv
<1>2. QED
  BY <1>1, BaseInvariant, PTL

\* The safe epoch never reaches the global epoch.
THEOREM SafeEpochLags == Spec => []SafeBelowCurrent
<1>1. BaseInv => SafeBelowCurrent
  BY DEF BaseInv, ClockInv
<1>2. QED
  BY <1>1, BaseInvariant, PTL

\* No two threads ever own the same entry.
THEOREM ExclusiveEntries == Spec => []EntriesAreExclusive
<1>1. BaseInv => EntriesAreExclusive
  BY DEF BaseInv, TableInv, EntriesAreExclusive
<1>2. QED
  BY <1>1, BaseInvariant, PTL

-----------------------------------------------------------------------------
(***************************************************************************)
(* Reclamation is safe for a thread whose protection can be seen, when the *)
(* process has a single manager, whichever stores the processor delays.    *)
(***************************************************************************)
SafeInv == BaseInv /\ BufferedIsCurrent /\ RegionIsPublished /\ HeldInRegion /\ HeldIsGuarded

\* A store in flight belongs to the last call of Protect() or Unprotect().
LEMMA BufferedStep ==
  ASSUME OneManager
  PROVE  SafeInv /\ [Next]_vars => BufferedIsCurrent'
<1> SUFFICES ASSUME SafeInv, [Next]_vars PROVE BufferedIsCurrent'
  OBVIOUS
<1> USE DEF SafeInv, BaseInv, TypeOK, ClockInv, BufferedIsCurrent, RegionIsPublished, OneManager, epochVars, tableVars, callVars, clientVars
<1>1. ASSUME NEW t \in Threads, NEW m \in Managers, Protect(t, m) PROVE BufferedIsCurrent'
  BY <1>1 DEF Protect, EntryCall
<1>2. ASSUME NEW t \in Threads, NEW m \in Managers, IsProtected(t, m) PROVE BufferedIsCurrent'
  BY <1>2 DEF IsProtected, EntryCall
<1>3. ASSUME NEW t \in Threads, NEW m \in Managers, Unprotect(t, m) PROVE BufferedIsCurrent'
  BY <1>3 DEF Unprotect, StoreProtected, Locked
<1>4. ASSUME NEW t \in Threads, ReserveEntry(t) PROVE BufferedIsCurrent'
  BY <1>4 DEF ReserveEntry
<1>5. ASSUME NEW t \in Threads, Publish(t) PROVE BufferedIsCurrent'
  BY <1>5 DEF Publish, StoreProtected, Locked, Return
<1>6. ASSUME NEW t \in Threads, DrainStoreBuffer(t) PROVE BufferedIsCurrent'
  BY <1>6 DEF DrainStoreBuffer
<1>7. ASSUME NEW t \in Threads, NEW m \in Managers, BumpCurrentEpoch(t, m) PROVE BufferedIsCurrent'
  BY <1>7 DEF BumpCurrentEpoch
<1>8. ASSUME NEW t \in Threads, ScanEntry(t) PROVE BufferedIsCurrent'
  BY <1>8 DEF ScanEntry
<1>9. ASSUME NEW t \in Threads, StoreSafeEpoch(t) PROVE BufferedIsCurrent'
  BY <1>9 DEF StoreSafeEpoch, Return
<1>10. ASSUME NEW t \in Threads, NEW i \in Items, Access(t, i) PROVE BufferedIsCurrent'
  BY <1>10 DEF Access
<1>11. ASSUME NEW t \in Threads, NEW i \in Items, Unlink(t, i) PROVE BufferedIsCurrent'
  BY <1>11 DEF Unlink
<1>12. ASSUME NEW t \in Threads, NEW i \in Items, Retire(t, i) PROVE BufferedIsCurrent'
  BY <1>12 DEF Retire
<1>13. ASSUME NEW i \in Items, Reclaim(i) PROVE BufferedIsCurrent'
  BY <1>13 DEF Reclaim, IsSafeToReclaim
<1>14. ASSUME NEW m \in Managers, ReclaimAll(m) PROVE BufferedIsCurrent'
  BY <1>14 DEF ReclaimAll
<1>15. ASSUME NEW i \in Items, Link(i) PROVE BufferedIsCurrent'
  BY <1>15 DEF Link
<1>16. CASE UNCHANGED vars
  BY <1>16 DEF vars
<1>17. QED
  BY <1>1, <1>2, <1>3, <1>4, <1>5, <1>6, <1>7, <1>8,
     <1>9, <1>10, <1>11, <1>12, <1>13, <1>14, <1>15, <1>16
     DEF Next, ManagerStep, ClientStep

\* A thread in the region keeps showing an epoch between 1 and the clock.
LEMMA RegionStep ==
  ASSUME OneManager
  PROVE  SafeInv /\ [Next]_vars => RegionIsPublished'
<1> SUFFICES ASSUME SafeInv, [Next]_vars PROVE RegionIsPublished'
  OBVIOUS
<1> USE DEF SafeInv, BaseInv, TypeOK, TableInv, ClockInv, RegionIsPublished,
            BufferedIsCurrent,
            OneManager, epochVars, tableVars, callVars, clientVars
<1>1. ASSUME NEW t \in Threads, NEW m \in Managers, Protect(t, m) PROVE RegionIsPublished'
  BY <1>1 DEF Protect, EntryCall
<1>2. ASSUME NEW t \in Threads, NEW m \in Managers, IsProtected(t, m) PROVE RegionIsPublished'
  BY <1>2 DEF IsProtected, EntryCall
<1>3. ASSUME NEW t \in Threads, NEW m \in Managers, Unprotect(t, m) PROVE RegionIsPublished'
  <2>1. region'[t] = {} /\ \A u \in Threads : u # t => region'[u] = region[u]
    BY <1>3 DEF Unprotect
  <2>2. \A u \in Threads : u # t /\ region[u] # {} => tls[u] # tls[t]
    BY <1>3 DEF Unprotect
  <2>3. \A u \in Threads : u # t /\ region[u] # {} =>
          protected_epoch'[tls[u]] = protected_epoch[tls[u]]
    BY <1>3, <2>2 DEF Unprotect, StoreProtected
  <2>4. \A u \in Threads : u # t => store_buffer'[u] = store_buffer[u]
    BY <1>3 DEF Unprotect, StoreProtected
  <2>5. QED
    BY <1>3, <2>1, <2>3, <2>4 DEF Unprotect
<1>4. ASSUME NEW t \in Threads, ReserveEntry(t) PROVE RegionIsPublished'
  <2>1. \A u \in Threads : region[u] # {} => u # t /\ tls'[u] = tls[u]
    BY <1>4 DEF ReserveEntry
  <2>2. \A u \in Threads : pc'[u] \in {"reserve", "publish"} => pc[u] \in {"reserve", "publish"}
    BY <1>4 DEF ReserveEntry
  <2>3. UNCHANGED <<epochVars, protected_epoch, store_buffer, mgr, epoch, region>>
    BY <1>4 DEF ReserveEntry
  <2>4. QED
    BY <2>1, <2>2, <2>3
<1>5. ASSUME NEW t \in Threads, Publish(t) PROVE RegionIsPublished'
  <2>1. \A u \in Threads : u # t /\ region[u] # {} => tls[u] # tls[t]
    BY <1>5 DEF Publish
  <2>2. \A u \in Threads : u # t => /\ region'[u] = region[u] /\ pc'[u] = pc[u]
                                    /\ store_buffer'[u] = store_buffer[u]
    BY <1>5 DEF Publish, StoreProtected, Return
  <2>3. \A u \in Threads : u # t /\ region[u] # {} =>
          protected_epoch'[tls[u]] = protected_epoch[tls[u]]
    BY <1>5, <2>1 DEF Publish, StoreProtected, Return
  <2>4. pc'[t] = "idle" /\ \A u \in Threads : u # t => epoch'[u] = epoch[u]
    BY <1>5 DEF Publish, Return
  <2>5. \A m \in region'[t] : m = mgr[t]
    BY <1>5 DEF Publish
  <2>6. store_buffer'[t] = NoStore => protected_epoch'[tls[t]] = epoch[t]
    BY <1>5 DEF Publish, StoreProtected, Return, NoStore
  <2>7. 1 <= epoch[t] /\ epoch[t] <= current_epoch[mgr[t]]
    BY <1>5 DEF Publish
  <2>8. UNCHANGED <<current_epoch, tls, mgr>>
    BY <1>5 DEF Publish, Return
  <2>9. QED
    BY <2>2, <2>3, <2>4, <2>5, <2>6, <2>7, <2>8
<1>6. ASSUME NEW t \in Threads, DrainStoreBuffer(t) PROVE RegionIsPublished'
  BY <1>6 DEF DrainStoreBuffer
<1>7. ASSUME NEW t \in Threads, NEW m \in Managers, BumpCurrentEpoch(t, m) PROVE RegionIsPublished'
  BY <1>7 DEF BumpCurrentEpoch
<1>8. ASSUME NEW t \in Threads, ScanEntry(t) PROVE RegionIsPublished'
  BY <1>8 DEF ScanEntry
<1>9. ASSUME NEW t \in Threads, StoreSafeEpoch(t) PROVE RegionIsPublished'
  BY <1>9 DEF StoreSafeEpoch, Return
<1>10. ASSUME NEW t \in Threads, NEW i \in Items, Access(t, i) PROVE RegionIsPublished'
  BY <1>10 DEF Access
<1>11. ASSUME NEW t \in Threads, NEW i \in Items, Unlink(t, i) PROVE RegionIsPublished'
  BY <1>11 DEF Unlink
<1>12. ASSUME NEW t \in Threads, NEW i \in Items, Retire(t, i) PROVE RegionIsPublished'
  BY <1>12 DEF Retire
<1>13. ASSUME NEW i \in Items, Reclaim(i) PROVE RegionIsPublished'
  BY <1>13 DEF Reclaim, IsSafeToReclaim
<1>14. ASSUME NEW m \in Managers, ReclaimAll(m) PROVE RegionIsPublished'
  BY <1>14 DEF ReclaimAll
<1>15. ASSUME NEW i \in Items, Link(i) PROVE RegionIsPublished'
  BY <1>15 DEF Link
<1>16. CASE UNCHANGED vars
  BY <1>16 DEF vars
<1>17. QED
  BY <1>1, <1>2, <1>3, <1>4, <1>5, <1>6, <1>7, <1>8,
     <1>9, <1>10, <1>11, <1>12, <1>13, <1>14, <1>15, <1>16
     DEF Next, ManagerStep, ClientStep

\* A thread holds references only between Protect() and Unprotect().
LEMMA HeldInRegionStep == SafeInv /\ [Next]_vars => HeldInRegion'
<1> SUFFICES ASSUME SafeInv, [Next]_vars PROVE HeldInRegion'
  OBVIOUS
<1> USE DEF SafeInv, BaseInv, TypeOK, HeldInRegion, epochVars, tableVars, callVars, clientVars
<1>1. ASSUME NEW t \in Threads, NEW m \in Managers, Protect(t, m) PROVE HeldInRegion'
  BY <1>1 DEF Protect, EntryCall
<1>2. ASSUME NEW t \in Threads, NEW m \in Managers, IsProtected(t, m) PROVE HeldInRegion'
  BY <1>2 DEF IsProtected, EntryCall
<1>3. ASSUME NEW t \in Threads, NEW m \in Managers, Unprotect(t, m) PROVE HeldInRegion'
  BY <1>3 DEF Unprotect
<1>4. ASSUME NEW t \in Threads, ReserveEntry(t) PROVE HeldInRegion'
  BY <1>4 DEF ReserveEntry
<1>5. ASSUME NEW t \in Threads, Publish(t) PROVE HeldInRegion'
  BY <1>5 DEF Publish, Return
<1>6. ASSUME NEW t \in Threads, DrainStoreBuffer(t) PROVE HeldInRegion'
  BY <1>6 DEF DrainStoreBuffer
<1>7. ASSUME NEW t \in Threads, NEW m \in Managers, BumpCurrentEpoch(t, m) PROVE HeldInRegion'
  BY <1>7 DEF BumpCurrentEpoch
<1>8. ASSUME NEW t \in Threads, ScanEntry(t) PROVE HeldInRegion'
  BY <1>8 DEF ScanEntry
<1>9. ASSUME NEW t \in Threads, StoreSafeEpoch(t) PROVE HeldInRegion'
  BY <1>9 DEF StoreSafeEpoch, Return
<1>10. ASSUME NEW t \in Threads, NEW i \in Items, Access(t, i) PROVE HeldInRegion'
  BY <1>10 DEF Access
<1>11. ASSUME NEW t \in Threads, NEW i \in Items, Unlink(t, i) PROVE HeldInRegion'
  BY <1>11 DEF Unlink
<1>12. ASSUME NEW t \in Threads, NEW i \in Items, Retire(t, i) PROVE HeldInRegion'
  BY <1>12 DEF Retire
<1>13. ASSUME NEW i \in Items, Reclaim(i) PROVE HeldInRegion'
  BY <1>13 DEF Reclaim
<1>14. ASSUME NEW m \in Managers, ReclaimAll(m) PROVE HeldInRegion'
  BY <1>14 DEF ReclaimAll
<1>15. ASSUME NEW i \in Items, Link(i) PROVE HeldInRegion'
  BY <1>15 DEF Link
<1>16. CASE UNCHANGED vars
  BY <1>16 DEF vars
<1>17. QED
  BY <1>1, <1>2, <1>3, <1>4, <1>5, <1>6, <1>7, <1>8,
     <1>9, <1>10, <1>11, <1>12, <1>13, <1>14, <1>15, <1>16
     DEF Next, ManagerStep, ClientStep

\* A retired item that a protected thread holds stays guarded.
LEMMA HeldStep ==
  ASSUME OneManager
  PROVE  SafeInv /\ [Next]_vars => HeldIsGuarded'
<1> SUFFICES ASSUME SafeInv, [Next]_vars PROVE HeldIsGuarded'
  OBVIOUS
<1> USE SizeAssumption, HomeAssumption
    DEF SafeInv, BaseInv, TypeOK, TableInv, ClockInv, SafeBelowCurrent, BufferedIsCurrent,
        RegionIsPublished, HeldInRegion, HeldIsGuarded, Guarded, Passed, OneManager,
        epochVars, tableVars, callVars, clientVars
<1>0. ASSUME NEW w \in Threads, NEW i \in holds[w]
      PROVE  /\ i \in Items /\ Home[i] \in region[w]
             /\ tls[w] # NoEntry /\ tls[w] \in Entries
             /\ tls[w] = <<Home[i], tls[w][2]>> /\ tls[w][2] \in Slots
             /\ protected_epoch[tls[w]] \in Nat /\ removal_epoch[i] \in Nat
  <2>1. i \in Items /\ Home[i] \in region[w] /\ tls[w] # NoEntry /\ tls[w] \in Entries
    OBVIOUS
  <2>2. PICK m \in Managers, s \in Slots : tls[w] = <<m, s>>
    BY <2>1 DEF Entries
  <2>3. QED
    BY <2>1, <2>2
<1>1. ASSUME NEW t \in Threads, NEW m \in Managers, Protect(t, m) PROVE HeldIsGuarded'
  BY <1>1 DEF Protect, EntryCall
<1>2. ASSUME NEW t \in Threads, NEW m \in Managers, IsProtected(t, m) PROVE HeldIsGuarded'
  BY <1>2 DEF IsProtected, EntryCall
<1>3. ASSUME NEW t \in Threads, NEW m \in Managers, Unprotect(t, m) PROVE HeldIsGuarded'
  <2> SUFFICES ASSUME NEW w \in Threads, NEW i \in holds'[w] \ exposed'[w] PROVE Guarded(w, i)'
    BY DEF HeldIsGuarded
  <2>1. i \in holds[w] \ exposed[w] /\ w # t
    BY <1>3 DEF Unprotect
  <2>2. tls[w] # tls[t]
    BY <1>3, <1>0, <2>1 DEF Unprotect
  <2>3. protected_epoch'[tls[w]] = protected_epoch[tls[w]]
    BY <1>3, <2>2, <1>0, <2>1 DEF Unprotect, StoreProtected
  <2>4. store_buffer'[w] = store_buffer[w]
    BY <1>3, <2>1 DEF Unprotect, StoreProtected
  <2>5. QED
    BY <1>3, <2>1, <2>3, <2>4 DEF Unprotect
<1>4. ASSUME NEW t \in Threads, ReserveEntry(t) PROVE HeldIsGuarded'
  <2> SUFFICES ASSUME NEW w \in Threads, NEW i \in holds'[w] \ exposed'[w] PROVE Guarded(w, i)'
    BY DEF HeldIsGuarded
  <2>1. i \in holds[w] \ exposed[w] /\ w # t
    BY <1>4 DEF ReserveEntry
  <2>2. tls'[w] = tls[w] /\ pc'[w] = pc[w]
    BY <1>4, <2>1 DEF ReserveEntry
  <2>3. \A u \in Threads : pc'[u] \in {"scan", "store"} => pc[u] = pc'[u] /\ index'[u] = index[u]
    BY <1>4 DEF ReserveEntry
  <2>4. QED
    BY <1>4, <2>1, <2>2, <2>3 DEF ReserveEntry
<1>5. ASSUME NEW t \in Threads, Publish(t) PROVE HeldIsGuarded'
  <2> SUFFICES ASSUME NEW w \in Threads, NEW i \in holds'[w] \ exposed'[w] PROVE Guarded(w, i)'
    BY DEF HeldIsGuarded
  <2>1. i \in holds[w] \ exposed[w] /\ w # t
    BY <1>5, <1>0 DEF Publish, Return
  <2>2. tls[w] # tls[t]
    BY <1>5, <1>0, <2>1 DEF Publish, Return
  <2>3. protected_epoch'[tls[w]] = protected_epoch[tls[w]]
    BY <1>5, <2>2, <1>0, <2>1 DEF Publish, StoreProtected, Return
  <2>4. \A u \in Threads : pc'[u] \in {"scan", "store"} => pc[u] = pc'[u]
    BY <1>5 DEF Publish, Return
  <2>5. store_buffer'[w] = store_buffer[w]
    BY <1>5, <2>1 DEF Publish, StoreProtected
  <2>6. QED
    BY <1>5, <2>1, <2>3, <2>4, <2>5 DEF Publish, Return
<1>6. ASSUME NEW t \in Threads, DrainStoreBuffer(t) PROVE HeldIsGuarded'
  <2> SUFFICES ASSUME NEW w \in Threads, NEW i \in holds'[w] \ exposed'[w] PROVE Guarded(w, i)'
    BY DEF HeldIsGuarded
  <2>1. i \in holds[w] \ exposed[w] /\ Guarded(w, i) /\ state' = state
    BY <1>6 DEF DrainStoreBuffer
  <2>2. CASE w = t
    <3>1. state[i] # "retired" /\ state[i] # "free"
      BY <1>6, <2>1, <2>2 DEF DrainStoreBuffer
    <3>2. QED
      BY <2>1, <3>1
  <2>3. CASE w # t
    <3>1. tls[w] # tls[t]
      BY <1>6, <1>0, <2>1, <2>3 DEF DrainStoreBuffer
    <3>2. protected_epoch'[tls[w]] = protected_epoch[tls[w]] /\ store_buffer'[w] = store_buffer[w]
      BY <1>6, <3>1, <1>0, <2>1, <2>3 DEF DrainStoreBuffer
    <3>3. QED
      BY <1>6, <2>1, <3>2 DEF DrainStoreBuffer
  <2>4. QED
    BY <2>2, <2>3
<1>7. ASSUME NEW t \in Threads, NEW m \in Managers, BumpCurrentEpoch(t, m) PROVE HeldIsGuarded'
  <2> SUFFICES ASSUME NEW w \in Threads, NEW i \in holds'[w] \ exposed'[w] PROVE Guarded(w, i)'
    BY DEF HeldIsGuarded
  <2>1. i \in holds[w] \ exposed[w] /\ tls[w][2] \in Nat
    BY <1>7, <1>0 DEF BumpCurrentEpoch, Slots
  <2>2. \A u \in Threads : Passed(u, tls[w])' => u # t /\ Passed(u, tls[w])
    BY <1>7, <2>1 DEF BumpCurrentEpoch
  <2>3. QED
    BY <1>7, <2>1, <2>2 DEF BumpCurrentEpoch
<1>8. ASSUME NEW t \in Threads, ScanEntry(t) PROVE HeldIsGuarded'
  <2> SUFFICES ASSUME NEW w \in Threads, NEW i \in holds'[w] \ exposed'[w] PROVE Guarded(w, i)'
    BY DEF HeldIsGuarded
  <2> DEFINE seen == protected_epoch[<<mgr[t], index[t]>>]
  <2>1. i \in holds[w] \ exposed[w] /\ tls[w][2] \in Nat
    BY <1>8, <1>0 DEF ScanEntry, Slots
  <2>2. <<mgr[t], index[t]>> \in Entries /\ seen \in Nat /\ index[t] \in Nat
    BY <1>8 DEF ScanEntry, Entries, Slots
  <2>3. /\ epoch'[t] \in Nat /\ epoch'[t] <= epoch[t]
        /\ seen # 0 => epoch'[t] <= seen
        /\ index'[t] = index[t] + 1
    BY <1>8, <2>2 DEF ScanEntry
  <2>4. ASSUME state[i] = "retired", Passed(t, tls[w])'
        PROVE  epoch'[t] <= removal_epoch[i]
    <3>1. tls'[w] = tls[w] /\ pc[t] = "scan"
      BY <1>8 DEF ScanEntry
    <3>2. index[t] >= tls[w][2]
      BY <2>1, <2>2, <2>3, <2>4, <3>1
    <3>3. CASE index[t] = tls[w][2]
      <4>1. tls[w] = <<mgr[t], index[t]>>
        BY <2>1, <3>3, <1>0
      <4>2. 1 <= protected_epoch[tls[w]]
        <5>1. Home[i] \in region[w] /\ store_buffer[w] = NoStore
          BY <2>1, <2>4, <1>0
        <5>2. QED
          BY <5>1
      <4>3. protected_epoch[tls[w]] <= removal_epoch[i]
        BY <2>1, <2>4
      <4> HIDE DEF SafeInv
      <4>4. QED
        BY <4>1, <4>2, <4>3, <2>2, <2>3, <2>1, <1>0
    <3>4. CASE index[t] > tls[w][2]
      <4>1. epoch[t] <= removal_epoch[i]
        BY <3>1, <3>4, <2>1, <2>4
      <4>2. QED
        BY <4>1, <2>3, <2>1, <1>0
    <3> HIDE DEF SafeInv
    <3>5. QED
      BY <3>2, <3>3, <3>4, <2>1, <2>2
  <2>5. ASSUME NEW u \in Threads, u # t
        PROVE  Passed(u, tls[w])' => Passed(u, tls[w]) /\ epoch'[u] = epoch[u]
    BY <1>8, <2>5 DEF ScanEntry
  <2>6. QED
    BY <1>8, <2>1, <2>4, <2>5 DEF ScanEntry
<1>9. ASSUME NEW t \in Threads, StoreSafeEpoch(t) PROVE HeldIsGuarded'
  <2> SUFFICES ASSUME NEW w \in Threads, NEW i \in holds'[w] \ exposed'[w] PROVE Guarded(w, i)'
    BY DEF HeldIsGuarded
  <2>1. i \in holds[w] \ exposed[w] /\ tls[w][2] \in Slots /\ mgr[t] = Home[i]
    BY <1>9, <1>0 DEF StoreSafeEpoch, Return
  <2>2. Passed(t, tls[w])
    BY <1>9, <2>1 DEF StoreSafeEpoch, Return, Slots
  <2>3. \A u \in Threads : pc'[u] \in {"scan", "store"} => pc[u] = pc'[u]
    BY <1>9 DEF StoreSafeEpoch, Return
  <2>4. state[i] = "retired" => safe_epoch'[Home[i]] < removal_epoch[i]
    BY <1>9, <2>1, <2>2, <1>0 DEF StoreSafeEpoch, Return
  <2>5. QED
    BY <1>9, <2>1, <2>3, <2>4 DEF StoreSafeEpoch, Return
<1>10. ASSUME NEW t \in Threads, NEW i \in Items, Access(t, i) PROVE HeldIsGuarded'
  BY <1>10 DEF Access
<1>11. ASSUME NEW t \in Threads, NEW i \in Items, Unlink(t, i) PROVE HeldIsGuarded'
  BY <1>11 DEF Unlink
<1>12. ASSUME NEW t \in Threads, NEW i \in Items, Retire(t, i) PROVE HeldIsGuarded'
  <2> SUFFICES ASSUME NEW w \in Threads, NEW j \in holds'[w] \ exposed'[w] PROVE Guarded(w, j)'
    BY DEF HeldIsGuarded
  <2>1. j \in holds[w] \ exposed[w]
    BY <1>12 DEF Retire
  <2>2. CASE j # i
    BY <1>12, <2>1, <2>2 DEF Retire
  <2>3. CASE j = i
    <3>1. store_buffer[w] = NoStore /\ Home[i] \in region[w]
      BY <1>12, <2>1, <2>3, <1>0 DEF Retire, Locked
    <3>2. \A m \in Managers : m = Home[i]
      OBVIOUS
    <3>3. protected_epoch[tls[w]] <= current_epoch[Home[i]]
      BY <3>1
    <3>4. \A u \in Threads : Passed(u, tls[w]) => epoch[u] <= current_epoch[Home[i]]
      BY <3>2
    <3>5. QED
      BY <1>12, <2>1, <2>3, <3>1, <3>3, <3>4 DEF Retire
  <2>4. QED
    BY <2>2, <2>3
<1>13. ASSUME NEW i \in Items, Reclaim(i) PROVE HeldIsGuarded'
  BY <1>13 DEF Reclaim, IsSafeToReclaim
<1>14. ASSUME NEW m \in Managers, ReclaimAll(m) PROVE HeldIsGuarded'
  BY <1>14 DEF ReclaimAll
<1>15. ASSUME NEW i \in Items, Link(i) PROVE HeldIsGuarded'
  BY <1>15 DEF Link
<1>16. CASE UNCHANGED vars
  BY <1>16 DEF vars
<1>17. QED
  BY <1>1, <1>2, <1>3, <1>4, <1>5, <1>6, <1>7, <1>8,
     <1>9, <1>10, <1>11, <1>12, <1>13, <1>14, <1>15, <1>16
     DEF Next, ManagerStep, ClientStep

\* The guarantee of Protect(), from the moment the store of Protect() has reached
\* the thread's entry: an item is freed while a thread that reached it is in the
\* region only if it was retired before that moment.  Both stores to the entry, in
\* Protect() and in Unprotect(), may be delayed.
THEOREM ReclamationIsSafe ==
  ASSUME OneManager
  PROVE  Spec => []VisibleProtectionHolds
<1>1. Init => SafeInv
  BY BaseInvInit DEF Init, SafeInv, BufferedIsCurrent, RegionIsPublished, HeldInRegion, HeldIsGuarded
<1>2. SafeInv /\ [Next]_vars => SafeInv'
  <2>1. SafeInv /\ [Next]_vars => BaseInv'
    BY TypeStep, TableStep, ClockStep DEF SafeInv, BaseInv
  <2>2. QED
    BY <2>1, BufferedStep, RegionStep, HeldInRegionStep, HeldStep DEF SafeInv
<1>3. SafeInv => VisibleProtectionHolds
  BY DEF SafeInv, HeldIsGuarded, Guarded, VisibleProtectionHolds
<1>4. QED
  BY <1>1, <1>2, <1>3, PTL DEF Spec

-----------------------------------------------------------------------------
(***************************************************************************)
(* The list looks at nothing but the epoch of a slot before it destroys    *)
(* the item in it.  RingInv says why that is enough: a slot that is not    *)
(* locked shows the removal epoch of the item it holds (ItemInv), the      *)
(* thread that locked one knows it (LockInv), and no item waits twice      *)
(* (OnceInv).  Every step of the list is then a step of EpochManager's     *)
(* protocol, whose theorems carry over.                                    *)
(***************************************************************************)

Working(t) == lpc[t] \in {"fill", "reset"}
Pushing(t) == lpc[t] \in {"claim", "bump", "read", "lock", "fill"}

\* Item i has been retired with epoch e.
Waiting(i, e) ==
  i \in Items /\ Home[i] = ListManager /\ state[i] = "retired" /\ removal_epoch[i] = e

\* The invalid epoch is a lock.
LockInv ==
  /\ \A t \in Threads : Working(t) => slot_epoch[slot[t]] = Invalid
  /\ \A t, u \in Threads : Working(t) /\ Working(u) /\ slot[t] = slot[u] => t = u
  /\ \A s \in RingSlots : slot_epoch[s] = Invalid => \E t \in Threads : Working(t) /\ slot[t] = s
  /\ \A t \in Threads : Working(t) \/ lpc[t] \in {"lock", "scavenge_lock"} => prior[t] # Invalid

\* What a slot shows, and what the thread that locked it remembers, is the
\* removal epoch of the item in the slot.
ItemInv ==
  /\ \A s \in RingSlots : slot_epoch[s] = 0 => slot_item[s] = NoItem
  /\ \A s \in RingSlots :
       slot_epoch[s] \notin {0, Invalid} => Waiting(slot_item[s], slot_epoch[s])
  /\ \A t \in Threads : Working(t) /\ prior[t] = 0 => slot_item[slot[t]] = NoItem
  /\ \A t \in Threads : Working(t) /\ prior[t] # 0 => Waiting(slot_item[slot[t]], prior[t])
  /\ \A t \in Threads : Pushing(t) => stamp[t] # 0 /\ Waiting(pushed[t], stamp[t])
  /\ \A t \in Threads : ~Pushing(t) => pushed[t] = NoItem

\* An item waits in one slot or with one thread that pushes it.
OnceInv ==
  /\ \A r, s \in RingSlots : slot_item[r] = slot_item[s] /\ slot_item[r] # NoItem => r = s
  /\ \A t, u \in Threads : pushed[t] = pushed[u] /\ pushed[t] # NoItem => t = u
  /\ \A t \in Threads, s \in RingSlots : pushed[t] = slot_item[s] => pushed[t] = NoItem
  /\ \A i \in Items : state[i] = "retired" =>
       (\E s \in RingSlots : slot_item[s] = i) \/ (\E t \in Threads : pushed[t] = i)

RingInv == LockInv /\ ItemInv /\ OnceInv
ListInv == ListTypeOK /\ BaseInv /\ RingInv

-----------------------------------------------------------------------------
(***************************************************************************)
(* Every step of the list is one that EpochManager allows its clients.     *)
(***************************************************************************)

\* A slot that is given new contents gives up its item as Reclaim does.
LEMMA ReplaceReclaims ==
  ASSUME ListInv, NEW t \in Threads, Working(t), NEW i, NEW e, Replace(t, i, e)
  PROVE  [Next]_vars
<1>1. CASE prior[t] = 0
  BY <1>1 DEF Replace, vars, epochVars, tableVars, callVars
<1>2. CASE prior[t] # 0
  <2> DEFINE j == slot_item[slot[t]]
  <2>1. Waiting(j, prior[t])
    BY <1>2 DEF ListInv, RingInv, ItemInv
  <2>2. Reclaim(j)
    BY <1>2, <2>1 DEF Replace, Reclaim, Waiting, IsSafeToReclaim
  <2>3. QED
    BY <2>1, <2>2 DEF Next, Waiting
<1>3. QED
  BY <1>1, <1>2

\* Uninitialize gives up exactly the items that have been retired.
LEMMA UninitializeReclaims ==
  ASSUME ListInv, Uninitialize
  PROVE  ReclaimAll(ListManager)
<1>1. \A t \in Threads : ~Working(t) /\ ~Pushing(t)
  BY DEF Uninitialize, Working, Pushing
<1>2. \A s \in RingSlots : slot_item[s] # NoItem => Waiting(slot_item[s], slot_epoch[s])
  BY <1>1 DEF ListInv, RingInv, ItemInv, LockInv
<1>3. \A i \in Items : state[i] = "retired" => \E s \in RingSlots : slot_item[s] = i
  BY <1>1, ListManagerAssumption DEF ListInv, RingInv, ItemInv, OnceInv
<1>4. \A i \in Items : (\E s \in RingSlots : slot_item[s] = i)
                         <=> Home[i] = ListManager /\ state[i] = "retired"
  BY <1>2, <1>3, ListManagerAssumption DEF Waiting
<1>5. \E i \in Items : Home[i] = ListManager /\ state[i] = "retired"
  BY <1>2 DEF Uninitialize, Waiting
<1>6. state' = [i \in Items |-> IF Home[i] = ListManager /\ state[i] = "retired"
                                THEN "free" ELSE state[i]]
  BY <1>4 DEF Uninitialize
<1>7. QED
  BY <1>5, <1>6 DEF Uninitialize, ReclaimAll

\* The step simulation behind FollowsEpochProtocol.
LEMMA ListStepSimulation == ListInv /\ [ListNext]_listVars => [Next]_vars
<1> SUFFICES ASSUME ListInv, [ListNext]_listVars PROVE [Next]_vars
  OBVIOUS
<1>1. ASSUME NEW t \in Threads, Client(t) PROVE [Next]_vars
  BY <1>1 DEF Client, Next, ManagerStep, ClientStep
<1>2. ASSUME NEW t \in Threads, ManagerCall(t) PROVE [Next]_vars
  BY <1>2 DEF ManagerCall, Next, ManagerStep
<1>3. ASSUME NEW t \in Threads, NEW i \in Items, PushStart(t, i) PROVE [Next]_vars
  BY <1>3 DEF PushStart, Next, ClientStep
<1>4. ASSUME NEW t \in Threads, PushBump(t) PROVE [Next]_vars
  BY <1>4, ListManagerAssumption DEF PushBump, Next, ManagerStep
<1>5. ASSUME NEW t \in Threads, PushFill(t) PROVE [Next]_vars
  <2>1. Working(t)
    BY <1>5 DEF PushFill, Working
  <2>2. CASE Restore(t)
    BY <2>2 DEF Restore
  <2>3. CASE Replace(t, pushed[t], stamp[t])
    BY <2>1, <2>3, ReplaceReclaims
  <2>4. QED
    BY <1>5, <2>2, <2>3 DEF PushFill
<1>6. ASSUME NEW t \in Threads, ScavengeReset(t) PROVE [Next]_vars
  <2>1. Working(t)
    BY <1>6 DEF ScavengeReset, Working
  <2>2. CASE Restore(t)
    BY <2>2 DEF Restore
  <2>3. CASE Replace(t, NoItem, 0)
    BY <2>1, <2>3, ReplaceReclaims
  <2>4. QED
    BY <1>6, <2>2, <2>3 DEF ScavengeReset
<1>7. ASSUME NEW t \in Threads,
             PushClaim(t) \/ PushRead(t) \/ PushLock(t) \/ Scavenge(t)
               \/ ScavengeRead(t) \/ ScavengeLock(t)
      PROVE  [Next]_vars
  BY <1>7 DEF PushClaim, PushRead, PushLock, Scavenge, ScavengeRead, ScavengeLock
<1>8. ASSUME NEW i \in Items, Reuse(i) PROVE [Next]_vars
  BY <1>8 DEF Reuse, Next
<1>9. CASE Uninitialize
  BY <1>9, UninitializeReclaims, ListManagerAssumption DEF Next
<1>10. CASE UNCHANGED listVars
  BY <1>10 DEF listVars
<1>11. QED
  BY <1>1, <1>2, <1>3, <1>4, <1>5, <1>6, <1>7, <1>8, <1>9, <1>10 DEF ListNext, ListStep

-----------------------------------------------------------------------------
(***************************************************************************)
(* Types.                                                                  *)
(***************************************************************************)

\* The slot that NextSlot goes to is in the ring.
LEMMA ListTypeStep == ListInv /\ [ListNext]_listVars => ListTypeOK'
<1> SUFFICES ASSUME ListInv, [ListNext]_listVars PROVE ListTypeOK'
  OBVIOUS
<1>0. TypeOK'
  BY ListStepSimulation, TypeStep DEF ListInv
<1> USE <1>0, ItemCountAssumption, ListManagerAssumption
    DEF ListInv, ListTypeOK, slotVars, listCallVars, GoTo
<1>1. ASSUME NEW t \in Threads, Client(t) PROVE ListTypeOK'
  BY <1>1 DEF Client
<1>2. ASSUME NEW t \in Threads, ManagerCall(t) PROVE ListTypeOK'
  BY <1>2 DEF ManagerCall
<1>3. ASSUME NEW t \in Threads, NEW i \in Items, PushStart(t, i) PROVE ListTypeOK'
  <2>1. current_epoch[ListManager] \in Nat
    BY DEF TypeOK
  <2>2. QED
    BY <1>3, <2>1 DEF PushStart
<1>4. ASSUME NEW t \in Threads, PushClaim(t) PROVE ListTypeOK'
  <2>1. (tail + ItemCount - 1) % ItemCount \in RingSlots /\ (tail + 1) % ItemCount \in RingSlots
    BY DEF RingSlots
  <2>2. QED
    BY <1>4, <2>1 DEF PushClaim
<1>5. ASSUME NEW t \in Threads, PushBump(t) PROVE ListTypeOK'
  BY <1>5 DEF PushBump
<1>6. ASSUME NEW t \in Threads, PushRead(t) PROVE ListTypeOK'
  BY <1>6 DEF PushRead
<1>7. ASSUME NEW t \in Threads, PushLock(t) PROVE ListTypeOK'
  BY <1>7 DEF PushLock, LockSlot
<1>8. ASSUME NEW t \in Threads, PushFill(t) PROVE ListTypeOK'
  <2>1. CASE Restore(t)
    BY <1>8, <2>1 DEF PushFill, Restore, ListReturn, Replace
  <2>2. CASE Replace(t, pushed[t], stamp[t]) /\ ListReturn(t)
    BY <1>8, <2>2 DEF PushFill, Replace, ListReturn, RingSlots
  <2>3. QED
    BY <1>8, <2>1, <2>2 DEF PushFill
<1>9. ASSUME NEW t \in Threads, NextSlot(t)
      PROVE  /\ lpc' \in [Threads -> {"idle", "claim", "bump", "read", "lock", "fill",
                                      "scavenge", "scavenge_lock", "reset"}]
             /\ pushed' \in [Threads -> Items \cup {NoItem}]
             /\ stamp' \in [Threads -> Nat]
             /\ slot' \in [Threads -> RingSlots]
             /\ prior' \in [Threads -> Nat \cup {Invalid}]
  <2>0. 0 \in RingSlots
    BY DEF RingSlots
  <2>1. CASE slot[t] + 1 = ItemCount
    BY <1>9, <2>0, <2>1 DEF NextSlot, ListReturn
  <2>2. CASE slot[t] + 1 # ItemCount
    <3>1. slot[t] + 1 \in RingSlots
      BY <2>2 DEF RingSlots
    <3>2. QED
      BY <1>9, <2>2, <3>1 DEF NextSlot
  <2>3. QED
    BY <2>1, <2>2
<1>10. ASSUME NEW t \in Threads, Scavenge(t) PROVE ListTypeOK'
  BY <1>10 DEF Scavenge, RingSlots
<1>11. ASSUME NEW t \in Threads, ScavengeRead(t) PROVE ListTypeOK'
  <2>1. CASE NextSlot(t)
    BY <1>11, <1>9, <2>1 DEF ScavengeRead
  <2>2. CASE ~NextSlot(t)
    BY <1>11, <2>2 DEF ScavengeRead
  <2>3. QED
    BY <2>1, <2>2
<1>12. ASSUME NEW t \in Threads, ScavengeLock(t) PROVE ListTypeOK'
  <2>1. slot_epoch' \in [RingSlots -> Nat \cup {Invalid}]
    BY <1>12 DEF ScavengeLock, LockSlot
  <2>2. CASE NextSlot(t)
    BY <1>12, <1>9, <2>1, <2>2 DEF ScavengeLock
  <2>3. CASE ~NextSlot(t)
    BY <1>12, <2>1, <2>3 DEF ScavengeLock, LockSlot
  <2>4. QED
    BY <2>2, <2>3
<1>13. ASSUME NEW t \in Threads, ScavengeReset(t) PROVE ListTypeOK'
  <2>1. NextSlot(t) /\ tail' = tail
    BY <1>13 DEF ScavengeReset
  <2>2. slot_epoch' \in [RingSlots -> Nat \cup {Invalid}] /\ slot_item' \in [RingSlots -> Items \cup {NoItem}]
    BY <1>13 DEF ScavengeReset, Restore, Replace
  <2>3. QED
    BY <1>9, <2>1, <2>2
<1>14. ASSUME NEW i \in Items, Reuse(i) PROVE ListTypeOK'
  BY <1>14 DEF Reuse
<1>15. CASE Uninitialize
  BY <1>15 DEF Uninitialize, RingSlots
<1>16. CASE UNCHANGED listVars
  BY <1>16 DEF listVars
<1>17. QED
  BY <1>1, <1>2, <1>3, <1>4, <1>5, <1>6, <1>7, <1>8, <1>10, <1>11, <1>12, <1>13, <1>14,
     <1>15, <1>16 DEF ListNext, ListStep


-----------------------------------------------------------------------------
(***************************************************************************)
(* The ring.  Steps that leave the list alone neither retire an item nor   *)
(* free one that has been retired.                                         *)
(***************************************************************************)
Quiet ==
  /\ UNCHANGED <<slotVars, listCallVars>>
  /\ \A i \in Items : state[i] = "retired" <=> state'[i] = "retired"
  /\ \A i \in Items : state[i] = "retired" => removal_epoch'[i] = removal_epoch[i]

\* The client's and the manager's own steps are quiet.
LEMMA OthersAreQuiet ==
  ASSUME ListInv,
         \/ \E t \in Threads : Client(t) \/ ManagerCall(t)
         \/ \E i \in Items : Reuse(i)
         \/ UNCHANGED listVars
  PROVE  Quiet
<1> USE DEF Quiet, ListInv, ListTypeOK, TypeOK, clientVars
<1>1. ASSUME NEW t \in Threads, Client(t) PROVE Quiet
  <2>1. UNCHANGED <<slotVars, listCallVars>>
    BY <1>1 DEF Client
  <2>2. ASSUME NEW m \in Managers,
               Protect(t, m) \/ IsProtected(t, m) \/ Unprotect(t, m) \/ BumpCurrentEpoch(t, m)
        PROVE  UNCHANGED <<state, removal_epoch>>
    BY <2>2 DEF Protect, IsProtected, Unprotect, BumpCurrentEpoch
  <2>3. ASSUME NEW i \in Items, Access(t, i) PROVE UNCHANGED <<state, removal_epoch>>
    BY <2>3 DEF Access
  <2>4. ASSUME NEW i \in Items, Unlink(t, i) PROVE Quiet
    BY <2>1, <2>4 DEF Unlink
  <2>5. QED
    BY <1>1, <2>1, <2>2, <2>3, <2>4 DEF Client
<1>2. ASSUME NEW t \in Threads, ManagerCall(t) PROVE Quiet
  BY <1>2 DEF ManagerCall, ReserveEntry, Publish, DrainStoreBuffer, ScanEntry, StoreSafeEpoch
<1>3. ASSUME NEW i \in Items, Reuse(i) PROVE Quiet
  BY <1>3 DEF Reuse, Link
<1>4. CASE UNCHANGED listVars
  BY <1>4 DEF listVars, vars
<1>5. QED
  BY <1>1, <1>2, <1>3, <1>4

\* A quiet step leaves the ring as it is.
LEMMA QuietStep ==
  ASSUME ListInv, Quiet
  PROVE  RingInv'
<1> USE DEF Quiet, ListInv, RingInv, slotVars, listCallVars, Working, Pushing
<1>1. LockInv'
  BY DEF LockInv
<1>2. ItemInv'
  BY DEF ItemInv, Waiting
<1>3. OnceInv'
  BY DEF OnceInv
<1>4. QED
  BY <1>1, <1>2, <1>3

\* Thread t goes on with its call, no slot locked, still pushing the same item
\* if it was pushing one.
Moves(t) ==
  /\ \A u \in Threads : u # t => /\ lpc'[u] = lpc[u] /\ slot'[u] = slot[u] /\ prior'[u] = prior[u]
                                 /\ pushed'[u] = pushed[u] /\ stamp'[u] = stamp[u]
  /\ ~Working(t)'
  /\ Pushing(t)' <=> Pushing(t)
  /\ Pushing(t) => pushed'[t] = pushed[t] /\ stamp'[t] = stamp[t]
  /\ ~Pushing(t) => pushed'[t] = NoItem
  /\ lpc'[t] \in {"lock", "scavenge_lock"} => prior'[t] # Invalid

\* Scavenge goes to the next slot, or returns, with no slot locked.
LEMMA NextSlotMoves ==
  ASSUME ListInv, NEW t \in Threads, ~Pushing(t), NextSlot(t)
  PROVE  Moves(t) /\ lpc'[t] \notin {"lock", "scavenge_lock"}
<1>1. pushed[t] = NoItem
  BY DEF ListInv, RingInv, ItemInv
<1> USE <1>1 DEF Moves, NextSlot, ListReturn, GoTo, ListInv, ListTypeOK, Working, Pushing
<1>2. CASE slot[t] + 1 = ItemCount
  BY <1>2
<1>3. CASE slot[t] + 1 # ItemCount
  BY <1>3
<1>4. QED
  BY <1>2, <1>3

\* A thread moves on without touching a slot or its item.
LEMMA MoveStep ==
  ASSUME ListInv, NEW t \in Threads, ~Working(t), Moves(t),
         UNCHANGED <<state, removal_epoch, slot_epoch, slot_item>>
  PROVE  RingInv'
<1> USE DEF ListInv, RingInv
<1>1. \A u \in Threads : /\ Working(u)' <=> Working(u)
                         /\ Pushing(u)' <=> Pushing(u)
                         /\ Working(u) => slot'[u] = slot[u] /\ prior'[u] = prior[u]
                         /\ pushed'[u] = pushed[u]
                         /\ Pushing(u) => stamp'[u] = stamp[u]
  BY DEF Moves, Working, Pushing, ItemInv
<1>2. \A u \in Threads : Working(u)' \/ lpc'[u] \in {"lock", "scavenge_lock"} => prior'[u] # Invalid
  BY DEF Moves, LockInv, Working
<1>3. LockInv'
  BY <1>1, <1>2 DEF LockInv
<1>4. ItemInv'
  BY <1>1 DEF ItemInv, Waiting
<1>5. OnceInv'
  BY <1>1 DEF OnceInv
<1>6. QED
  BY <1>3, <1>4, <1>5

\* The CAS that succeeds: the thread has the slot, with the epoch it showed.
LEMMA LockingStep ==
  ASSUME ListInv, NEW t \in Threads, ~Working(t), Working(t)',
         lpc[t] \in {"lock", "scavenge_lock"},
         slot_epoch[slot[t]] = prior[t],
         slot_epoch' = [slot_epoch EXCEPT ![slot[t]] = Invalid],
         UNCHANGED <<vars, slot_item, pushed, stamp, slot, prior>>,
         \A u \in Threads : u # t => lpc'[u] = lpc[u],
         Pushing(t)' <=> Pushing(t)
  PROVE  RingInv'
<1> USE DEF ListInv, RingInv, ListTypeOK, vars
<1>1. \A u \in Threads : /\ u # t => (Working(u)' <=> Working(u))
                         /\ Pushing(u)' <=> Pushing(u)
  BY DEF Working, Pushing
<1>2. slot[t] \in RingSlots /\ prior[t] # Invalid /\ slot_epoch[slot[t]] # Invalid
  BY DEF LockInv
<1>3. \A u \in Threads : Working(u) => slot[u] # slot[t]
  BY <1>2 DEF LockInv
<1>4. LockInv'
  BY <1>1, <1>2, <1>3 DEF LockInv
<1>5. ItemInv'
  BY <1>1, <1>2, <1>3 DEF ItemInv, Waiting, Invalid
<1>6. OnceInv'
  BY DEF OnceInv
<1>7. QED
  BY <1>4, <1>5, <1>6

\* The item stays: the slot shows its epoch again.
LEMMA RestoreStep ==
  ASSUME ListInv, NEW t \in Threads, Working(t), Restore(t), Moves(t),
         lpc'[t] \notin {"lock", "scavenge_lock"}
  PROVE  RingInv'
<1> USE DEF ListInv, RingInv, ListTypeOK, vars, Restore
<1>1. \A u \in Threads : /\ u # t => /\ Working(u)' <=> Working(u)
                                     /\ lpc'[u] = lpc[u]
                                     /\ slot'[u] = slot[u] /\ prior'[u] = prior[u]
                         /\ Pushing(u)' <=> Pushing(u)
                         /\ pushed'[u] = pushed[u]
                         /\ Pushing(u) => stamp'[u] = stamp[u]
  BY DEF Moves, Working, Pushing, ItemInv
<1>2. slot[t] \in RingSlots /\ prior[t] # Invalid /\ prior[t] # 0 /\ ~Working(t)'
  BY DEF LockInv, Moves
<1>3. \A u \in Threads : u # t /\ Working(u) => slot[u] # slot[t]
  BY DEF LockInv
<1>4. LockInv'
  <2>1. \A s \in RingSlots : slot_epoch'[s] = Invalid => \E u \in Threads : Working(u)' /\ slot'[u] = s
    BY <1>1, <1>2 DEF LockInv
  <2>2. QED
    BY <1>1, <1>2, <1>3, <2>1 DEF LockInv
<1>5. ItemInv'
  BY <1>1, <1>2, <1>3 DEF ItemInv, Waiting
<1>6. OnceInv'
  BY <1>1 DEF OnceInv
<1>7. QED
  BY <1>4, <1>5, <1>6

\* The item goes, and the slot gets the item that was being pushed, if any.
LEMMA ReplaceStep ==
  ASSUME ListInv, NEW t \in Threads, Working(t), ~Working(t)',
         NEW i \in Items \cup {NoItem}, NEW e \in Nat, Replace(t, i, e),
         i = pushed[t], e = 0 <=> i = NoItem, Pushing(t) => e = stamp[t],
         Pushing(t) <=> i # NoItem,
         \A u \in Threads : u # t =>
           /\ lpc'[u] = lpc[u] /\ slot'[u] = slot[u] /\ prior'[u] = prior[u]
           /\ pushed'[u] = pushed[u] /\ stamp'[u] = stamp[u],
         ~Pushing(t)', pushed'[t] = NoItem, lpc'[t] \notin {"lock", "scavenge_lock"}
  PROVE  RingInv'
<1> DEFINE old == slot_item[slot[t]]
<1> USE ListManagerAssumption DEF ListInv, RingInv, ListTypeOK
<1>1. \A u \in Threads : u # t => /\ Working(u)' <=> Working(u)
                                  /\ Pushing(u)' <=> Pushing(u)
  BY DEF Working, Pushing
<1>2. slot[t] \in RingSlots /\ e # Invalid
  BY DEF Invalid
<1>3. \A u \in Threads : u # t /\ Working(u) => slot[u] # slot[t]
  BY DEF LockInv
<1>4. LockInv'
  <2>1. \A s \in RingSlots : slot_epoch'[s] = Invalid => \E u \in Threads : Working(u)' /\ slot'[u] = s
    BY <1>1, <1>2 DEF LockInv, Replace
  <2>2. QED
    BY <1>1, <1>2, <1>3, <2>1 DEF LockInv, Working, Replace
<1>5. /\ removal_epoch' = removal_epoch
      /\ \A j \in Items : j # old => state'[j] = state[j]
      /\ old \in Items => state[old] = "retired" /\ state'[old] = "free"
  BY DEF Replace, ItemInv, Waiting, TypeOK
<1>6. \A s \in RingSlots : s # slot[t] /\ slot_item[s] = old => old = NoItem
  BY <1>2 DEF OnceInv
<1>7. \A u \in Threads : pushed[u] = old => old = NoItem
  BY <1>2 DEF OnceInv
<1>8. ASSUME NEW j \in Items, NEW n, j # old, Waiting(j, n) PROVE Waiting(j, n)'
  BY <1>5, <1>8 DEF Waiting
<1>9. slot_item'[slot[t]] = i /\ slot_epoch'[slot[t]] = e
  BY <1>2 DEF Replace
<1>10. \A s \in RingSlots : s # slot[t] => slot_item'[s] = slot_item[s] /\ slot_epoch'[s] = slot_epoch[s]
  BY <1>2 DEF Replace
<1>11. ItemInv'
  <2>1. \A s \in RingSlots : slot_epoch'[s] = 0 => slot_item'[s] = NoItem
    BY <1>9, <1>10 DEF ItemInv
  <2>2. ASSUME NEW s \in RingSlots, slot_epoch'[s] \notin {0, Invalid}
        PROVE  Waiting(slot_item[s], slot_epoch[s])' 
    <3>1. CASE s = slot[t]
      <4>1. Pushing(t) /\ Waiting(i, e)
        BY <2>2, <3>1, <1>9 DEF ItemInv
      <4>2. QED
        BY <4>1, <3>1, <1>7, <1>8, <1>9 DEF Waiting
    <3>2. CASE s # slot[t]
      <4>1. Waiting(slot_item[s], slot_epoch[s])
        BY <2>2, <3>2, <1>10 DEF ItemInv
      <4>2. slot_item[s] \in Items /\ slot_item[s] # old
        BY <4>1, <3>2, <1>6 DEF Waiting
      <4>3. QED
        BY <4>1, <4>2, <3>2, <1>8, <1>10
    <3>3. QED
      BY <3>1, <3>2
  <2>3. ASSUME NEW u \in Threads, Working(u)'
        PROVE  /\ prior'[u] = 0 => slot_item'[slot'[u]] = NoItem
               /\ prior'[u] # 0 => Waiting(slot_item[slot[u]], prior[u])'
    <3>1. u # t /\ Working(u) /\ slot'[u] = slot[u] /\ prior'[u] = prior[u]
      BY <2>3, <1>1
    <3>2. slot[u] \in RingSlots /\ slot[u] # slot[t]
      BY <3>1, <1>3
    <3>3. ASSUME prior[u] # 0 PROVE Waiting(slot_item[slot[u]], prior[u])'
      <4>1. Waiting(slot_item[slot[u]], prior[u])
        BY <3>1, <3>3 DEF ItemInv
      <4>2. slot_item[slot[u]] \in Items /\ slot_item[slot[u]] # old
        BY <4>1, <3>2, <1>6 DEF Waiting
      <4>3. QED
        BY <4>1, <4>2, <3>1, <3>2, <1>8, <1>10
    <3>4. QED
      BY <3>1, <3>2, <3>3, <1>10 DEF ItemInv
  <2>4. ASSUME NEW u \in Threads, Pushing(u)'
        PROVE  stamp'[u] # 0 /\ Waiting(pushed[u], stamp[u])'
    <3>1. u # t /\ Pushing(u) /\ pushed'[u] = pushed[u] /\ stamp'[u] = stamp[u]
      BY <2>4, <1>1
    <3>2. stamp[u] # 0 /\ Waiting(pushed[u], stamp[u])
      BY <3>1 DEF ItemInv
    <3>3. QED
      BY <3>1, <3>2, <1>7, <1>8 DEF Waiting
  <2>5. \A u \in Threads : ~Pushing(u)' => pushed'[u] = NoItem
    BY <1>1 DEF ItemInv
  <2>6. QED
    BY <2>1, <2>2, <2>3, <2>4, <2>5 DEF ItemInv
<1>12. OnceInv'
  <2>1. \A r, s \in RingSlots : slot_item'[r] = slot_item'[s] /\ slot_item'[r] # NoItem => r = s
    BY <1>9, <1>10 DEF OnceInv
  <2>2. \A u, w \in Threads : pushed'[u] = pushed'[w] /\ pushed'[u] # NoItem => u = w
    BY DEF OnceInv
  <2>3. \A u \in Threads, s \in RingSlots : pushed'[u] = slot_item'[s] => pushed'[u] = NoItem
    BY <1>9, <1>10 DEF OnceInv
  <2>4. ASSUME NEW j \in Items, state'[j] = "retired"
        PROVE  (\E s \in RingSlots : slot_item'[s] = j) \/ (\E u \in Threads : pushed'[u] = j)
    <3>1. state[j] = "retired" /\ j # old
      BY <2>4, <1>5
    <3>2. CASE \E s \in RingSlots : slot_item[s] = j
      BY <3>1, <3>2, <1>10
    <3>3. CASE \E u \in Threads : pushed[u] = j
      BY <3>3, <1>2, <1>9
    <3>4. QED
      BY <3>1, <3>2, <3>3 DEF OnceInv
  <2>5. QED
    BY <2>1, <2>2, <2>3, <2>4 DEF OnceInv
<1>13. QED
  BY <1>4, <1>11, <1>12

\* Push begins: the item is stamped with the epoch it is retired in.
LEMMA PushStartStep ==
  ASSUME ListInv, NEW t \in Threads, NEW i \in Items, PushStart(t, i)
  PROVE  RingInv'
<1> USE ListManagerAssumption
    DEF ListInv, RingInv, ListTypeOK, TypeOK, PushStart, Retire, GoTo, slotVars
<1>1. \A u \in Threads : /\ Working(u)' <=> Working(u)
                         /\ u # t => (Pushing(u)' <=> Pushing(u)) /\ pushed'[u] = pushed[u]
                                     /\ stamp'[u] = stamp[u]
  BY DEF Working, Pushing
<1>2. /\ Pushing(t)' /\ pushed'[t] = i /\ stamp'[t] = current_epoch[ListManager]
      /\ current_epoch[ListManager] # 0
  BY DEF Pushing, BaseInv, ClockInv
<1>3. /\ state[i] # "retired" /\ state'[i] = "retired"
      /\ removal_epoch'[i] = current_epoch[ListManager]
      /\ \A j \in Items : j # i => state'[j] = state[j] /\ removal_epoch'[j] = removal_epoch[j]
  OBVIOUS
<1>4. \A j, n : Waiting(j, n) => j # i /\ Waiting(j, n)'
  BY <1>3 DEF Waiting
<1>5. \A s \in RingSlots : slot_item[s] # i
  <2> SUFFICES ASSUME NEW s \in RingSlots, slot_item[s] # NoItem PROVE slot_item[s] # i
    OBVIOUS
  <2> HIDE DEF PushStart, Retire
  <2>1. CASE slot_epoch[s] # Invalid
    <3>1. Waiting(slot_item[s], slot_epoch[s])
      BY <2>1 DEF ItemInv
    <3>2. QED
      BY <3>1, <1>4
  <2>2. CASE slot_epoch[s] = Invalid
    <3>1. PICK u \in Threads : Working(u) /\ slot[u] = s
      BY <2>2 DEF LockInv
    <3>2. Waiting(slot_item[s], prior[u])
      BY <3>1 DEF ItemInv
    <3>3. QED
      BY <3>2, <1>4
  <2>3. QED
    BY <2>1, <2>2
<1>6. ASSUME NEW u \in Threads PROVE pushed[u] # i
  <2> HIDE DEF PushStart, Retire
  <2>1. pushed[u] = NoItem \/ Waiting(pushed[u], stamp[u])
    BY DEF ItemInv
  <2>2. QED
    BY <2>1, <1>4
<1>7. LockInv'
  BY <1>1 DEF LockInv
<1>8. UNCHANGED <<slot, prior, slot_item, slot_epoch>>
  OBVIOUS
<1>9. Waiting(pushed[t], stamp[t])'
  BY <1>2, <1>3 DEF Waiting
<1>10. ~Pushing(t)
  BY DEF Pushing
<1> HIDE DEF PushStart, Retire, GoTo, TypeOK
<1>11. ItemInv'
  <2>1. \A s \in RingSlots : /\ slot_epoch'[s] = 0 => slot_item'[s] = NoItem
                             /\ slot_epoch'[s] \notin {0, Invalid} => Waiting(slot_item[s], slot_epoch[s])'
    BY <1>4, <1>8 DEF ItemInv, Waiting
  <2>2. \A u \in Threads : Working(u)' =>
          /\ prior'[u] = 0 => slot_item'[slot'[u]] = NoItem
          /\ prior'[u] # 0 => Waiting(slot_item[slot[u]], prior[u])'
    BY <1>1, <1>4, <1>8 DEF ItemInv, Waiting
  <2>3. \A u \in Threads : Pushing(u)' => stamp'[u] # 0 /\ Waiting(pushed[u], stamp[u])'
    BY <1>1, <1>2, <1>4, <1>9 DEF ItemInv, Waiting
  <2>4. \A u \in Threads : ~Pushing(u)' => pushed'[u] = NoItem
    BY <1>1, <1>2 DEF ItemInv
  <2>5. QED
    BY <2>1, <2>2, <2>3, <2>4 DEF ItemInv
<1>12. OnceInv'
  <2>1. \A r, s \in RingSlots : slot_item'[r] = slot_item'[s] /\ slot_item'[r] # NoItem => r = s
    BY <1>8 DEF OnceInv
  <2>2. \A u, w \in Threads : pushed'[u] = pushed'[w] /\ pushed'[u] # NoItem => u = w
    BY <1>1, <1>2, <1>6 DEF OnceInv
  <2>3. \A u \in Threads, s \in RingSlots : pushed'[u] = slot_item'[s] => pushed'[u] = NoItem
    BY <1>1, <1>2, <1>5, <1>8 DEF OnceInv
  <2>4. \A j \in Items : state'[j] = "retired" =>
          (\E s \in RingSlots : slot_item'[s] = j) \/ (\E u \in Threads : pushed'[u] = j)
    <3> SUFFICES ASSUME NEW j \in Items, state'[j] = "retired"
                 PROVE  (\E s \in RingSlots : slot_item'[s] = j) \/ (\E u \in Threads : pushed'[u] = j)
      OBVIOUS
    <3>1. CASE j = i
      BY <3>1, <1>2
    <3>2. CASE j # i
      <4>1. state[j] = "retired"
        BY <3>2, <1>3
      <4>2. CASE \E s \in RingSlots : slot_item[s] = j
        BY <4>2, <1>8
      <4>3. CASE \E u \in Threads : pushed[u] = j
        <5>1. PICK u \in Threads : pushed[u] = j
          BY <4>3
        <5>2. u # t \/ pushed[t] = NoItem
          BY <1>10 DEF ItemInv
        <5>3. QED
          BY <5>1, <5>2, <1>1, <1>2
      <4>4. QED
        BY <4>1, <4>2, <4>3 DEF OnceInv
    <3>3. QED
      BY <3>1, <3>2
  <2>5. QED
    BY <2>1, <2>2, <2>3, <2>4 DEF OnceInv
<1>13. QED
  BY <1>7, <1>11, <1>12

\* Uninitialize leaves a ring in which nothing waits.
LEMMA UninitializeStep ==
  ASSUME ListInv, Uninitialize
  PROVE  RingInv'
<1>1. \A t \in Threads : ~Working(t)' /\ ~Pushing(t)' /\ ~Working(t) /\ ~Pushing(t) /\ lpc'[t] = "idle"
  BY DEF Uninitialize, Working, Pushing, listCallVars
<1>2. pushed' = pushed /\ \A s \in RingSlots : slot_item'[s] = NoItem /\ slot_epoch'[s] = 0
  BY DEF Uninitialize, listCallVars
<1>3. \A t \in Threads : pushed[t] = NoItem
  BY <1>1 DEF ListInv, RingInv, ItemInv
<1>4. \A i \in Items : state'[i] # "retired"
  BY UninitializeReclaims, <1>1, <1>3, ListManagerAssumption
     DEF Uninitialize, ListInv, RingInv, OnceInv
<1>5. QED
  BY <1>1, <1>2, <1>3, <1>4 DEF RingInv, LockInv, ItemInv, OnceInv, Invalid

\* No step of the list, of its clients or of the manager breaks the ring.
LEMMA RingStep == ListInv /\ [ListNext]_listVars => RingInv'
<1> SUFFICES ASSUME ListInv, [ListNext]_listVars PROVE RingInv'
  OBVIOUS
<1>1. ASSUME \/ \E t \in Threads : Client(t) \/ ManagerCall(t)
             \/ \E i \in Items : Reuse(i)
             \/ UNCHANGED listVars
      PROVE  RingInv'
  BY <1>1, OthersAreQuiet, QuietStep
<1>2. ASSUME NEW t \in Threads, NEW i \in Items, PushStart(t, i) PROVE RingInv'
  BY <1>2, PushStartStep
<1>3. ASSUME NEW t \in Threads, PushClaim(t) \/ PushRead(t) \/ Scavenge(t) PROVE RingInv'
  <2>1. pushed[t] = NoItem \/ Pushing(t)
    BY DEF ListInv, RingInv, ItemInv
  <2>2. ~Working(t) /\ Moves(t)
    BY <1>3, <2>1 DEF PushClaim, PushRead, Scavenge, GoTo, Moves, Working, Pushing, ListInv, ListTypeOK
  <2>3. UNCHANGED <<state, removal_epoch, slot_epoch, slot_item>>
    BY <1>3 DEF PushClaim, PushRead, Scavenge, vars, slotVars
  <2>4. QED
    BY <2>2, <2>3, MoveStep
<1>4. ASSUME NEW t \in Threads, PushBump(t) PROVE RingInv'
  <2>1. ~Working(t) /\ Moves(t)
    BY <1>4 DEF PushBump, GoTo, Moves, Working, Pushing, ListInv, ListTypeOK
  <2>2. UNCHANGED <<state, removal_epoch, slot_epoch, slot_item>>
    BY <1>4 DEF PushBump, BumpCurrentEpoch, clientVars, slotVars
  <2>3. QED
    BY <2>1, <2>2, MoveStep
<1>5. ASSUME NEW t \in Threads, PushLock(t) PROVE RingInv'
  <2>1. CASE slot_epoch[slot[t]] = prior[t]
    BY <1>5, <2>1, LockingStep
       DEF PushLock, LockSlot, GoTo, Working, Pushing, ListInv, ListTypeOK
  <2>2. CASE slot_epoch[slot[t]] # prior[t]
    <3>1. ~Working(t) /\ Moves(t)
      BY <1>5, <2>2 DEF PushLock, LockSlot, GoTo, Moves, Working, Pushing, ListInv, ListTypeOK
    <3>2. UNCHANGED <<state, removal_epoch, slot_epoch, slot_item>>
      BY <1>5, <2>2 DEF PushLock, LockSlot, vars
    <3>3. QED
      BY <3>1, <3>2, MoveStep
  <2>3. QED
    BY <2>1, <2>2
<1>6. ASSUME NEW t \in Threads, PushFill(t) PROVE RingInv'
  <2>1. Working(t) /\ Pushing(t)
    BY <1>6 DEF PushFill, Working, Pushing
  <2>2. CASE Restore(t) /\ GoTo(t, "claim") /\ UNCHANGED <<pushed, stamp, slot, prior>>
    <3>1. Moves(t) /\ lpc'[t] = "claim"
      BY <2>1, <2>2 DEF GoTo, Moves, Working, Pushing, ListInv, ListTypeOK
    <3>2. QED
      BY <2>1, <2>2, <3>1, RestoreStep
  <2>3. CASE Replace(t, pushed[t], stamp[t]) /\ ListReturn(t)
    <3>1. /\ pushed[t] \in Items /\ stamp[t] \in Nat /\ stamp[t] # 0
      BY <2>1 DEF ListInv, ListTypeOK, RingInv, ItemInv, Waiting
    <3>2. /\ \A u \in Threads : u # t =>
               /\ lpc'[u] = lpc[u] /\ slot'[u] = slot[u] /\ prior'[u] = prior[u]
               /\ pushed'[u] = pushed[u] /\ stamp'[u] = stamp[u]
          /\ pushed'[t] = NoItem /\ lpc'[t] = "idle"
      BY <2>3 DEF ListReturn, GoTo, ListInv, ListTypeOK
    <3>3. ~Working(t)' /\ ~Pushing(t)'
      BY <3>2 DEF Working, Pushing
    <3>4. QED
      BY <2>1, <2>3, <3>1, <3>2, <3>3, ReplaceStep, ListManagerAssumption
  <2>4. QED
    BY <1>6, <2>2, <2>3 DEF PushFill
<1>7. ASSUME NEW t \in Threads, ScavengeRead(t) PROVE RingInv'
  <2>1. ~Working(t) /\ ~Pushing(t) /\ UNCHANGED <<state, removal_epoch, slot_epoch, slot_item>>
    BY <1>7 DEF ScavengeRead, Working, Pushing, vars, slotVars
  <2>2. CASE slot_epoch[slot[t]] \in {0, Invalid}
    BY <1>7, <2>1, <2>2, NextSlotMoves, MoveStep DEF ScavengeRead
  <2>3. CASE slot_epoch[slot[t]] \notin {0, Invalid}
    <3>1. pushed[t] = NoItem
      BY <2>1 DEF ListInv, RingInv, ItemInv
    <3>2. Moves(t)
      BY <1>7, <2>3, <3>1 DEF ScavengeRead, GoTo, Moves, Working, Pushing, ListInv, ListTypeOK
    <3>3. QED
      BY <2>1, <3>2, MoveStep
  <2>4. QED
    BY <2>2, <2>3
<1>8. ASSUME NEW t \in Threads, ScavengeLock(t) PROVE RingInv'
  <2>1. ~Working(t) /\ ~Pushing(t) /\ UNCHANGED <<vars, slot_item>>
    BY <1>8 DEF ScavengeLock, Working, Pushing
  <2>2. CASE slot_epoch[slot[t]] = prior[t]
    BY <1>8, <2>1, <2>2, LockingStep
       DEF ScavengeLock, LockSlot, GoTo, Working, Pushing, ListInv, ListTypeOK
  <2>3. CASE slot_epoch[slot[t]] # prior[t]
    <3>1. NextSlot(t) /\ UNCHANGED slot_epoch
      BY <1>8, <2>3 DEF ScavengeLock, LockSlot
    <3>2. UNCHANGED <<state, removal_epoch>>
      BY <2>1 DEF vars
    <3>3. QED
      BY <2>1, <3>1, <3>2, NextSlotMoves, MoveStep
  <2>4. QED
    BY <2>2, <2>3
<1>9. ASSUME NEW t \in Threads, ScavengeReset(t) PROVE RingInv'
  <2>1. Working(t) /\ ~Pushing(t) /\ NextSlot(t)
    BY <1>9 DEF ScavengeReset, Working, Pushing
  <2>2. Moves(t) /\ lpc'[t] \notin {"lock", "scavenge_lock"}
    BY <2>1, NextSlotMoves
  <2>3. CASE Restore(t)
    BY <2>1, <2>2, <2>3, RestoreStep
  <2>4. CASE Replace(t, NoItem, 0)
    <3>1. pushed[t] = NoItem
      BY <2>1 DEF ListInv, RingInv, ItemInv
    <3>2. /\ \A u \in Threads : u # t =>
               /\ lpc'[u] = lpc[u] /\ slot'[u] = slot[u] /\ prior'[u] = prior[u]
               /\ pushed'[u] = pushed[u] /\ stamp'[u] = stamp[u]
          /\ ~Working(t)' /\ ~Pushing(t)' /\ pushed'[t] = NoItem
      BY <2>1, <2>2 DEF Moves
    <3>3. QED
      BY <2>1, <2>2, <2>4, <3>1, <3>2, ReplaceStep
  <2>5. QED
    BY <1>9, <2>3, <2>4 DEF ScavengeReset
<1>10. CASE Uninitialize
  BY <1>10, UninitializeStep
<1>11. QED
  BY <1>1, <1>2, <1>3, <1>4, <1>5, <1>6, <1>7, <1>8, <1>9, <1>10 DEF ListNext, ListStep

-----------------------------------------------------------------------------
(***************************************************************************)
(* The theorems.                                                           *)
(***************************************************************************)

\* The ring is correct in every reachable state: what a slot shows, and what
\* the thread that locked it remembers, is the removal epoch of its item.
THEOREM ListInvariant == ListSpec => []ListInv
<1>1. ListInit => ListInv
  <2> SUFFICES ASSUME ListInit PROVE ListInv
    OBVIOUS
  <2>1. BaseInv
    BY BaseInvInit DEF ListInit
  <2>2. ListTypeOK
    BY <2>1, ItemCountAssumption DEF ListInit, ListTypeOK, BaseInv, RingSlots
  <2>3. RingInv
    BY ListManagerAssumption
       DEF ListInit, Init, RingInv, LockInv, ItemInv, OnceInv, Working, Pushing, Invalid
  <2>4. QED
    BY <2>1, <2>2, <2>3 DEF ListInv
<1>2. ListInv /\ [ListNext]_listVars => ListInv'
  <2> SUFFICES ASSUME ListInv, [ListNext]_listVars PROVE ListInv'
    OBVIOUS
  <2>1. BaseInv'
    BY ListStepSimulation, TypeStep, TableStep, ClockStep DEF ListInv, BaseInv
  <2>2. QED
    BY <2>1, ListTypeStep, RingStep DEF ListInv
<1>3. QED
  BY <1>1, <1>2, PTL DEF ListSpec

\* Every slot the list computes is in the ring, and every epoch and item it
\* copies is one.
THEOREM ListTypeCorrect == ListSpec => []ListTypeOK
<1>1. ListInv => ListTypeOK
  BY DEF ListInv
<1>2. QED
  BY <1>1, ListInvariant, PTL

\* The list destroys an item only when EpochManager allows it: the list
\* implements the protocol of its clients, for every ring and every number of
\* threads.
THEOREM ListFollowsProtocol == ListSpec => FollowsEpochProtocol
<1>1. ListInit => Init
  BY DEF ListInit
<1>2. ListInv /\ [ListNext]_listVars => [Next]_vars
  BY ListStepSimulation
<1>3. QED
  BY <1>1, <1>2, ListInvariant, PTL DEF ListSpec, Spec, FollowsEpochProtocol

\* So Push, Scavenge and Uninitialize destroy no item that a thread in the region
\* holds whose protection could be seen when the item was retired, under the
\* assumption of ReclamationIsSafe.
THEOREM ListReclamationIsSafe ==
  ASSUME OneManager
  PROVE  ListSpec => []VisibleProtectionHolds
<1>1. Spec => []VisibleProtectionHolds
  BY ReclamationIsSafe
<1>2. QED
  BY <1>1, ListFollowsProtocol, PTL DEF FollowsEpochProtocol

\* The CAS to the invalid epoch is a lock: a locked slot has exactly one thread
\* at work on it in Push or Scavenge.
THEOREM SlotLocks == ListSpec => []SlotLockIsExclusive
<1>1. ListInv => SlotLockIsExclusive
  <2> SUFFICES ASSUME ListInv, NEW s \in RingSlots
               PROVE  Cardinality({t \in Threads : lpc[t] \in {"fill", "reset"} /\ slot[t] = s})
                        = IF slot_epoch[s] = Invalid THEN 1 ELSE 0
    BY DEF SlotLockIsExclusive
  <2> DEFINE At == {t \in Threads : lpc[t] \in {"fill", "reset"} /\ slot[t] = s}
  <2>1. CASE slot_epoch[s] = Invalid
    <3>1. PICK t \in Threads : Working(t) /\ slot[t] = s
      BY <2>1 DEF ListInv, RingInv, LockInv
    <3>2. At = {t}
      BY <3>1 DEF ListInv, RingInv, LockInv, Working
    <3>3. QED
      BY <2>1, <3>2, FS_Singleton
  <2>2. CASE slot_epoch[s] # Invalid
    <3>1. At = {}
      BY <2>2 DEF ListInv, RingInv, LockInv, Working
    <3>2. QED
      BY <2>2, <3>1, FS_EmptySet
  <2>3. QED
    BY <2>1, <2>2
<1>2. QED
  BY <1>1, ListInvariant, PTL

\* An item that waits in a slot or with a pushing thread has been retired.
LEMMA WaitingIsRetired ==
  ASSUME ListInv, NEW i \in Items,
         (\E s \in RingSlots : slot_item[s] = i) \/ (\E t \in Threads : pushed[t] = i)
  PROVE  state[i] = "retired"
<1> USE ListManagerAssumption DEF ListInv, RingInv
<1>1. ASSUME NEW s \in RingSlots, slot_item[s] = i PROVE state[i] = "retired"
  <2>1. CASE slot_epoch[s] = Invalid
    <3>1. PICK t \in Threads : Working(t) /\ slot[t] = s
      BY <2>1 DEF LockInv
    <3>2. QED
      BY <1>1, <3>1 DEF ItemInv, Waiting
  <2>2. CASE slot_epoch[s] # Invalid
    BY <1>1, <2>2 DEF ItemInv, Waiting
  <2>3. QED
    BY <2>1, <2>2
<1>2. ASSUME NEW t \in Threads, pushed[t] = i PROVE state[i] = "retired"
  BY <1>2 DEF ItemInv, Waiting
<1>3. QED
  BY <1>1, <1>2

\* No item is lost and none is destroyed twice: a retired item waits in exactly
\* one slot or with exactly one thread that pushes it, and no other item waits.
THEOREM OnePlace == ListSpec => []WaitsInOnePlace
<1>1. ListInv => WaitsInOnePlace
  <2> SUFFICES ASSUME ListInv, NEW i \in Items
               PROVE  Cardinality({s \in RingSlots : slot_item[s] = i}) +
                      Cardinality({t \in Threads : pushed[t] = i})
                        = IF state[i] = "retired" THEN 1 ELSE 0
    BY DEF WaitsInOnePlace
  <2> DEFINE InRing == {s \in RingSlots : slot_item[s] = i}
             WithThread == {t \in Threads : pushed[t] = i}
  <2>0. Cardinality({}) = 0
    BY FS_EmptySet
  <2>1. CASE state[i] # "retired"
    <3>1. InRing = {} /\ WithThread = {}
      BY <2>1, WaitingIsRetired
    <3>2. QED
      BY <2>0, <2>1, <3>1
  <2>2. CASE state[i] = "retired" /\ InRing # {}
    <3>1. PICK s \in RingSlots : slot_item[s] = i
      BY <2>2
    <3>2. InRing = {s} /\ WithThread = {}
      BY <3>1, ListManagerAssumption DEF ListInv, RingInv, OnceInv
    <3>3. Cardinality(InRing) = 1 /\ Cardinality(WithThread) = 0
      BY <2>0, <3>2, FS_Singleton
    <3>4. QED
      BY <2>2, <3>3
  <2>3. CASE state[i] = "retired" /\ InRing = {}
    <3>1. PICK t \in Threads : pushed[t] = i
      BY <2>3 DEF ListInv, RingInv, OnceInv
    <3>2. WithThread = {t}
      BY <3>1, ListManagerAssumption DEF ListInv, RingInv, OnceInv
    <3>3. Cardinality(InRing) = 0 /\ Cardinality(WithThread) = 1
      BY <2>0, <2>3, <3>2, FS_Singleton
    <3>4. QED
      BY <2>3, <3>3
  <2>4. QED
    BY <2>1, <2>2, <2>3
<1>2. QED
  BY <1>1, ListInvariant, PTL

=============================================================================
