----------------------------- MODULE ThreadTls ------------------------------
(***************************************************************************)
(* Thread and its registry of thread-local variables                       *)
(* (src/common/environment_internal), with the one variable that the       *)
(* descriptor pool keeps per thread, tls_part.                             *)
(*                                                                         *)
(* A thread-local variable is memory of the thread that the system may use *)
(* again: it is named by the id of the thread, which is free for another   *)
(* thread once std::thread::join has returned.                             *)
(***************************************************************************)
EXTENDS Naturals, FiniteSets

CONSTANTS
  Threads,   \* objects of class Thread, and the main thread
  Main,
  Ids,       \* values of std::thread::id
  NoId,
  NoPart     \* nullptr, the value that RegisterTls is given

ASSUME MainAssumption == Main \in Threads
\* The system has an id for every thread.
ASSUME IdsAssumption ==
  /\ IsFiniteSet(Threads) /\ IsFiniteSet(Ids)
  /\ Cardinality(Threads) <= Cardinality(Ids)

VARIABLES
  life,      \* [Threads -> {"new", "running", "exited", "joined", "destroyed"}]
  id,        \* [Threads -> Ids]: Thread::id_
  tls_part,  \* [Ids -> partition of a pool or NoPart]
  registry   \* [Ids -> {"absent", "empty", "listed"}]: the list of the id

tlsVars == <<life, id, tls_part, registry>>

Running(t) == life[t] = "running"
Become(t, l) == life' = [life EXCEPT ![t] = l]

TlsInit ==
  /\ id = [t \in Threads |-> IF t = Main THEN CHOOSE i \in Ids : TRUE ELSE NoId]
  /\ life = [t \in Threads |-> IF t = Main THEN "running" ELSE "new"]
  /\ tls_part = [i \in Ids |-> NoPart]
  /\ registry = [i \in Ids |-> "absent"]

\* Callers start their threads together, and not before the Thread objects of
\* earlier ones are gone (PerformanceTest::Run).  The id is always the first
\* that is free, so ids are used again as soon as they can be.
StartThread(t) ==
  /\ life[t] = "new"
  /\ \A u \in Threads : life[u] \in {"new", "running", "destroyed"}
  /\ LET i == CHOOSE i \in Ids : \A u \in Threads : Running(u) => id[u] # i
     IN  /\ id' = [id EXCEPT ![t] = i]
         /\ tls_part' = [tls_part EXCEPT ![i] = NoPart]
  /\ Become(t, "running")
  /\ UNCHANGED registry

ExitThread(t) ==
  /\ Running(t)
  /\ t # Main
  /\ Become(t, "exited")
  /\ UNCHANGED <<id, tls_part, registry>>

\* ClearTls of the thread with id i.
Listed(i) == registry[i] = "listed"
ClearTls(i, destroy) ==
  /\ tls_part' = IF Listed(i) THEN [tls_part EXCEPT ![i] = NoPart] ELSE tls_part
  /\ registry' = [registry EXCEPT ![i] = IF @ = "absent" \/ destroy THEN "absent" ELSE "empty"]

\* join(), which waits for the thread and then clears its variables.
JoinThread(t) ==
  /\ life[t] = "exited"
  /\ \A u \in Threads \ {Main} : ~Running(u)
  /\ ClearTls(id[t], FALSE)
  /\ Become(t, "joined")
  /\ UNCHANGED id

DestroyThread(t) ==
  /\ life[t] = "joined"
  /\ ClearTls(id[t], TRUE)
  /\ Become(t, "destroyed")
  /\ UNCHANGED id

\* RegisterTls, with the assignment before it.
AssignTls(t, p) ==
  /\ tls_part' = [tls_part EXCEPT ![id[t]] = p]
  /\ registry' = [registry EXCEPT ![id[t]] = "listed"]
  /\ UNCHANGED <<life, id>>

\* Mutant: the lists go, the variables stay.
ClearListsOnly(destroy) ==
  /\ registry' = [i \in Ids |-> IF registry[i] = "absent" \/ destroy THEN "absent" ELSE "empty"]
  /\ UNCHANGED <<life, id, tls_part>>

ClearRegistry(destroy) ==
  /\ tls_part' = [i \in Ids |-> IF Listed(i) THEN NoPart ELSE tls_part[i]]
  /\ registry' = [i \in Ids |-> IF registry[i] = "absent" \/ destroy THEN "absent" ELSE "empty"]
  /\ UNCHANGED <<life, id>>

ThreadSteps ==
  \E t \in Threads : StartThread(t) \/ ExitThread(t) \/ JoinThread(t) \/ DestroyThread(t)
=============================================================================
