---------------------------- MODULE AtomicMwCAS -----------------------------
(***************************************************************************)
(* What a multi-word compare-and-swap promises (src/mwcas/mwcas.h): the    *)
(* words of an operation change from their old to their new values in one  *)
(* step, or none of them does; an operation fails only if some word did    *)
(* not have its old value at some time during the operation; a crash       *)
(* changes no word, and only undecided operations are given up.            *)
(***************************************************************************)
EXTENDS Naturals

CONSTANTS
  Words,    \* addresses
  Descs,    \* operations
  Ops,      \* [Descs -> set of operations]
  Initial   \* the value every word starts with

VARIABLES
  value,    \* [Words -> values]
  entries,  \* [Descs -> [a set of Words -> [old, new]]]
  outcome,  \* [Descs -> {"idle", "pending", "doomed", "succeeded", "failed", "aborted"}]
  result    \* [Descs -> {"none", "true", "false"}]: what the call returned

vars == <<value, entries, outcome, result>>

Init ==
  /\ value = [a \in Words |-> Initial]
  /\ entries = [d \in Descs |-> << >>]
  /\ outcome = [d \in Descs |-> "idle"]
  /\ result = [d \in Descs |-> "none"]

Become(d, o) == outcome' = [outcome EXCEPT ![d] = o]

Begin(d) ==
  /\ outcome[d] = "idle"
  /\ Become(d, "pending")
  /\ \E e \in Ops[d] : entries' = [entries EXCEPT ![d] = e]
  /\ UNCHANGED <<value, result>>

\* Some word has another value than the operation expects.
Mismatch(d) ==
  /\ outcome[d] = "pending"
  /\ \E a \in DOMAIN entries[d] : value[a] # entries[d][a].old
  /\ Become(d, "doomed")
  /\ UNCHANGED <<value, entries, result>>

Succeed(d) ==
  /\ outcome[d] \in {"pending", "doomed"}
  /\ \A a \in DOMAIN entries[d] : value[a] = entries[d][a].old
  /\ value' = [a \in Words |-> IF a \in DOMAIN entries[d] THEN entries[d][a].new ELSE value[a]]
  /\ Become(d, "succeeded")
  /\ UNCHANGED <<entries, result>>

Fail(d) ==
  /\ outcome[d] = "doomed"
  /\ Become(d, "failed")
  /\ UNCHANGED <<value, entries, result>>

Return(d) ==
  /\ outcome[d] \in {"succeeded", "failed"}
  /\ result[d] = "none"
  /\ result' = [result EXCEPT ![d] = IF outcome[d] = "succeeded" THEN "true" ELSE "false"]
  /\ UNCHANGED <<value, entries, outcome>>

Crash ==
  /\ outcome' = [d \in Descs |-> IF outcome[d] \in {"pending", "doomed"}
                                 THEN "aborted" ELSE outcome[d]]
  /\ UNCHANGED <<value, entries, result>>

Next ==
  \/ \E d \in Descs : Begin(d) \/ Mismatch(d) \/ Succeed(d) \/ Fail(d) \/ Return(d)
  \/ Crash

Spec == Init /\ [][Next]_vars
=============================================================================
