--------------------------- MODULE PersistentMwCAS --------------------------
(***************************************************************************)
(* The persistent multi-word compare-and-swap of src/mwcas/mwcas.{h,cc}:   *)
(* Descriptor::PersistentMwCAS with CondCAS and helping, the persistent    *)
(* GetValue, and DescriptorPool::Recovery after a crash of the process     *)
(* whose memory survives (shared memory or NVRAM whose caches are flushed  *)
(* on failure).                                                            *)
(*                                                                         *)
(* A step is one access to a shared word or status; each thread has a      *)
(* stack of calls, because helping calls PersistentMwCAS recursively.  A   *)
(* descriptor serves one operation: its reuse is the business of the pool  *)
(* and of epoch protection, under which every operation here runs.         *)
(* Flushes have no effect on surviving memory, and are left out.           *)
(***************************************************************************)
EXTENDS Naturals, Sequences, FiniteSets, FiniteSetsExt

CONSTANTS
  Threads,
  Descs,       \* descriptors of the pool
  Index,       \* [Descs -> Nat]: their places in descriptors_
  Words,       \* addresses of target words, positive numbers
  Values,      \* the values of words
  Initial,     \* the value every word starts with
  Owner,       \* [Descs -> Threads]: the partition's thread
  Ops,         \* [Descs -> set of operations]: what the owner may ask for;
               \* an operation maps addresses to old and new values
  Reads,       \* [Threads -> Nat]: bound on the GetValue calls of a thread
  Injects,     \* [Descs -> SUBSET {"undecided", "decided"}]: where the operation
               \* may stop, if it is called as MwCASWithFailure
  MaxCrashes   \* bound on the number of crashes

ASSUME WordsAssumption == Words \subseteq Nat \ {0}
ASSUME InitialAssumption == Initial \in Values
ASSUME OwnerAssumption == Owner \in [Descs -> Threads]
ASSUME DescsAssumption == "none" \notin Descs   \* it stands for no descriptor
ASSUME IndexAssumption ==
  Index \in [Descs -> Nat] /\ \A d, e \in Descs : Index[d] = Index[e] => d = e
ASSUME OpsAssumption ==
  \A d \in Descs : \A op \in Ops[d] :
    /\ DOMAIN op \subseteq Words
    /\ DOMAIN op # {}
    /\ \A a \in DOMAIN op : op[a] \in [old : Values, new : Values]
ASSUME InjectsAssumption == Injects \in [Descs -> SUBSET {"undecided", "decided"}]
ASSUME BoundsAssumption == Reads \in [Threads -> Nat] /\ MaxCrashes \in Nat

VARIABLES
  mem,         \* [Words -> Word]
  status,      \* [Descs -> Status]  status_ without its dirty bit
  dirty,       \* [Descs -> BOOLEAN] kStatusDirtyFlag
  entries,     \* [Descs -> operation]  words_
  stack,       \* [Threads -> Seq(frame)], the innermost call first
  reads,       \* [Threads -> Nat]: GetValue calls left
  outcome,     \* history: what became of each operation
  result,      \* [Descs -> {"none", "true", "false"}]: what MwCAS() returned
  crashes,     \* number of crashes so far
  todo,        \* the words, by descriptor, that Recovery has still to look at
  mode         \* "running", in Recovery ("recovering") or InitDescriptors ("clearing",
               \* "constructing"), or the RAW_CHECK that stopped Recovery

memVars == <<mem, status, dirty, entries>>
historyVars == <<outcome, result>>
crashVars == <<crashes, todo, mode>>
vars == <<mem, status, dirty, entries, stack, reads, outcome, result, crashes, todo, mode>>

(***************************************************************************)
(* A word holds a value, a pointer to a descriptor (kMwCASFlag), or a      *)
(* pointer to a word descriptor (kCondCASFlag); kDirtyFlag may be set on   *)
(* the first two.  The word descriptor of d in the word at address a is    *)
(* the one for a, so it is named by d alone.                               *)
(***************************************************************************)
Value(v, dirt) == [kind |-> "value", of |-> v, dirty |-> dirt]
MwCASPtr(d, dirt) == [kind |-> "mwcas", of |-> d, dirty |-> dirt]
CondCASPtr(d) == [kind |-> "cond", of |-> d, dirty |-> FALSE]
Clean(w) == [kind |-> w.kind, of |-> w.of, dirty |-> FALSE]

Word == {Value(v, b) : v \in Values, b \in BOOLEAN} \cup
        {MwCASPtr(d, b) : d \in Descs, b \in BOOLEAN} \cup
        {CondCASPtr(d) : d \in Descs}

Decided == {"succeeded", "failed"}
InUse(d) == status[d] \notin {"invalid", "finished"}

\* The words of a descriptor are visited in address order (std::sort).  0 is
\* the end.
AddressAfter(d, a) ==
  LET later == {b \in DOMAIN entries[d] : b > a}
  IN  IF later = {} THEN 0 ELSE Min(later)
First(d) == AddressAfter(d, 0)

(***************************************************************************)
(* A frame is a call of PersistentMwCAS on desc, or of GetValue (pc "read" *)
(* and so on, desc unused); a is the address at hand, seen a word that was *)
(* read, new the word that is about to be swapped in, and decision is      *)
(* my_status, or the outcome once there is one.                            *)
(***************************************************************************)
NoWord == [kind |-> "none", of |-> Initial, dirty |-> FALSE]

Call(d) == [pc |-> "enter", desc |-> d, a |-> 0, seen |-> NoWord, new |-> NoWord,
            decision |-> "succeeded"]
ReadCall(a) == [pc |-> "read", desc |-> "none", a |-> a, seen |-> NoWord, new |-> NoWord,
                decision |-> "none"]

Top(t) == Head(stack[t])
At(t, label) == mode = "running" /\ stack[t] # << >> /\ Top(t).pc = label

\* The innermost call of t goes on as f.
Continue(t, f) == stack' = [stack EXCEPT ![t] = <<f>> \o Tail(@)]
Jump(t, label) == Continue(t, [Top(t) EXCEPT !.pc = label, !.seen = NoWord, !.new = NoWord])
\* ... calls PersistentMwCAS(calldepth + 1) on d, and retries when it returns.
Help(t, f, d) == stack' = [stack EXCEPT ![t] = <<Call(d), f>> \o Tail(@)]

\* A CAS of the word at address a: want is replaced by new.
CAS(a, new, want) == mem' = IF mem[a] = want THEN [mem EXCEPT ![a] = new] ELSE mem

\* The next word in this phase, or the first word in the next phase.
Advance(t, phase, nextPhase) ==
  LET f == Top(t)
      b == AddressAfter(f.desc, f.a)
      g == [f EXCEPT !.seen = NoWord, !.new = NoWord]
  IN  Continue(t, IF b # 0 THEN [g EXCEPT !.pc = phase, !.a = b]
                           ELSE [g EXCEPT !.pc = nextPhase, !.a = First(f.desc)])

\* The outermost call returns through Cleanup(), which reports the status; a
\* helper's call goes back to the caller.
Leave(t) ==
  LET d == Top(t).desc IN
  /\ stack' = [stack EXCEPT ![t] = Tail(@)]
  /\ result' = IF Len(stack[t]) = 1 /\ Top(t).desc # "none"
               THEN [result EXCEPT ![d] = IF status[d] = "succeeded" THEN "true" ELSE "false"]
               ELSE result

Init ==
  /\ mem = [a \in Words |-> Value(Initial, FALSE)]
  /\ status = [d \in Descs |-> "finished"]
  /\ dirty = [d \in Descs |-> FALSE]
  /\ entries = [d \in Descs |-> << >>]
  /\ stack = [t \in Threads |-> << >>]
  /\ reads = Reads
  /\ outcome = [d \in Descs |-> "idle"]
  /\ result = [d \in Descs |-> "none"]
  /\ crashes = 0
  /\ todo = {}
  /\ mode = "running"

-----------------------------------------------------------------------------
(***************************************************************************)
(* PersistentMwCAS.                                                        *)
(***************************************************************************)

\* AllocateDescriptor, AddEntry for each word, and the call of MwCAS(), which
\* makes the descriptor undecided; nobody else knows the descriptor yet.
Begin(t, d) ==
  /\ mode = "running"
  /\ stack[t] = << >>
  /\ Owner[d] = t
  /\ outcome[d] = "idle"
  /\ \E op \in Ops[d] : entries' = [entries EXCEPT ![d] = op]
  /\ status' = [status EXCEPT ![d] = "undecided"]
  /\ stack' = [stack EXCEPT ![t] = <<Call(d)>>]
  /\ outcome' = [outcome EXCEPT ![d] = "pending"]
  /\ UNCHANGED <<mem, dirty, reads, result, crashVars>>

\* Read the status: an operation that is decided is left to its owner.
Enter(t) ==
  LET d == Top(t).desc IN
  /\ At(t, "enter")
  /\ \/ /\ status[d] = "undecided"
        /\ Continue(t, [Top(t) EXCEPT !.pc = "install", !.a = First(d)])
        /\ UNCHANGED result
     \/ dirty[d] /\ Jump(t, "clear_status") /\ UNCHANGED result
     \/ status[d] # "undecided" /\ ~dirty[d] /\ Leave(t)
  /\ UNCHANGED <<memVars, reads, outcome, crashVars>>

ClearStatus(t) ==
  /\ At(t, "clear_status")
  /\ dirty' = [dirty EXCEPT ![Top(t).desc] = FALSE]
  /\ Leave(t)
  /\ UNCHANGED <<mem, status, entries, reads, outcome, crashVars>>

\* CleanPtr(rval) == this: the word already refers to d.
\* Mutant: a word descriptor of d counts, too.
InstalledOrCond(w, d) == w.kind \in {"mwcas", "cond"} /\ w.of = d
Installed(w, d) == w.kind = "mwcas" /\ w.of = d

\* The first CAS of CondCAS, and what the install loop does with the result: a
\* word that is dirty makes the thread retry (no step), a word of another
\* operation makes it help, another value makes the operation fail.
Install(t) ==
  LET f == Top(t)
      d == f.desc
      old == entries[d][f.a].old
      w == mem[f.a]
  IN
  /\ At(t, "install")
  /\ \/ /\ w = Value(old, FALSE)
        /\ CAS(f.a, CondCASPtr(d), Value(old, FALSE))
        /\ Jump(t, "cond_status")
        /\ UNCHANGED outcome
     \/ /\ w.kind = "cond"
        /\ Continue(t, [f EXCEPT !.pc = "help_status", !.seen = w])
        /\ UNCHANGED <<mem, outcome>>
     \/ /\ Installed(w, d)
        /\ Advance(t, "install", "persist")
        /\ UNCHANGED <<mem, outcome>>
     \/ /\ w.kind = "mwcas" /\ w.of # d /\ ~w.dirty
        /\ Help(t, f, w.of)
        /\ UNCHANGED <<mem, outcome>>
     \/ /\ w.kind = "value" /\ w.of # old /\ ~w.dirty
        /\ Continue(t, [f EXCEPT !.pc = "decide", !.decision = "failed"])
        /\ outcome' = IF outcome[d] = "pending" THEN [outcome EXCEPT ![d] = "doomed"] ELSE outcome
        /\ UNCHANGED mem
  /\ UNCHANGED <<status, dirty, entries, reads, result, crashVars>>

\* CondCAS reads the status of the operation that the word descriptor belongs
\* to, to choose between its descriptor and its old value ...
Choose(d, a) ==
  IF status[d] = "undecided" THEN MwCASPtr(d, TRUE) ELSE Value(entries[d][a].old, FALSE)

CondStatus(t) ==
  LET f == Top(t) IN
  /\ At(t, "cond_status")
  /\ Continue(t, [f EXCEPT !.pc = "cond_swap", !.new = Choose(f.desc, f.a)])
  /\ UNCHANGED <<memVars, reads, historyVars, crashVars>>

\* ... and swaps that in for its word descriptor, in a step of its own.
CondSwap(t) ==
  LET f == Top(t) IN
  /\ At(t, "cond_swap")
  /\ CAS(f.a, f.new, CondCASPtr(f.desc))
  /\ Advance(t, "install", "persist")
  /\ UNCHANGED <<status, dirty, entries, reads, historyVars, crashVars>>

\* The same for a word descriptor that was found in the word.  The status is
\* read for desired, the word is read again, the status is read for the swap.
HelpStatus(t) ==
  LET f == Top(t) IN
  /\ At(t, "help_status")
  /\ Continue(t, [f EXCEPT !.pc = IF status[f.seen.of] = "undecided"
                                  THEN "help_check_dptr" ELSE "help_check"])
  /\ UNCHANGED <<memVars, reads, historyVars, crashVars>>

HelpCheck(t) ==
  LET f == Top(t) IN
  /\ At(t, "help_check") \/ At(t, "help_check_dptr")
  /\ IF mem[f.a] # f.seen
     THEN Jump(t, "install")
     ELSE Continue(t, [f EXCEPT !.pc = IF @ = "help_check" THEN "help_choose" ELSE "help_choose_dptr"])
  /\ UNCHANGED <<memVars, reads, historyVars, crashVars>>

HelpChoose(t) ==
  LET f == Top(t) IN
  /\ At(t, "help_choose") \/ At(t, "help_choose_dptr")
  /\ Continue(t, [f EXCEPT !.pc = IF @ = "help_choose" THEN "help_swap" ELSE "help_swap_dptr",
                           !.new = Choose(f.seen.of, f.a)])
  /\ UNCHANGED <<memVars, reads, historyVars, crashVars>>

\* If the swap succeeds and desired was the descriptor, CondCAS returns it:
\* the word is installed if the operation is the caller's own; that of another
\* operation is dirty, so the entry is retried, as it is in all other cases.
HelpSwap(t) ==
  LET f == Top(t) IN
  /\ At(t, "help_swap") \/ At(t, "help_swap_dptr")
  /\ CAS(f.a, f.new, f.seen)
  /\ IF f.pc = "help_swap_dptr" /\ mem[f.a] = f.seen /\ f.seen.of = f.desc
     THEN Advance(t, "install", "persist")
     ELSE Jump(t, "install")
  /\ UNCHANGED <<status, dirty, entries, reads, historyVars, crashVars>>

\* All words are installed: flush each pointer and clear its dirty bit.
Persist(t) ==
  LET f == Top(t) IN
  /\ At(t, "persist")
  /\ IF mem[f.a] = MwCASPtr(f.desc, TRUE)
     THEN Jump(t, "persist_clear")
     ELSE Advance(t, "persist", "decide")
  /\ UNCHANGED <<memVars, reads, historyVars, crashVars>>

PersistClear(t) ==
  LET f == Top(t) IN
  /\ At(t, "persist_clear")
  /\ CAS(f.a, MwCASPtr(f.desc, FALSE), MwCASPtr(f.desc, TRUE))
  /\ Advance(t, "persist", "decide")
  /\ UNCHANGED <<status, dirty, entries, reads, historyVars, crashVars>>

\* Mutant of Decide: the status is stored, not compared and swapped.
DecideBlindly(t) ==
  LET f == Top(t)
      d == f.desc
  IN
  /\ At(t, "decide")
  /\ status' = [status EXCEPT ![d] = f.decision]
  /\ dirty' = [dirty EXCEPT ![d] = TRUE]
  /\ outcome' = [outcome EXCEPT ![d] = f.decision]
  /\ Jump(t, "settle")
  /\ UNCHANGED <<mem, entries, reads, result, crashVars>>

\* The CAS of the status decides the operation, once.
Decide(t) ==
  LET f == Top(t)
      d == f.desc
  IN
  /\ At(t, "decide")
  /\ IF status[d] = "undecided"
     THEN /\ status' = [status EXCEPT ![d] = f.decision]
          /\ dirty' = [dirty EXCEPT ![d] = TRUE]
          /\ outcome' = [outcome EXCEPT ![d] = f.decision]
     ELSE UNCHANGED <<status, dirty, outcome>>
  /\ Jump(t, "settle")
  /\ UNCHANGED <<mem, entries, reads, result, crashVars>>

\* PersistStatus, clear the status's dirty bit and read the outcome: a decided
\* status changes no more, so these are one step.
Settle(t) ==
  LET f == Top(t)
      d == f.desc
  IN
  /\ At(t, "settle")
  /\ dirty' = [dirty EXCEPT ![d] = FALSE]
  /\ Continue(t, [f EXCEPT !.pc = "final", !.a = First(d), !.decision = status[d]])
  /\ UNCHANGED <<mem, status, entries, reads, historyVars, crashVars>>

\* Phase 2: swap the final value, dirty, for the pointer to the descriptor,
\* which may or may not be dirty itself; then flush it and clear the bit.
FinalValue(f) ==
  LET e == entries[f.desc][f.a] IN IF f.decision = "succeeded" THEN e.new ELSE e.old

\* Mutant: no second try when somebody has cleared the dirty bit of the pointer.
FinalOnce(t) ==
  LET f == Top(t) IN
  /\ At(t, "final")
  /\ CAS(f.a, Value(FinalValue(f), TRUE), MwCASPtr(f.desc, TRUE))
  /\ Jump(t, "final_clear")
  /\ UNCHANGED <<status, dirty, entries, reads, historyVars, crashVars>>

Final(t) ==
  LET f == Top(t) IN
  /\ At(t, "final")
  /\ CAS(f.a, Value(FinalValue(f), TRUE), MwCASPtr(f.desc, TRUE))
  /\ Jump(t, IF mem[f.a] = MwCASPtr(f.desc, FALSE) THEN "final_retry" ELSE "final_clear")
  /\ UNCHANGED <<status, dirty, entries, reads, historyVars, crashVars>>

FinalRetry(t) ==
  LET f == Top(t) IN
  /\ At(t, "final_retry")
  /\ CAS(f.a, Value(FinalValue(f), TRUE), MwCASPtr(f.desc, FALSE))
  /\ Jump(t, "final_clear")
  /\ UNCHANGED <<status, dirty, entries, reads, historyVars, crashVars>>

FinalClear(t) ==
  LET f == Top(t) IN
  /\ At(t, "final_clear")
  /\ CAS(f.a, Value(FinalValue(f), FALSE), Value(FinalValue(f), TRUE))
  /\ IF AddressAfter(f.desc, f.a) = 0
     THEN Leave(t)
     ELSE Advance(t, "final", "none") /\ UNCHANGED result
  /\ UNCHANGED <<status, dirty, entries, reads, outcome, crashVars>>

\* PersistentMwCASWithFailure returns before it decides the operation, or
\* before phase 2 (complete_descriptor_install).  Only the owner calls it, and
\* adds the words in address order, because this function does not sort them.
Stop(t) ==
  LET f == Top(t) IN
  /\ \/ At(t, "decide") /\ "undecided" \in Injects[f.desc]
     \/ At(t, "final") /\ f.a = First(f.desc) /\ "decided" \in Injects[f.desc]
  /\ Len(stack[t]) = 1
  /\ stack' = [stack EXCEPT ![t] = << >>]
  /\ UNCHANGED <<memVars, reads, historyVars, crashVars>>

-----------------------------------------------------------------------------
(***************************************************************************)
(* GetValuePersistent / GetValueProtectedPersistent.                       *)
(***************************************************************************)

BeginRead(t, a) ==
  /\ mode = "running"
  /\ stack[t] = << >>
  /\ reads[t] > 0
  /\ reads' = [reads EXCEPT ![t] = @ - 1]
  /\ stack' = [stack EXCEPT ![t] = <<ReadCall(a)>>]
  /\ UNCHANGED <<memVars, historyVars, crashVars>>

Read(t) ==
  LET f == Top(t)
      w == mem[f.a]
  IN
  /\ At(t, "read")
  /\ \/ w.kind = "cond" /\ Continue(t, [f EXCEPT !.pc = "read_status", !.seen = w]) /\ UNCHANGED result
     \/ w.dirty /\ Continue(t, [f EXCEPT !.pc = "read_clear", !.seen = w]) /\ UNCHANGED result
     \/ w.kind = "mwcas" /\ ~w.dirty /\ Help(t, f, w.of) /\ UNCHANGED result
     \/ w.kind = "value" /\ ~w.dirty /\ Leave(t)
  /\ UNCHANGED <<memVars, reads, outcome, crashVars>>

ReadStatus(t) ==
  LET f == Top(t) IN
  /\ At(t, "read_status")
  /\ Continue(t, [f EXCEPT !.pc = "read_swap", !.new = Choose(f.seen.of, f.a)])
  /\ UNCHANGED <<memVars, reads, historyVars, crashVars>>

ReadSwap(t) ==
  LET f == Top(t) IN
  /\ At(t, "read_swap")
  /\ CAS(f.a, f.new, f.seen)
  /\ Jump(t, "read")
  /\ UNCHANGED <<status, dirty, entries, reads, historyVars, crashVars>>

\* PersistValue, clear the dirty bit, then help or return the value read.
ReadClear(t) ==
  LET f == Top(t) IN
  /\ At(t, "read_clear")
  /\ CAS(f.a, Clean(f.seen), f.seen)
  /\ IF f.seen.kind = "mwcas"
     THEN Help(t, [f EXCEPT !.pc = "read", !.seen = NoWord], f.seen.of) /\ UNCHANGED result
     ELSE Leave(t)
  /\ UNCHANGED <<status, dirty, entries, reads, outcome, crashVars>>

-----------------------------------------------------------------------------
(***************************************************************************)
(* A crash of the process ends all calls; Recovery then looks at each      *)
(* word of each descriptor, and InitDescriptors clears the pool and        *)
(* constructs the descriptors again.  A crash may come at any of these     *)
(* steps, too.                                                             *)
(***************************************************************************)

\* A descriptor that is all zero has status kStatusInvalid.  If the first one
\* is, Recovery takes the pool for a new one and looks at nothing.
FirstIsInvalid == \E d \in Descs : Index[d] = 0 /\ status[d] = "invalid"

Crash ==
  /\ mode \in {"running", "recovering", "clearing", "constructing"}
  /\ crashes < MaxCrashes
  /\ crashes' = crashes + 1
  /\ stack' = [t \in Threads |-> << >>]
  /\ outcome' = [d \in Descs |-> IF outcome[d] \in {"pending", "doomed"}
                                 THEN "aborted" ELSE outcome[d]]
  /\ mode' = "recovering"
  /\ todo' = IF FirstIsInvalid THEN {}
             ELSE {x \in Descs \X Words : InUse(x[1]) /\ x[2] \in DOMAIN entries[x[1]]}
  /\ UNCHANGED <<memVars, reads, result>>

\* RAW_CHECK(i == 0): a clear descriptor after one that is not.
FindInvalid(d) ==
  /\ mode = "recovering"
  /\ status[d] = "invalid" /\ ~FirstIsInvalid
  /\ \A x \in todo : Index[d] < Index[x[1]]
  /\ mode' = "corrupted"
  /\ UNCHANGED <<memVars, stack, reads, historyVars, crashes, todo>>

\* Mutant of RolledWord: word descriptors are not rolled back.
RollDescriptorsOnly(d, a) ==
  IF mem[a].kind = "mwcas" /\ mem[a].of = d
  THEN Value(IF status[d] = "succeeded" THEN entries[d][a].new ELSE entries[d][a].old, FALSE)
  ELSE mem[a]

\* Roll a word that still refers to d back, or forward if d has succeeded.
RolledWord(d, a) ==
  LET w == mem[a] IN
  IF w.kind \in {"mwcas", "cond"} /\ w.of = d
  THEN Value(IF status[d] = "succeeded" THEN entries[d][a].new ELSE entries[d][a].old, FALSE)
  ELSE w

\* RAW_CHECK(val != &word): a succeeded operation has no word descriptors left.
InvalidField(d, a) == status[d] = "succeeded" /\ mem[a] = CondCASPtr(d)

\* One word of one descriptor, in the order of the pool.
Recover(d, a) ==
  /\ mode = "recovering"
  /\ <<d, a>> \in todo
  /\ \A x \in todo : Index[d] < Index[x[1]] \/ (x[1] = d /\ a <= x[2])
  /\ \A e \in Descs : status[e] = "invalid" => Index[d] < Index[e]
  /\ IF InvalidField(d, a)
     THEN /\ mode' = "invalid_field"
          /\ UNCHANGED <<mem, todo>>
     ELSE /\ mem' = [mem EXCEPT ![a] = RolledWord(d, a)]
          /\ todo' = todo \ {<<d, a>>}
          /\ UNCHANGED mode
  /\ UNCHANGED <<status, dirty, entries, stack, reads, historyVars, crashes>>

\* InitDescriptors: a memset of the whole pool, which may be interrupted after
\* any part of it ...
InitDescriptors ==
  /\ mode = "recovering"
  /\ todo = {}
  /\ FirstIsInvalid \/ \A d \in Descs : status[d] # "invalid"
  /\ mode' = "clearing"
  /\ UNCHANGED <<memVars, stack, reads, historyVars, crashes, todo>>

Clear(d) ==
  /\ mode = "clearing"
  /\ status[d] # "invalid"
  /\ status' = [status EXCEPT ![d] = "invalid"]
  /\ dirty' = [dirty EXCEPT ![d] = FALSE]
  /\ UNCHANGED <<mem, entries, stack, reads, historyVars, crashVars>>

\* ... then the constructors, in order.
Construct(d) ==
  /\ mode = "constructing" \/ (mode = "clearing" /\ \A e \in Descs : status[e] = "invalid")
  /\ status[d] = "invalid"
  /\ \A e \in Descs : Index[e] < Index[d] => status[e] # "invalid"
  /\ status' = [status EXCEPT ![d] = "finished"]
  /\ mode' = IF \A e \in Descs \ {d} : status[e] # "invalid" THEN "running" ELSE "constructing"
  /\ UNCHANGED <<mem, dirty, entries, stack, reads, historyVars, crashes, todo>>

-----------------------------------------------------------------------------
Step(t) ==
  \/ Enter(t) \/ ClearStatus(t) \/ Install(t) \/ CondStatus(t) \/ CondSwap(t)
  \/ HelpStatus(t) \/ HelpCheck(t) \/ HelpChoose(t) \/ HelpSwap(t)
  \/ Persist(t) \/ PersistClear(t) \/ Decide(t) \/ Settle(t)
  \/ Final(t) \/ FinalRetry(t) \/ FinalClear(t)
  \/ Read(t) \/ ReadStatus(t) \/ ReadSwap(t) \/ ReadClear(t)

Next ==
  \/ \E t \in Threads : Step(t) \/ Stop(t) \/ (\E d \in Descs : Begin(t, d)) \/ (\E a \in Words : BeginRead(t, a))
  \/ Crash
  \/ \E d \in Descs, a \in Words : Recover(d, a)
  \/ InitDescriptors
  \/ \E d \in Descs : FindInvalid(d) \/ Clear(d) \/ Construct(d)

Spec == Init /\ [][Next]_vars

\* Every thread that is in a call keeps running.
FairSpec == Spec /\ \A t \in Threads : WF_vars(Step(t))

-----------------------------------------------------------------------------
Labels == {"enter", "clear_status", "install", "cond_status", "cond_swap",
           "help_status", "help_check", "help_check_dptr", "help_choose", "help_choose_dptr",
           "help_swap", "help_swap_dptr", "persist", "persist_clear", "decide", "settle",
           "final", "final_retry", "final_clear", "read", "read_status", "read_swap", "read_clear"}

Frame == [pc : Labels, desc : Descs \cup {"none"}, a : Words \cup {0},
          seen : Word \cup {NoWord}, new : Word \cup {NoWord},
          decision : Decided \cup {"none"}]

TypeOK ==
  /\ mem \in [Words -> Word]
  /\ status \in [Descs -> {"invalid", "finished", "undecided"} \cup Decided]
  /\ dirty \in [Descs -> BOOLEAN]
  /\ entries \in [Descs -> {<< >>} \cup UNION {Ops[d] : d \in Descs}]
  /\ stack \in [Threads -> Seq(Frame)]
  /\ reads \in [Threads -> Nat]
  /\ outcome \in [Descs -> {"idle", "pending", "doomed", "aborted"} \cup Decided]
  /\ result \in [Descs -> {"none", "true", "false"}]
  /\ crashes \in 0 .. MaxCrashes
  /\ todo \subseteq Descs \X Words
  /\ mode \in {"running", "recovering", "clearing", "constructing", "corrupted", "invalid_field"}

\* The value that a reader of the word gets, now or after helping: that of a
\* word that refers to an operation depends on whether it has succeeded.
LogicalValue(a) ==
  LET w == mem[a] IN
  IF w.kind = "value" THEN w.of
  ELSE IF w.kind = "mwcas" /\ outcome[w.of] = "succeeded" THEN entries[w.of][a].new
  ELSE entries[w.of][a].old

Atomic == INSTANCE AtomicMwCAS WITH value <- [a \in Words |-> LogicalValue(a)]

\* The values of a word do not recur: its operations lead from one value to
\* another only along a partial order.
ValuesOrdered(Before) ==
  /\ Before \in [Words -> SUBSET (Values \X Values)]
  /\ \A a \in Words :
       /\ \A v \in Values : <<v, v>> \in Before[a]
       /\ \A v, w \in Values : <<v, w>> \in Before[a] /\ <<w, v>> \in Before[a] => v = w
       /\ \A u, v, w \in Values : <<u, v>> \in Before[a] /\ <<v, w>> \in Before[a] => <<u, w>> \in Before[a]
  /\ \A d \in Descs : \A op \in Ops[d] : \A a \in DOMAIN op : <<op[a].old, op[a].new>> \in Before[a]

\* PersistentMwCAS is an atomic multi-word compare-and-swap whose linearization
\* point is the CAS of the status: readers see all of an operation's words
\* change or none, it fails only if a word was found with another value, the
\* owner is told the truth, and a crash with its recovery changes no value.
ImplementsAtomicMwCAS == Atomic!Spec

\* "Any recovery business should be done by now" (mwcas.cc, InitDescriptors):
\* when the memset starts, no word refers to a descriptor any more, also if
\* Recovery looked at nothing because a crash in InitDescriptors has left the
\* first descriptor clear.  And when Recovery refuses the pool because a later
\* one is clear, all words are whole.
RecoveredWordsHoldValues ==
  mode \in {"clearing", "constructing", "corrupted"} => \A a \in Words : mem[a].kind = "value"

\* Wherever a crash comes, Recovery's RAW_CHECK(val != &word, "invalid field
\* value") can fail only for an entry that leaves its word as it is, as the
\* callers in bztree.cc and bztree_helpers.cc have them: with such an entry, a
\* helper that comes late installs its word descriptor a second time.
RecoveryChecksHold ==
  \A d \in Descs : \A a \in DOMAIN entries[d] :
    InvalidField(d, a) => entries[d][a].old = entries[d][a].new

\* Every operation returns, unless a crash ends it or it is itself one that a
\* test makes fail: "The operation is lock-free and non-blocking" (mwcas.h).
\* One that was left undecided is no obstacle to the others; only one that was
\* left decided is, because helpers leave phase 2 to the owner.
Orphaned ==
  \E d \in Descs : Injects[d] # {} /\ outcome[d] \in Decided /\ result[d] = "none"
                   /\ stack[Owner[d]] = << >>
OperationsReturn ==
  \A d \in Descs : Injects[d] = {} =>
    (outcome[d] # "idle" ~> result[d] # "none" \/ crashes > 0 \/ Orphaned)

=============================================================================
