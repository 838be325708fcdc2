---------------------------- MODULE VolatileMwCAS ----------------------------
(***************************************************************************)
(* The multi-word compare-and-swap of the volatile build (src/mwcas):      *)
(* Descriptor::VolatileMwCAS with CondCAS and helping, its variant with    *)
(* injected failures, and the volatile GetValue.                           *)
(*                                                                         *)
(* A step is one access to a shared word or status; each thread has a      *)
(* stack of calls, because helping calls VolatileMwCAS recursively.  The   *)
(* words of a descriptor are visited in the order in which the caller      *)
(* added them.  A descriptor serves one operation: see DescriptorPool.     *)
(***************************************************************************)
EXTENDS Naturals, Sequences, SequencesExt

CONSTANTS
  Threads,
  Descs,       \* descriptors
  Words,       \* addresses of target words
  Values,
  Initial,     \* the value every word starts with
  Owner,       \* [Descs -> Threads]
  Ops,         \* [Descs -> set of sequences of [addr, old, new]]: what the
               \* owner may ask for, in the order of its AddEntry calls
  Null,        \* kAllocNullAddress: an entry that is no target
  Injects,     \* [Descs -> SUBSET {"no", "undecided", "decided"}]: MwCAS, or
               \* MwCASWithFailure without and with complete_descriptor_install
  Reads        \* [Threads -> Nat]: bound on the GetValue calls of a thread

\* GetInsertPosition refuses an address that the descriptor already has; callers
\* add a target before they call MwCAS().
ASSUME VolatileAssumption ==
  /\ Initial \in Values /\ Null \notin Words
  /\ Owner \in [Descs -> Threads] /\ Reads \in [Threads -> Nat]
  /\ Injects \in [Descs -> SUBSET {"no", "undecided", "decided"}]
  /\ \A d \in Descs : \A op \in Ops[d] :
       /\ op \in Seq([addr : Words \cup {Null}, old : Values, new : Values])
       /\ \E i \in DOMAIN op : op[i].addr # Null
       /\ \A i, j \in DOMAIN op : i # j /\ op[i].addr # Null => op[i].addr # op[j].addr

VARIABLES
  mem,         \* [Words -> word]
  status,      \* [Descs -> {"finished", "undecided", "succeeded", "failed"}]
  words,       \* [Descs -> sequence of entries]: words_
  stop,        \* [Descs -> {"no", "undecided", "decided"}]
  stack,       \* [Threads -> Seq(frame)], the innermost call first
  reads,       \* [Threads -> Nat]: GetValue calls left
  outcome,     \* history: what became of each operation
  result       \* [Descs -> {"none", "true", "false"}]: what MwCAS() returned

descVars == <<status, words, stop>>
vars == <<mem, descVars, stack, reads, outcome, result>>

Value(v) == [kind |-> "value", of |-> v]
MwCASPtr(d) == [kind |-> "mwcas", of |-> d]
CondCASPtr(d) == [kind |-> "cond", of |-> d]   \* the word descriptor of d for this word
NoWord == [kind |-> "none", of |-> Initial]

(***************************************************************************)
(* A frame is a call of VolatileMwCAS on desc, or of GetValue on the word  *)
(* a (desc unused).  i is the entry at hand, seen the word descriptor that *)
(* was met, desired says that CondCAS would return the descriptor, new is  *)
(* the word about to be swapped in, decision my_status or the outcome.     *)
(***************************************************************************)
Call(d) == [pc |-> "enter", desc |-> d, i |-> 0, seen |-> NoWord, desired |-> FALSE,
            new |-> NoWord, decision |-> "succeeded"]
ReadCall(a) == [Call(a) EXCEPT !.pc = "read"]

Top(t) == Head(stack[t])
At(t, label) == stack[t] # <<>> /\ Top(t).pc = label
Continue(t, f) == stack' = [stack EXCEPT ![t] = <<f>> \o Tail(@)]
Fresh(f, label) == [f EXCEPT !.pc = label, !.seen = NoWord, !.desired = FALSE, !.new = NoWord]
Jump(t, label) == Continue(t, Fresh(Top(t), label))
\* The call goes on as f when a call of VolatileMwCAS(calldepth + 1) on d returns.
Help(t, f, d) == stack' = [stack EXCEPT ![t] = <<Call(d), f>> \o Tail(@)]

CAS(a, new, want) == mem' = IF mem[a] = want THEN [mem EXCEPT ![a] = new] ELSE mem

\* The entry after i that is a target; one after the last if there is none.
TargetAfter(d, i) ==
  CHOOSE j \in i + 1 .. Len(words[d]) + 1 :
    /\ j > Len(words[d]) \/ words[d][j].addr # Null
    /\ \A k \in i + 1 .. j - 1 : words[d][k].addr = Null
Entry(f) == words[f.desc][f.i]
EntryFor(op, a) == op[CHOOSE i \in DOMAIN op : op[i].addr = a]

\* The next entry of this phase, or the next phase.
Advance(t, phase, nextPhase) ==
  LET f == Top(t)
      j == TargetAfter(f.desc, f.i)
  IN  Continue(t, [Fresh(f, IF j > Len(words[f.desc]) THEN nextPhase ELSE phase) EXCEPT !.i = j])

Init ==
  /\ mem = [a \in Words |-> Value(Initial)]
  /\ status = [d \in Descs |-> "finished"]
  /\ words = [d \in Descs |-> <<>>]
  /\ stop = [d \in Descs |-> "no"]
  /\ stack = [t \in Threads |-> <<>>]
  /\ reads = Reads
  /\ outcome = [d \in Descs |-> "idle"]
  /\ result = [d \in Descs |-> "none"]

-----------------------------------------------------------------------------
\* AllocateDescriptor, the AddEntry calls, MwCAS() or MwCASWithFailure().
Begin(t, d) ==
  /\ stack[t] = <<>> /\ Owner[d] = t /\ outcome[d] = "idle"
  /\ \E op \in Ops[d], s \in Injects[d] :
       words' = [words EXCEPT ![d] = op] /\ stop' = [stop EXCEPT ![d] = s]
  /\ status' = [status EXCEPT ![d] = "undecided"]
  /\ stack' = [stack EXCEPT ![t] = <<Call(d)>>]
  /\ outcome' = [outcome EXCEPT ![d] = "pending"]
  /\ UNCHANGED <<mem, reads, result>>

\* The outermost call returns what Cleanup() reports, a helper to its caller.
Outermost(t) == Len(stack[t]) = 1
Return(t) ==
  LET d == Top(t).desc
  IN  /\ stack' = [stack EXCEPT ![t] = Tail(@)]
      /\ result' = IF Outermost(t) /\ d \in Descs
                   THEN [result EXCEPT ![d] = IF status[d] = "succeeded" THEN "true" ELSE "false"]
                   ELSE result

\* An operation that was decided before is not helped any further.
Enter(t) ==
  LET d == Top(t).desc
  IN  /\ At(t, "enter")
      /\ \/ status[d] = "undecided" /\ Advance(t, "install", "decide") /\ UNCHANGED result
         \/ status[d] # "undecided" /\ Return(t)
      /\ UNCHANGED <<mem, descVars, reads, outcome>>

\* Mutant: the own descriptor is helped as well.
AnyDescriptor(w, d) == w.kind = "mwcas"
\* The word belongs to another operation, which has to be helped.
Foreign(w, d) == w.kind = "mwcas" /\ w.of # d

\* The first CAS of CondCAS, and what the install loop does with its result.
Install(t) ==
  LET f == Top(t)
      d == f.desc
      w == mem[Entry(f).addr]
  IN  /\ At(t, "install")
      /\ \/ /\ w = Value(Entry(f).old)
            /\ CAS(Entry(f).addr, CondCASPtr(d), w)
            /\ Jump(t, "cond_status")
            /\ UNCHANGED outcome
         \/ /\ w.kind = "cond"
            /\ Continue(t, [f EXCEPT !.pc = "help_status", !.seen = w])
            /\ UNCHANGED <<mem, outcome>>
         \/ /\ w = MwCASPtr(d)
            /\ Advance(t, "install", "decide")
            /\ UNCHANGED <<mem, outcome>>
         \/ /\ Foreign(w, d)
            /\ Help(t, f, w.of)
            /\ UNCHANGED <<mem, outcome>>
         \/ /\ w.kind = "value" /\ w.of # Entry(f).old
            /\ Continue(t, [f EXCEPT !.pc = "decide", !.decision = "failed"])
            /\ outcome' = IF outcome[d] = "pending" THEN [outcome EXCEPT ![d] = "doomed"]
                          ELSE outcome
            /\ UNCHANGED mem
      /\ UNCHANGED <<descVars, reads, result>>

\* The status of the operation says what takes the place of its word descriptor.
Choose(d, a) ==
  IF status[d] = "undecided" THEN MwCASPtr(d)
  ELSE Value(EntryFor(words[d], a).old)

CondStatus(t) ==
  LET f == Top(t)
  IN  /\ At(t, "cond_status")
      /\ Continue(t, [f EXCEPT !.pc = "cond_swap", !.new = Choose(f.desc, Entry(f).addr)])
      /\ UNCHANGED <<mem, descVars, reads, outcome, result>>

CondSwap(t) ==
  LET f == Top(t)
  IN  /\ At(t, "cond_swap")
      /\ CAS(Entry(f).addr, f.new, CondCASPtr(f.desc))
      /\ Advance(t, "install", "decide")
      /\ UNCHANGED <<descVars, reads, outcome, result>>

\* CondCAS met a word descriptor: the status is read for desired, then the
\* word, then the status again, for the swap.
HelpStatus(t) ==
  LET f == Top(t)
  IN  /\ At(t, "help_status")
      /\ Continue(t, [f EXCEPT !.pc = "help_check", !.desired = status[f.seen.of] = "undecided"])
      /\ UNCHANGED <<mem, descVars, reads, outcome, result>>

HelpCheck(t) ==
  LET f == Top(t)
  IN  /\ At(t, "help_check")
      /\ \/ mem[Entry(f).addr] # f.seen /\ Jump(t, "install")
         \/ mem[Entry(f).addr] = f.seen /\ Continue(t, [f EXCEPT !.pc = "help_choose"])
      /\ UNCHANGED <<mem, descVars, reads, outcome, result>>

HelpChoose(t) ==
  LET f == Top(t)
  IN  /\ At(t, "help_choose")
      /\ Continue(t, [f EXCEPT !.pc = "help_swap", !.new = Choose(f.seen.of, Entry(f).addr)])
      /\ UNCHANGED <<mem, descVars, reads, outcome, result>>

\* After its swap CondCAS returns the descriptor, if that was desired: the word
\* is installed if it is the caller's own, otherwise the operation is helped.
HelpSwap(t) ==
  LET f == Top(t)
      a == Entry(f).addr
      returned == f.desired /\ mem[a] = f.seen
  IN  /\ At(t, "help_swap")
      /\ CAS(a, f.new, f.seen)
      /\ \/ returned /\ f.seen.of = f.desc /\ Advance(t, "install", "decide")
         \/ returned /\ f.seen.of # f.desc /\ Help(t, Fresh(f, "install"), f.seen.of)
         \/ ~returned /\ Jump(t, "install")
      /\ UNCHANGED <<descVars, reads, outcome, result>>

\* VolatileMwCASWithFailure returns early; only the owner's call can do so.
Injected(t, when) == Outermost(t) /\ stop[Top(t).desc] = when

Stop(t) ==
  /\ \/ At(t, "decide") /\ Injected(t, "undecided")
     \/ At(t, "final") /\ Injected(t, "decided")
  /\ stack' = [stack EXCEPT ![t] = <<>>]
  /\ UNCHANGED <<mem, descVars, reads, outcome, result>>

\* Mutant: the status is stored, not compared and swapped.
DecideBlindly(t) ==
  LET f == Top(t)
  IN  /\ At(t, "decide") /\ ~Injected(t, "undecided")
      /\ status' = [status EXCEPT ![f.desc] = f.decision]
      /\ outcome' = [outcome EXCEPT ![f.desc] = f.decision]
      /\ Continue(t, [f EXCEPT !.pc = "final", !.i = TargetAfter(f.desc, 0)])
      /\ UNCHANGED <<mem, words, stop, reads, result>>

\* The CAS of the status decides the operation; a decided one stays as it is.
Decide(t) ==
  LET f == Top(t)
      d == f.desc
      s == IF status[d] = "undecided" THEN f.decision ELSE status[d]
  IN  /\ At(t, "decide") /\ ~Injected(t, "undecided")
      /\ status' = [status EXCEPT ![d] = s]
      /\ outcome' = [outcome EXCEPT ![d] = s]
      /\ Continue(t, [f EXCEPT !.pc = "final", !.i = TargetAfter(d, 0), !.decision = s])
      /\ UNCHANGED <<mem, words, stop, reads, result>>

\* Mutant: the last word is forgotten.
LastButOne(t) == Top(t).i >= Len(words[Top(t).desc]) - 1
LastTarget(t) == TargetAfter(Top(t).desc, Top(t).i) > Len(words[Top(t).desc])

\* Phase 2: the final values take the places of the pointers to the descriptor.
Final(t) ==
  LET f == Top(t)
      e == Entry(f)
  IN  /\ At(t, "final") /\ ~Injected(t, "decided")
      /\ CAS(e.addr, Value(IF f.decision = "succeeded" THEN e.new ELSE e.old), MwCASPtr(f.desc))
      /\ \/ LastTarget(t) /\ Return(t)
         \/ ~LastTarget(t) /\ Advance(t, "final", "none") /\ UNCHANGED result
      /\ UNCHANGED <<descVars, reads, outcome>>

-----------------------------------------------------------------------------
\* GetValueVolatile and GetValueProtectedVolatile.
BeginRead(t, a) ==
  /\ stack[t] = <<>> /\ reads[t] > 0
  /\ reads' = [reads EXCEPT ![t] = @ - 1]
  /\ stack' = [stack EXCEPT ![t] = <<ReadCall(a)>>]
  /\ UNCHANGED <<mem, descVars, outcome, result>>

Read(t) ==
  LET f == Top(t)
      w == mem[f.desc]
  IN  /\ At(t, "read")
      /\ \/ w.kind = "cond" /\ Continue(t, [f EXCEPT !.pc = "read_status", !.seen = w])
         \/ w.kind = "mwcas" /\ Help(t, f, w.of)
         \/ w.kind = "value" /\ stack' = [stack EXCEPT ![t] = <<>>]
      /\ UNCHANGED <<mem, descVars, reads, outcome, result>>

ReadStatus(t) ==
  LET f == Top(t)
  IN  /\ At(t, "read_status")
      /\ Continue(t, [f EXCEPT !.pc = "read_swap", !.new = Choose(f.seen.of, f.desc)])
      /\ UNCHANGED <<mem, descVars, reads, outcome, result>>

ReadSwap(t) ==
  LET f == Top(t)
  IN  /\ At(t, "read_swap")
      /\ CAS(f.desc, f.new, f.seen)
      /\ Jump(t, "read")
      /\ UNCHANGED <<descVars, reads, outcome, result>>

-----------------------------------------------------------------------------
Step(t) ==
  \/ Enter(t) \/ Install(t) \/ CondStatus(t) \/ CondSwap(t)
  \/ HelpStatus(t) \/ HelpCheck(t) \/ HelpChoose(t) \/ HelpSwap(t)
  \/ Stop(t) \/ Decide(t) \/ Final(t)
  \/ Read(t) \/ ReadStatus(t) \/ ReadSwap(t)

Next ==
  \E t \in Threads :
    \/ Step(t)
    \/ \E d \in Descs : Begin(t, d)
    \/ \E a \in Words : BeginRead(t, a)

Spec == Init /\ [][Next]_vars

\* A thread that is in a call keeps running.
FairSpec == Spec /\ \A t \in Threads : WF_vars(Step(t))

-----------------------------------------------------------------------------
\* The value that a reader of the word gets, now or after helping.
LogicalValue(a) ==
  LET w == mem[a]
      e == EntryFor(words[w.of], a)
  IN  IF w.kind = "value" THEN w.of
      ELSE IF w.kind = "mwcas" /\ outcome[w.of] = "succeeded" THEN e.new ELSE e.old

\* A list of entries as an operation of the abstract specification.
Targets(op) == {op[i].addr : i \in DOMAIN op} \ {Null}
AsOperation(op) ==
  [a \in Targets(op) |-> [old |-> EntryFor(op, a).old, new |-> EntryFor(op, a).new]]

Atomic == INSTANCE AtomicMwCAS WITH
  value <- [a \in Words |-> LogicalValue(a)],
  entries <- [d \in Descs |-> IF words[d] = <<>> THEN <<>> ELSE AsOperation(words[d])],
  Ops <- [d \in Descs |-> {AsOperation(op) : op \in Ops[d]}]

\* Below is an order of the words in which callers add them.
WordsOrdered(Below) ==
  /\ \A a \in Words : <<a, a>> \notin Below
  /\ \A a, b, c \in Words : <<a, b>> \in Below /\ <<b, c>> \in Below => <<a, c>> \in Below
  /\ \A d \in Descs : \A op \in Ops[d] : \A i, j \in DOMAIN op :
       i < j /\ op[i].addr # Null /\ op[j].addr # Null => <<op[i].addr, op[j].addr>> \in Below

\* The values of a word do not recur: its operations lead from one value to
\* another only along a partial order.
ValuesOrdered(Before) ==
  /\ Before \in [Words -> SUBSET (Values \X Values)]
  /\ \A a \in Words :
       /\ \A v \in Values : <<v, v>> \in Before[a]
       /\ \A v, w \in Values : <<v, w>> \in Before[a] /\ <<w, v>> \in Before[a] => v = w
       /\ \A u, v, w \in Values : <<u, v>> \in Before[a] /\ <<v, w>> \in Before[a] => <<u, w>> \in Before[a]
  /\ \A d \in Descs : \A op \in Ops[d] : \A i \in DOMAIN op :
       op[i].addr # Null => <<op[i].old, op[i].new>> \in Before[op[i].addr]

\* VolatileMwCAS is an atomic multi-word compare-and-swap whose linearization
\* point is the CAS of the status, whoever helps it, and though an owner stops
\* in the middle: readers see all of its words change or none, it fails only if
\* a word was found with another value, and the owner is told the truth.
ImplementsAtomicMwCAS == Atomic!Spec

\* "Word descriptors are stored sorted on the word address to prevent
\* livelocks" (mwcas.h): when callers add their words in one order, a thread
\* that helps comes back to an operation it is in the middle of only by way of
\* one that was decided since.  So it does not help in a circle: it returns from
\* the one that was decided, and the words that it waited for become free.
NoCircularHelping ==
  \A t \in Threads : \A i, j \in DOMAIN stack[t] :
    /\ i < j
    /\ stack[t][i].pc = "install" /\ stack[t][j].pc = "install"
    /\ stack[t][i].desc = stack[t][j].desc
    => \E k \in i + 1 .. j - 1 : status[stack[t][k].desc] # "undecided"

\* Operations and reads return, unless an injected failure left an operation
\* decided with its words as they are: nobody but the owner finishes that.
Orphaned == \E d \in Descs : stop[d] = "decided"
CallsReturn ==
  \A t \in Threads : stack[t] # <<>> ~> stack[t] = <<>> \/ Orphaned
=============================================================================
