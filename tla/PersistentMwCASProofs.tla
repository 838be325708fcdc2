----------------------- MODULE PersistentMwCASProofs ------------------------
(***************************************************************************)
(* Proofs about PersistentMwCAS, for any threads, descriptors, words,      *)
(* operations, injected failures and crashes.                              *)
(*                                                                         *)
(* BaseInv is inductive and needs no assumption on the operations.  It     *)
(* says what each call knows from where it is: that a call in the install  *)
(* loop has all words before its own installed, unless the operation is    *)
(* decided; that what a CondCAS is about to swap in is its descriptor, or  *)
(* its old value if the operation is decided; and that words point only to *)
(* descriptors in use that have them as targets.  It gives the types and   *)
(* what Recovery's closing checks say.                                     *)
(*                                                                         *)
(* Atomicity and Recovery's check of each word need one thing more: that   *)
(* the values of words do not recur (ValuesOrdered).  Then every word has  *)
(* moved on from what the operations that succeeded have written.          *)
(***************************************************************************)
EXTENDS PersistentMwCAS, NumberLemmas

(***************************************************************************)
(* The inductive invariant.                                                *)
(***************************************************************************)
Undecided(d) == status[d] = "undecided"

\* Descriptor d is in use, with an operation that has word a.
Targets(d, a) == d \in Descs /\ status[d] \notin {"invalid", "finished"} /\ a \in DOMAIN entries[d]

\* What may be swapped in for the word descriptor of d at a.
MaySwap(d, a, w) ==
  /\ Targets(d, a)
  /\ \/ w = MwCASPtr(d, TRUE)
     \/ ~Undecided(d) /\ w = Value(entries[d][a].old, FALSE)

InstallPCs == {"install", "cond_status", "cond_swap", "help_status", "help_check",
               "help_check_dptr", "help_choose", "help_choose_dptr", "help_swap", "help_swap_dptr"}
HelpPCs == {"help_status", "help_check", "help_check_dptr", "help_choose", "help_choose_dptr",
            "help_swap", "help_swap_dptr"}
PersistPCs == {"persist", "persist_clear"}
FinalPCs == {"final", "final_retry", "final_clear"}
ReadPCs == {"read", "read_status", "read_swap", "read_clear"}

\* What a call knows, from where it is.
ReadFrameOK(f) ==
  /\ f.desc = "none" /\ f.a \in Words
  /\ f.pc \in {"read_status", "read_swap"} =>
       f.seen = CondCASPtr(f.seen.of) /\ Targets(f.seen.of, f.a)
  /\ f.pc = "read_swap" => MaySwap(f.seen.of, f.a, f.new)
  /\ f.pc = "read_clear" => 
       /\ f.seen \in Word /\ f.seen.dirty
       /\ f.seen.kind = "mwcas" => Targets(f.seen.of, f.a)

CallFrameOK(f) ==
  /\ f.desc \in Descs /\ status[f.desc] \notin {"invalid", "finished"}
  /\ f.pc \notin {"enter", "clear_status"} => f.a \in DOMAIN entries[f.desc]
  /\ f.pc \in InstallPCs /\ Undecided(f.desc) =>
       \A b \in DOMAIN entries[f.desc] : b < f.a => Installed(mem[b], f.desc)
  /\ f.pc \in {"cond_status", "cond_swap"} /\ Undecided(f.desc) =>
       mem[f.a] = CondCASPtr(f.desc) \/ Installed(mem[f.a], f.desc)
  /\ f.pc = "cond_swap" => MaySwap(f.desc, f.a, f.new)
  /\ f.pc \in HelpPCs => f.seen = CondCASPtr(f.seen.of) /\ Targets(f.seen.of, f.a)
  /\ f.pc \in {"help_swap", "help_swap_dptr"} => MaySwap(f.seen.of, f.a, f.new)
  /\ f.pc \in InstallPCs \cup PersistPCs \cup {"enter"} => f.decision = "succeeded"
  /\ f.pc \in PersistPCs \cup {"decide"} /\ f.decision = "succeeded" /\ Undecided(f.desc) =>
       \A b \in DOMAIN entries[f.desc] : Installed(mem[b], f.desc)
  /\ f.pc = "decide" => f.decision \in Decided
  /\ f.pc = "decide" /\ f.decision = "failed" /\ Undecided(f.desc) => outcome[f.desc] = "doomed"
  /\ f.pc \in FinalPCs \cup {"settle", "clear_status"} => status[f.desc] \in Decided
  /\ f.pc \in FinalPCs => f.decision = status[f.desc]

CallPCs == InstallPCs \cup PersistPCs \cup FinalPCs \cup {"enter", "clear_status", "decide", "settle"}

FrameOK(f) ==
  \/ f.pc \in ReadPCs /\ ReadFrameOK(f)
  \/ f.pc \in CallPCs /\ CallFrameOK(f)

\* The outermost call of a thread is a read, or an operation of its own that
\* has not returned.
Bottom(t) == stack[t][Len(stack[t])]
BottomOK(t) ==
  Bottom(t).desc # "none" => Owner[Bottom(t).desc] = t /\ result[Bottom(t).desc] = "none"

StackInv ==
  /\ \A t \in Threads : \A k \in 1 .. Len(stack[t]) : FrameOK(stack[t][k])
  /\ \A t \in Threads : stack[t] # <<>> => BottomOK(t)
  /\ mode # "running" => \A t \in Threads : stack[t] = <<>>

\* The states of an operation.
DescInv ==
  \A d \in Descs :
    /\ status[d] \notin {"invalid", "finished"} => entries[d] \in Ops[d]
    /\ status[d] \in Decided => outcome[d] = status[d]
    /\ Undecided(d) => outcome[d] \in {"pending", "doomed", "aborted"}
    /\ Undecided(d) /\ mode = "running" => outcome[d] # "aborted"
    /\ outcome[d] = "idle" => /\ status[d] \in {"invalid", "finished"} /\ result[d] = "none"
                              /\ entries[d] = <<>>
    /\ outcome[d] \in Decided => entries[d] \in Ops[d]
    /\ dirty[d] => status[d] \in Decided
    /\ mode = "running" => status[d] # "invalid"
    /\ mode = "constructing" => ~InUse(d)

\* A word points to operations that have it as a target, and no part of the pool
\* is clear; those are operations that Recovery has still to look at, after a
\* crash, and InitDescriptors has not started.
WordInv ==
  \A a \in Words : mem[a].kind # "value" =>
    /\ Targets(mem[a].of, a)
    /\ mode = "recovering" => <<mem[a].of, a>> \in todo
    /\ mode \notin {"clearing", "constructing", "corrupted"}
    /\ \A d \in Descs : status[d] # "invalid"

BaseInv == TypeOK /\ StackInv /\ DescInv /\ WordInv

-----------------------------------------------------------------------------
(***************************************************************************)
(* Stacks.                                                                 *)
(***************************************************************************)
\* No call is disturbed by the step.
Stable == \A f \in Frame : FrameOK(f) => FrameOK(f)'

\* A stack whose first call is replaced by g.
LEMMA ReplaceTop ==
  ASSUME NEW s \in Seq(Frame), s # <<>>, NEW g \in Frame
  PROVE  /\ <<g>> \o Tail(s) \in Seq(Frame)
         /\ Len(<<g>> \o Tail(s)) = Len(s)
         /\ (<<g>> \o Tail(s))[1] = g
         /\ \A k \in 2 .. Len(s) : (<<g>> \o Tail(s))[k] = s[k]
  OBVIOUS

\* A stack whose first call is replaced by h, with a new call g on top.
LEMMA PushTop ==
  ASSUME NEW s \in Seq(Frame), s # <<>>, NEW g \in Frame, NEW h \in Frame
  PROVE  /\ <<g, h>> \o Tail(s) \in Seq(Frame)
         /\ Len(<<g, h>> \o Tail(s)) = Len(s) + 1
         /\ (<<g, h>> \o Tail(s))[1] = g
         /\ (<<g, h>> \o Tail(s))[2] = h
         /\ \A k \in 3 .. Len(s) + 1 : (<<g, h>> \o Tail(s))[k] = s[k - 1]
  OBVIOUS

\* A stack without its first call.
LEMMA PopTop ==
  ASSUME NEW s \in Seq(Frame), s # <<>>
  PROVE  /\ Tail(s) \in Seq(Frame)
         /\ Len(Tail(s)) = Len(s) - 1
         /\ \A k \in 1 .. Len(s) - 1 : Tail(s)[k] = s[k + 1]
         /\ Head(s) = s[1] /\ Head(s) \in Frame /\ Len(s) \in Nat \ {0}
  OBVIOUS


\* A step of thread t that replaces its stack by n, whose calls were there
\* before or are as they should be.
LEMMA StackStep ==
  ASSUME TypeOK, StackInv, mode' = "running", Stable,
         NEW t \in Threads, NEW n \in Seq(Frame), stack' = [stack EXCEPT ![t] = n],
         \A k \in 1 .. Len(n) : \/ FrameOK(n[k])'
                                \/ \E j \in 1 .. Len(stack[t]) : n[k] = stack[t][j],
         n # <<>> => BottomOK(t)',
         \A u \in Threads \ {t} : \A d \in Descs : Owner[d] = u => result'[d] = result[d]
  PROVE  StackInv' /\ stack' \in [Threads -> Seq(Frame)]
<1>1. stack'[t] = n /\ \A u \in Threads \ {t} : stack'[u] = stack[u]
  BY DEF TypeOK
<1>2. stack' \in [Threads -> Seq(Frame)]
  BY DEF TypeOK
<1>3. ASSUME NEW u \in Threads, NEW k \in 1 .. Len(stack[u])
      PROVE  FrameOK(stack[u][k])'  \/ stack'[u] # stack[u]
  <2> SUFFICES ASSUME stack'[u] = stack[u] PROVE FrameOK(stack[u][k])'
    OBVIOUS
  <2>1. PICK f \in Frame : f = stack[u][k]
    BY DEF TypeOK
  <2>2. FrameOK(f)
    BY <2>1 DEF StackInv
  <2>3. FrameOK(f)'
    BY <2>2 DEF Stable
  <2>4. QED
    BY <2>1, <2>3
<1>4. ASSUME NEW k \in 1 .. Len(n)
      PROVE  FrameOK(n[k])'
  <2>1. CASE \E j \in 1 .. Len(stack[t]) : n[k] = stack[t][j]
    <3>1. PICK j \in 1 .. Len(stack[t]) : n[k] = stack[t][j]
      BY <2>1
    <3>2. PICK f \in Frame : f = stack[t][j]
      BY DEF TypeOK
    <3>3. FrameOK(f)
      BY <3>2 DEF StackInv
    <3>4. FrameOK(f)'
      BY <3>3 DEF Stable
    <3>5. QED
      BY <3>1, <3>2, <3>4
  <2>2. QED
    BY <2>1
<1>5. \A u \in Threads : \A k \in 1 .. Len(stack[u])' : FrameOK(stack[u][k])'
  BY <1>1, <1>3, <1>4
<1>6. ASSUME NEW u \in Threads, u # t, stack[u] # <<>>
      PROVE  BottomOK(u)'
  <2>1. BottomOK(u) /\ Bottom(u)' = Bottom(u) /\ Bottom(u) \in Frame
    BY <1>1, <1>6 DEF StackInv, Bottom, TypeOK
  <2>2. QED
    BY <2>1, <1>6 DEF BottomOK, Frame
<1>7. QED
  BY <1>1, <1>2, <1>5, <1>6 DEF StackInv

\* The innermost call goes on as g.
LEMMA ContinueStep ==
  ASSUME TypeOK, StackInv, mode' = "running", Stable, result' = result,
         NEW t \in Threads, stack[t] # <<>>,
         NEW g \in Frame, FrameOK(g)', g.desc = Top(t).desc, Continue(t, g)
  PROVE  StackInv' /\ stack' \in [Threads -> Seq(Frame)]
<1>1. PICK s \in Seq(Frame) : s = stack[t] /\ s # <<>>
  BY DEF TypeOK
<1>2. PICK n \in Seq(Frame) : n = <<g>> \o Tail(s)
  BY <1>1, ReplaceTop
<1>3. Len(n) = Len(s) /\ n[1] = g /\ \A k \in 2 .. Len(s) : n[k] = s[k]
  BY <1>1, <1>2, ReplaceTop
<1>4. Top(t) = s[1] /\ Len(s) \in Nat \ {0}
  BY <1>1, PopTop DEF Top
<1>5. stack' = [stack EXCEPT ![t] = n]
  BY <1>1, <1>2 DEF Continue, TypeOK
<1>6. stack'[t] = n
  BY <1>5 DEF TypeOK
<1>7. BottomOK(t)'
  <2>1. Bottom(t)'.desc = Bottom(t).desc
    BY <1>1, <1>3, <1>4, <1>6 DEF Bottom
  <2>2. QED
    BY <2>1 DEF StackInv, BottomOK
<1>8. \A k \in 1 .. Len(n) : FrameOK(n[k])' \/ \E j \in 1 .. Len(stack[t]) : n[k] = stack[t][j]
  <2> SUFFICES ASSUME NEW k \in 1 .. Len(n)
               PROVE  FrameOK(n[k])' \/ \E j \in 1 .. Len(stack[t]) : n[k] = stack[t][j]
    OBVIOUS
  <2>1. CASE k = 1
    BY <2>1, <1>3
  <2>2. CASE k # 1
    BY <2>2, <1>1, <1>3, <1>4
  <2>3. QED
    BY <2>1, <2>2
<1>9. QED
  BY <1>5, <1>7, <1>8, StackStep

\* The innermost call goes on as g and calls PersistentMwCAS as h.
LEMMA HelpStep ==
  ASSUME TypeOK, StackInv, mode' = "running", Stable, result' = result,
         NEW t \in Threads, stack[t] # <<>>,
         NEW g \in Frame, FrameOK(g)', g.desc = Top(t).desc,
         NEW h \in Frame, FrameOK(h)',
         stack' = [stack EXCEPT ![t] = <<h, g>> \o Tail(stack[t])]
  PROVE  StackInv' /\ stack' \in [Threads -> Seq(Frame)]
<1>1. PICK s \in Seq(Frame) : s = stack[t] /\ s # <<>>
  BY DEF TypeOK
<1>2. PICK n \in Seq(Frame) : n = <<h, g>> \o Tail(s)
  BY <1>1, PushTop
<1>3. Len(n) = Len(s) + 1 /\ n[1] = h /\ n[2] = g /\ \A k \in 3 .. Len(s) + 1 : n[k] = s[k - 1]
  BY <1>1, <1>2, PushTop
<1>4. Top(t) = s[1] /\ Len(s) \in Nat \ {0}
  BY <1>1, PopTop DEF Top
<1>5. stack' = [stack EXCEPT ![t] = n]
  BY <1>1, <1>2 DEF TypeOK
<1>6. stack'[t] = n
  BY <1>5 DEF TypeOK
<1>7. BottomOK(t)'
  <2>1. Bottom(t)'.desc = Bottom(t).desc
    BY <1>1, <1>3, <1>4, <1>6 DEF Bottom
  <2>2. QED
    BY <2>1 DEF StackInv, BottomOK
<1>8. \A k \in 1 .. Len(n) : FrameOK(n[k])' \/ \E j \in 1 .. Len(stack[t]) : n[k] = stack[t][j]
  <2> SUFFICES ASSUME NEW k \in 1 .. Len(n)
               PROVE  FrameOK(n[k])' \/ \E j \in 1 .. Len(stack[t]) : n[k] = stack[t][j]
    OBVIOUS
  <2>1. CASE k = 1 \/ k = 2
    BY <2>1, <1>3
  <2>2. CASE k # 1 /\ k # 2
    <3>1. k - 1 \in 1 .. Len(stack[t]) /\ n[k] = stack[t][k - 1]
      BY <2>2, <1>1, <1>3, <1>4
    <3>2. QED
      BY <3>1
  <2>3. QED
    BY <2>1, <2>2
<1>9. QED
  BY <1>5, <1>7, <1>8, StackStep

\* The innermost call returns; only the outermost one, which is that of the
\* owner, sets a result.
LEMMA LeaveStep ==
  ASSUME TypeOK, StackInv, mode' = "running", Stable,
         NEW t \in Threads, stack[t] # <<>>, Leave(t)
  PROVE  /\ StackInv' /\ stack' \in [Threads -> Seq(Frame)]
         /\ result' \in [Descs -> {"none", "true", "false"}]
         /\ \/ result' = result
            \/ LET d == Top(t).desc IN
               /\ d \in Descs /\ result[d] = "none"
               /\ result' = [result EXCEPT ![d] = IF status[d] = "succeeded" THEN "true" ELSE "false"]
<1>1. PICK n \in Seq(Frame) : n = Tail(stack[t])
  BY PopTop DEF TypeOK
<1>2. /\ Len(n) = Len(stack[t]) - 1 /\ \A k \in 1 .. Len(stack[t]) - 1 : n[k] = stack[t][k + 1]
      /\ Top(t) = stack[t][1] /\ Top(t) \in Frame /\ Len(stack[t]) \in Nat \ {0}
  BY <1>1, PopTop DEF TypeOK, Top
<1>9. Len(n) = Len(stack[t]) - 1 /\ Len(stack[t]) \in Nat \ {0}
  BY <1>2
<1>3. stack' = [stack EXCEPT ![t] = n]
  BY <1>1 DEF Leave, TypeOK
<1>4. stack'[t] = n
  BY <1>3 DEF TypeOK
<1>5. CASE Len(stack[t]) = 1 /\ Top(t).desc # "none"
  <2>1. PICK d \in Descs : d = Top(t).desc
    BY <1>2, <1>5 DEF Frame
  <2>2. Owner[d] = t /\ result[d] = "none"
    BY <2>1, <1>2, <1>5 DEF StackInv, BottomOK, Bottom
  <2>3. result' = [result EXCEPT ![d] = IF status[d] = "succeeded" THEN "true" ELSE "false"]
    BY <2>1, <1>5 DEF Leave
  <2>4. result' \in [Descs -> {"none", "true", "false"}]
    BY <2>3 DEF TypeOK
  <2>5. n = <<>>
    BY <1>2, <1>5
  <2>6. \A u \in Threads \ {t} : \A c \in Descs : Owner[c] = u => result'[c] = result[c]
    BY <2>2, <2>3 DEF TypeOK
  <2>7. \A k \in 1 .. Len(n) : FrameOK(n[k])' \/ \E j \in 1 .. Len(stack[t]) : n[k] = stack[t][j]
    BY <1>2, <1>5
  <2>8. StackInv' /\ stack' \in [Threads -> Seq(Frame)]
    BY <1>3, <2>5, <2>6, <2>7, StackStep, ZenonT(40)
  <2>9. QED
    BY <2>1, <2>2, <2>3, <2>4, <2>8
<1>6. CASE ~(Len(stack[t]) = 1 /\ Top(t).desc # "none")
  <2>1. result' = result
    BY <1>6 DEF Leave
  <2>2. \A k \in 1 .. Len(n) : FrameOK(n[k])' \/ \E j \in 1 .. Len(stack[t]) : n[k] = stack[t][j]
    <3> SUFFICES ASSUME NEW k \in 1 .. Len(n) 
                 PROVE \E j \in 1 .. Len(stack[t]) : n[k] = stack[t][j]
      OBVIOUS
    <3>1. k + 1 \in 1 .. Len(stack[t]) /\ n[k] = stack[t][k + 1]
      BY <1>2
    <3>2. QED
      BY <3>1
  <2>3. ASSUME n # <<>> PROVE BottomOK(t)'
    <3>1. Len(n) \in Nat \ {0}
      BY <2>3
    <3>2. Len(n) \in 1 .. Len(stack[t]) - 1 /\ Len(n) + 1 = Len(stack[t])
      <4>1. PICK l \in Nat, m \in Nat : l = Len(stack[t]) /\ m = Len(n)
        BY <1>9
      <4>2. m = l - 1 /\ m # 0
        BY <4>1, <3>1, <1>9
      <4>3. m \in 1 .. l - 1 /\ m + 1 = l
        BY <4>2
      <4>4. QED
        BY <4>1, <4>3
    <3>3. n[Len(n)] = stack[t][Len(stack[t])]
      BY <3>2, <1>2
    <3>4. Bottom(t)' = Bottom(t)
      BY <3>3, <1>4 DEF Bottom
    <3>5. QED
      BY <3>4, <2>1 DEF StackInv, BottomOK
  <2>4. StackInv' /\ stack' \in [Threads -> Seq(Frame)]
    BY <1>3, <2>1, <2>2, <2>3, StackStep
  <2>5. QED
    BY <2>1, <2>4 DEF TypeOK
<1>7. QED
  BY <1>5, <1>6

\* Thread t, which is in no call, makes the call g; or t ends all its calls.
LEMMA StartStep ==
  ASSUME TypeOK, StackInv, mode' = "running", Stable, result' = result,
         NEW t \in Threads, NEW g \in Frame, FrameOK(g)',
         g.desc # "none" => Owner[g.desc] = t /\ result[g.desc] = "none",
         stack' = [stack EXCEPT ![t] = <<g>>]
  PROVE  StackInv' /\ stack' \in [Threads -> Seq(Frame)]
<1>0. <<g>> \in Seq(Frame)
  OBVIOUS
<1>1. PICK n \in Seq(Frame) : n = <<g>>
  BY <1>0
<1>2. Len(n) = 1 /\ n[1] = g
  BY <1>1
<1>3. stack' = [stack EXCEPT ![t] = n] /\ stack'[t] = n
  BY <1>1 DEF TypeOK
<1>4. BottomOK(t)'
  BY <1>2, <1>3 DEF BottomOK, Bottom
<1>5. \A k \in 1 .. Len(n) : FrameOK(n[k])' \/ \E j \in 1 .. Len(stack[t]) : n[k] = stack[t][j]
  BY <1>2
<1>6. QED
  BY <1>3, <1>4, <1>5, StackStep

\* Thread t gives up all its calls (MwCASWithFailure).
LEMMA EndStep ==
  ASSUME TypeOK, StackInv, mode' = "running", Stable, result' = result,
         NEW t \in Threads, stack' = [stack EXCEPT ![t] = <<>>]
  PROVE  StackInv' /\ stack' \in [Threads -> Seq(Frame)]
<1>0. <<>> \in Seq(Frame)
  OBVIOUS
<1>1. PICK n \in Seq(Frame) : n = <<>>
  BY <1>0
<1>2. \A k \in 1 .. Len(n) : FrameOK(n[k])' \/ \E j \in 1 .. Len(stack[t]) : n[k] = stack[t][j]
  BY <1>1
<1>3. QED
  BY <1>1, <1>2, StackStep

-----------------------------------------------------------------------------
(***************************************************************************)
(* Words and the order of addresses.                                       *)
(***************************************************************************)

\* Its fields tell what a word is.
LEMMA WordFields ==
  /\ \A v, b : Value(v, b).kind = "value" /\ Value(v, b).of = v /\ Value(v, b).dirty = b
  /\ \A d, b : MwCASPtr(d, b).kind = "mwcas" /\ MwCASPtr(d, b).of = d /\ MwCASPtr(d, b).dirty = b
  /\ \A d : CondCASPtr(d).kind = "cond" /\ CondCASPtr(d).of = d /\ CondCASPtr(d).dirty = FALSE
  BY DEF Value, MwCASPtr, CondCASPtr

\* The words, by kind.
LEMMA WordKinds ==
  ASSUME NEW w \in Word
  PROVE  /\ w.kind \in {"value", "mwcas", "cond"} /\ w.dirty \in BOOLEAN
         /\ w.kind = "value" => w.of \in Values /\ w = Value(w.of, w.dirty)
         /\ w.kind = "mwcas" => w.of \in Descs /\ w = MwCASPtr(w.of, w.dirty)
         /\ w.kind = "cond" => w.of \in Descs /\ w = CondCASPtr(w.of) /\ w.dirty = FALSE
<1>1. CASE \E v \in Values, b \in BOOLEAN : w = Value(v, b)
  <2>1. PICK v \in Values, b \in BOOLEAN : w = Value(v, b)
    BY <1>1
  <2>2. w.kind = "value" /\ w.of = v /\ w.dirty = b
    BY <2>1, WordFields
  <2>3. QED
    BY <2>1, <2>2
<1>2. CASE \E d \in Descs, b \in BOOLEAN : w = MwCASPtr(d, b)
  <2>1. PICK d \in Descs, b \in BOOLEAN : w = MwCASPtr(d, b)
    BY <1>2
  <2>2. w.kind = "mwcas" /\ w.of = d /\ w.dirty = b
    BY <2>1, WordFields
  <2>3. QED
    BY <2>1, <2>2
<1>3. CASE \E d \in Descs : w = CondCASPtr(d)
  <2>1. PICK d \in Descs : w = CondCASPtr(d)
    BY <1>3
  <2>2. w.kind = "cond" /\ w.of = d /\ w.dirty = FALSE
    BY <2>1, WordFields
  <2>3. QED
    BY <2>1, <2>2
<1>4. \/ \E v \in Values, b \in BOOLEAN : w = Value(v, b)
      \/ \E d \in Descs, b \in BOOLEAN : w = MwCASPtr(d, b)
      \/ \E d \in Descs : w = CondCASPtr(d)
  BY DEF Word
<1>5. QED
  BY <1>1, <1>2, <1>3, <1>4

\* Values and pointers of the right kinds are words.
LEMMA WordsMade ==
  /\ \A v \in Values, b \in BOOLEAN : Value(v, b) \in Word
  /\ \A d \in Descs, b \in BOOLEAN : MwCASPtr(d, b) \in Word
  /\ \A d \in Descs : CondCASPtr(d) \in Word
  BY DEF Word

\* Clearing the dirty bit leaves the rest of a word.
LEMMA CleanWord ==
  ASSUME NEW w \in Word, w.kind # "cond"
  PROVE  Clean(w) \in Word /\ Clean(w).kind = w.kind /\ Clean(w).of = w.of
<1>1. Clean(w).kind = w.kind /\ Clean(w).of = w.of
  BY DEF Clean
<1>2. CASE w.kind = "value"
  <2>1. w.of \in Values
    BY <1>2, WordKinds
  <2>2. Clean(w) = Value(w.of, FALSE)
    BY <1>2 DEF Clean, Value
  <2>3. QED
    BY <1>1, <2>1, <2>2, WordsMade
<1>3. CASE w.kind = "mwcas"
  <2>1. w.of \in Descs
    BY <1>3, WordKinds
  <2>2. Clean(w) = MwCASPtr(w.of, FALSE)
    BY <1>3 DEF Clean, MwCASPtr
  <2>3. QED
    BY <1>1, <2>1, <2>2, WordsMade
<1>4. QED
  BY <1>2, <1>3, WordKinds

\* The placeholder for a word that was not read is no word.
LEMMA NoWordIsNone == NoWord \notin Word
<1>1. NoWord.kind = "none"
  BY DEF NoWord
<1>2. QED
  BY <1>1, WordKinds

\* The operations of descriptors in use are operations, of words.
LEMMA EntriesAre ==
  ASSUME TypeOK, NEW d \in Descs
  PROVE  /\ DOMAIN entries[d] \subseteq Words
         /\ entries[d] \in Ops[d] => DOMAIN entries[d] # {}
         /\ \A a \in DOMAIN entries[d] : entries[d][a].old \in Values /\ entries[d][a].new \in Values
<1>1. entries[d] = <<>> \/ \E c \in Descs : entries[d] \in Ops[c]
  BY DEF TypeOK
<1>2. CASE entries[d] = <<>>
  <2>1. DOMAIN entries[d] = {}
    BY <1>2
  <2>2. QED
    BY <2>1, OpsAssumption
<1>3. CASE \E c \in Descs : entries[d] \in Ops[c]
  BY <1>3, OpsAssumption
<1>4. QED
  BY <1>1, <1>2, <1>3

\* The next word is the one with the next higher address.
LEMMA AddressAfterIs ==
  ASSUME TypeOK, NEW d \in Descs, NEW a \in Nat
  PROVE  LET b == AddressAfter(d, a) IN
         /\ b = 0 => \A c \in DOMAIN entries[d] : c <= a
         /\ b # 0 => /\ b \in DOMAIN entries[d] /\ b > a
                     /\ \A c \in DOMAIN entries[d] : c < b => c <= a
<1> DEFINE later == {b \in DOMAIN entries[d] : b > a}
<1>1. DOMAIN entries[d] \subseteq Nat \ {0}
  BY EntriesAre, WordsAssumption
<1>2. later \in SUBSET Nat
  BY <1>1
<1>3. CASE later = {}
  BY <1>1, <1>3 DEF AddressAfter
<1>4. CASE later # {}
  <2>1. AddressAfter(d, a) = Min(later)
    BY <1>4 DEF AddressAfter
  <2>2. Min(later) \in later /\ \A c \in later : Min(later) <= c
    BY <1>2, <1>4, MinIs
  <2>3. QED
    BY <1>1, <2>1, <2>2
<1>5. QED
  BY <1>3, <1>4

\* The first word of an operation is the one with the lowest address.
LEMMA FirstIs ==
  ASSUME TypeOK, NEW d \in Descs, entries[d] \in Ops[d]
  PROVE  /\ First(d) \in DOMAIN entries[d] /\ First(d) \in Words
         /\ \A c \in DOMAIN entries[d] : ~(c < First(d))
<1>1. DOMAIN entries[d] \subseteq Nat \ {0} /\ DOMAIN entries[d] # {}
  BY EntriesAre, WordsAssumption
<1>2. First(d) # 0
  BY <1>1, AddressAfterIs DEF First
<1>3. QED
  BY <1>1, <1>2, AddressAfterIs, EntriesAre DEF First

-----------------------------------------------------------------------------
(***************************************************************************)
(* What steps of running threads do to the words and the descriptors.      *)
(***************************************************************************)

\* The word at address a becomes w: one that refers to an operation it is a
\* word of, and that takes no undecided operation out of the word.
MemStep(a, w) ==
  /\ mem' = [mem EXCEPT ![a] = w]
  /\ w.kind # "value" => Targets(w.of, a)
  /\ \A d \in Descs : Undecided(d) =>
       /\ Installed(mem[a], d) => Installed(w, d)
       /\ mem[a] = CondCASPtr(d) => w = CondCASPtr(d) \/ Installed(w, d)

\* Such a write disturbs no call, and words go on pointing to operations that
\* have them.
LEMMA MemEffect ==
  ASSUME BaseInv, mode = "running", mode' = "running", NEW a \in Words, NEW w \in Word,
         MemStep(a, w), status' = status, entries' = entries, outcome' = outcome
  PROVE  Stable /\ WordInv' /\ mem' \in [Words -> Word]
<1>1. mem' \in [Words -> Word] /\ mem'[a] = w /\ \A b \in Words \ {a} : mem'[b] = mem[b]
  BY DEF BaseInv, TypeOK, MemStep
<1>2. WordInv'
  <2>1. \A d \in Descs : status'[d] # "invalid"
    BY DEF BaseInv, DescInv
  <2>2. ASSUME NEW b \in Words, mem'[b].kind # "value" PROVE Targets(mem[b].of, b)'
    BY <1>1, <2>2 DEF BaseInv, WordInv, MemStep, Targets
  <2>3. QED
    BY <2>1, <2>2 DEF WordInv
<1>3. ASSUME NEW d \in Descs, NEW b \in Words, Undecided(d)
      PROVE  /\ Installed(mem[b], d) => Installed(mem'[b], d)
             /\ mem[b] = CondCASPtr(d) => mem'[b] = CondCASPtr(d) \/ Installed(mem'[b], d)
  BY <1>1, <1>3 DEF MemStep
<1>4. \A d, b, x : (Targets(d, b) <=> Targets(d, b)') /\ (Undecided(d) <=> Undecided(d)')
                   /\ (MaySwap(d, b, x) <=> MaySwap(d, b, x)')
  BY DEF Targets, Undecided, MaySwap
<1>5. ASSUME NEW f \in Frame, ReadFrameOK(f)
      PROVE  ReadFrameOK(f)'
  BY <1>4, <1>5 DEF ReadFrameOK
<1>6. ASSUME NEW f \in Frame, CallFrameOK(f)
      PROVE  CallFrameOK(f)'
  <2>1. f.desc \in Descs /\ DOMAIN entries[f.desc] \subseteq Words
    BY <1>6, EntriesAre DEF CallFrameOK, BaseInv
  <2>2. \A b \in DOMAIN entries[f.desc] : Undecided(f.desc) =>
             /\ Installed(mem[b], f.desc) => Installed(mem'[b], f.desc)
             /\ mem[b] = CondCASPtr(f.desc) => mem'[b] = CondCASPtr(f.desc) \/ Installed(mem'[b], f.desc)
    BY <1>3, <2>1
  <2>3. QED
    BY <1>4, <1>6, <2>1, <2>2 DEF CallFrameOK, InstallPCs
<1>7. Stable
  BY <1>5, <1>6 DEF Stable, FrameOK
<1>8. QED
  BY <1>1, <1>2, <1>7

\* No word changes; undecided operations may be decided.
LEMMA StatusEffect ==
  ASSUME BaseInv, mode = "running", mode' = "running", mem' = mem, entries' = entries,
         status' \in [Descs -> {"invalid", "finished", "undecided"} \cup Decided],
         \A d \in Descs : status'[d] # status[d] => Undecided(d) /\ status'[d] \in Decided,
         \A d \in Descs : Undecided(d)' /\ outcome[d] = "doomed" => outcome'[d] = "doomed"
  PROVE  Stable /\ WordInv'
<1>1. \A d \in Descs : (status[d] \notin {"invalid", "finished"} <=> status'[d] \notin {"invalid", "finished"})
                       /\ (Undecided(d)' => Undecided(d))
                       /\ (status[d] \in Decided => status'[d] = status[d])
  BY DEF Undecided, Decided
<1>2. \A d, b, x : (Targets(d, b) <=> Targets(d, b)') /\ (MaySwap(d, b, x) => MaySwap(d, b, x)')
  BY <1>1 DEF Targets, MaySwap
<1>3. WordInv'
  <2>1. \A d \in Descs : status'[d] # "invalid"
    BY DEF BaseInv, DescInv, Decided
  <2>2. ASSUME NEW b \in Words, mem'[b].kind # "value" PROVE Targets(mem[b].of, b)'
    BY <1>2, <2>2 DEF BaseInv, WordInv
  <2>3. QED
    BY <2>1, <2>2 DEF WordInv
<1>4. ASSUME NEW f \in Frame, ReadFrameOK(f)
      PROVE  ReadFrameOK(f)'
  BY <1>2, <1>4 DEF ReadFrameOK
<1>5. ASSUME NEW f \in Frame, CallFrameOK(f)
      PROVE  CallFrameOK(f)'
  BY <1>1, <1>2, <1>5 DEF CallFrameOK
<1>6. Stable
  BY <1>4, <1>5 DEF Stable, FrameOK
<1>7. QED
  BY <1>3, <1>6

\* A step that changes a word at most, and in no way that disturbs a call.
Quiet ==
  /\ mode = "running"
  /\ UNCHANGED <<status, entries, outcome, reads, crashes, todo, mode>>
  /\ dirty' \in [Descs -> BOOLEAN] /\ \A d \in Descs : dirty'[d] => dirty[d]
  /\ mem' \in [Words -> Word]
  /\ Stable /\ WordInv'

\* A step that changes no shared variable but a dirty bit of a status is quiet.
LEMMA QuietIfSteady ==
  ASSUME BaseInv, mode = "running", UNCHANGED <<mem, status, entries, outcome, reads, crashVars>>,
         dirty' \in [Descs -> BOOLEAN], \A d \in Descs : dirty'[d] => dirty[d]
  PROVE  Quiet
<1>1. status' \in [Descs -> {"invalid", "finished", "undecided"} \cup Decided] /\ mem' \in [Words -> Word]
  BY DEF BaseInv, TypeOK
<1>2. /\ \A d \in Descs : status'[d] # status[d] => Undecided(d) /\ status'[d] \in Decided
      /\ \A d \in Descs : Undecided(d)' /\ outcome[d] = "doomed" => outcome'[d] = "doomed"
  OBVIOUS
<1>3. mode' = "running"
  BY DEF crashVars
<1>4. Stable /\ WordInv'
  BY <1>1, <1>2, <1>3, StatusEffect
<1>5. QED
  BY <1>1, <1>4 DEF Quiet, crashVars

\* A CAS that succeeds with such a word.
LEMMA QuietIfCAS ==
  ASSUME BaseInv, mode = "running", NEW a \in Words, NEW w \in Word, NEW want, CAS(a, w, want),
         mem[a] = want =>
            /\ w.kind # "value" => Targets(w.of, a)
            /\ \A d \in Descs : Undecided(d) =>
                 /\ Installed(want, d) => Installed(w, d)
                 /\ want = CondCASPtr(d) => w = CondCASPtr(d) \/ Installed(w, d),
         UNCHANGED <<status, dirty, entries, outcome, reads, crashVars>>
  PROVE  Quiet
<1>1. dirty' \in [Descs -> BOOLEAN] /\ \A d \in Descs : dirty'[d] => dirty[d]
  BY DEF BaseInv, TypeOK
<1>2. CASE mem[a] # want
  <2>1. mem' = mem
    BY <1>2 DEF CAS
  <2>2. QED
    BY <1>1, <2>1, QuietIfSteady
<1>3. CASE mem[a] = want
  <2>1. MemStep(a, w)
    BY <1>3 DEF CAS, MemStep
  <2>2. mode' = "running"
    BY DEF crashVars
  <2>3. Stable /\ WordInv' /\ mem' \in [Words -> Word]
    BY <2>1, <2>2, MemEffect
  <2>4. QED
    BY <1>1, <2>3 DEF Quiet, crashVars
<1>4. QED
  BY <1>2, <1>3

\* The descriptors' part of the invariant.
LEMMA QuietDesc ==
  ASSUME BaseInv, Quiet, \A d \in Descs : outcome[d] = "idle" => result'[d] = result[d]
  PROVE  DescInv'
  BY DEF BaseInv, DescInv, Undecided, Quiet

\* A quiet step keeps the invariant if it keeps the stacks in order.
LEMMA QuietDone ==
  ASSUME BaseInv, Quiet, \A d \in Descs : outcome[d] = "idle" => result'[d] = result[d],
         result' \in [Descs -> {"none", "true", "false"}],
         StackInv', stack' \in [Threads -> Seq(Frame)]
  PROVE  BaseInv'
<1>1. DescInv'
  BY QuietDesc
<1>2. TypeOK'
  BY DEF BaseInv, TypeOK, Quiet
<1>3. QED
  BY <1>1, <1>2 DEF BaseInv, Quiet

\* A quiet step with which the innermost call goes on keeps the invariant.
LEMMA QuietContinue ==
  ASSUME BaseInv, Quiet, NEW t \in Threads, stack[t] # <<>>, result' = result,
         NEW g \in Frame, FrameOK(g)', g.desc = Top(t).desc, Continue(t, g)
  PROVE  BaseInv'
<1>1. StackInv' /\ stack' \in [Threads -> Seq(Frame)]
  BY ContinueStep DEF BaseInv, Quiet
<1>2. QED
  BY <1>1, QuietDone DEF BaseInv, TypeOK

\* A quiet step that calls PersistentMwCAS on a descriptor in use, to help,
\* keeps the invariant.
LEMMA QuietHelp ==
  ASSUME BaseInv, Quiet, NEW t \in Threads, stack[t] # <<>>, result' = result,
         NEW g \in Frame, FrameOK(g)', g.desc = Top(t).desc,
         NEW d \in Descs, status[d] \notin {"invalid", "finished"}, Help(t, g, d)
  PROVE  BaseInv'
<1>1. Call(d) \in Frame
  BY DEF Call, Frame, Decided, Labels
<1>2. FrameOK(Call(d))'
  BY DEF FrameOK, CallFrameOK, Call, CallPCs, InstallPCs, HelpPCs, PersistPCs, FinalPCs, Quiet
<1>3. stack' = [stack EXCEPT ![t] = <<Call(d), g>> \o Tail(stack[t])]
  BY DEF Help, BaseInv, TypeOK
<1>4. StackInv' /\ stack' \in [Threads -> Seq(Frame)]
  BY <1>1, <1>2, <1>3, HelpStep DEF BaseInv, Quiet
<1>5. QED
  BY <1>4, QuietDone DEF BaseInv, TypeOK

\* A quiet step with which a call returns keeps the invariant.
LEMMA QuietLeave ==
  ASSUME BaseInv, Quiet, NEW t \in Threads, stack[t] # <<>>, Leave(t),
         Top(t).desc # "none" => status[Top(t).desc] \notin {"invalid", "finished"}
  PROVE  BaseInv'
<1>1. /\ StackInv' /\ stack' \in [Threads -> Seq(Frame)]
      /\ result' \in [Descs -> {"none", "true", "false"}]
      /\ \/ result' = result
         \/ LET d == Top(t).desc IN
            /\ d \in Descs /\ result[d] = "none"
            /\ result' = [result EXCEPT ![d] = IF status[d] = "succeeded" THEN "true" ELSE "false"]
  BY LeaveStep DEF BaseInv, Quiet
<1>2. ASSUME NEW d \in Descs, outcome[d] = "idle" PROVE result'[d] = result[d]
  <2>1. status[d] \in {"invalid", "finished"}
    BY <1>2 DEF BaseInv, DescInv
  <2>2. QED
    BY <1>1, <2>1, DescsAssumption DEF BaseInv, TypeOK
<1>3. QED
  BY <1>1, <1>2, QuietDone

-----------------------------------------------------------------------------
(***************************************************************************)
(* The steps of a call keep the invariant.                                 *)
(***************************************************************************)

\* The innermost call is as it should be.
LEMMA TopIs ==
  ASSUME BaseInv, NEW t \in Threads, NEW l, At(t, l)
  PROVE  /\ mode = "running" /\ stack[t] # <<>>
         /\ Top(t) \in Frame /\ FrameOK(Top(t)) /\ Top(t).pc = l
<1>1. stack[t] \in Seq(Frame) /\ stack[t] # <<>>
  BY DEF At, BaseInv, TypeOK
<1>2. Top(t) = stack[t][1] /\ 1 \in 1 .. Len(stack[t]) /\ Top(t) \in Frame
  BY <1>1, PopTop DEF Top
<1>3. QED
  BY <1>2 DEF At, BaseInv, StackInv

\* The innermost call, when it is one of PersistentMwCAS, works on a descriptor
\* in use.
LEMMA CallTop ==
  ASSUME BaseInv, NEW t \in Threads, NEW l \in CallPCs, At(t, l)
  PROVE  /\ mode = "running" /\ stack[t] # <<>>
         /\ Top(t) \in Frame /\ Top(t).pc = l /\ CallFrameOK(Top(t)) /\ Top(t).desc \in Descs
         /\ status[Top(t).desc] \notin {"invalid", "finished"} /\ entries[Top(t).desc] \in Ops[Top(t).desc]
         /\ Top(t).pc \notin {"enter", "clear_status"} =>
               Top(t).a \in Words /\ Top(t).a \in DOMAIN entries[Top(t).desc]
<1>1. /\ mode = "running" /\ stack[t] # <<>>
      /\ Top(t) \in Frame /\ FrameOK(Top(t)) /\ Top(t).pc = l
  BY TopIs
<1>2. CallFrameOK(Top(t))
  BY <1>1 DEF FrameOK, ReadPCs, CallPCs, InstallPCs, PersistPCs, FinalPCs
<1>3. Top(t).desc \in Descs /\ status[Top(t).desc] \notin {"invalid", "finished"}
  BY <1>2 DEF CallFrameOK
<1>4. entries[Top(t).desc] \in Ops[Top(t).desc]
  BY <1>3 DEF BaseInv, DescInv
<1>5. QED
  BY <1>1, <1>2, <1>3, <1>4, EntriesAre DEF CallFrameOK, BaseInv

\* The innermost call, when it is one of GetValue, works on a word.
LEMMA ReadTop ==
  ASSUME BaseInv, NEW t \in Threads, NEW l \in ReadPCs, At(t, l)
  PROVE  /\ mode = "running" /\ stack[t] # <<>>
         /\ Top(t) \in Frame /\ Top(t).pc = l /\ ReadFrameOK(Top(t)) /\ Top(t).desc = "none"
         /\ Top(t).a \in Words
<1>1. /\ mode = "running" /\ stack[t] # <<>>
      /\ Top(t) \in Frame /\ FrameOK(Top(t)) /\ Top(t).pc = l
  BY TopIs
<1>2. ReadFrameOK(Top(t))
  BY <1>1 DEF FrameOK, ReadPCs, CallPCs, InstallPCs, PersistPCs, FinalPCs
<1>3. QED
  BY <1>1, <1>2 DEF ReadFrameOK

\* A step that moves the call on to another place changes its label, and
\* forgets the words that it has read.
LEMMA JumpFrame ==
  ASSUME NEW f \in Frame, NEW l \in Labels
  PROVE  LET g == [f EXCEPT !.pc = l, !.seen = NoWord, !.new = NoWord] IN
         /\ g \in Frame /\ g.pc = l /\ g.desc = f.desc /\ g.a = f.a
         /\ g.seen = NoWord /\ g.new = NoWord /\ g.decision = f.decision
  BY DEF Frame

\* The install loop goes on when its word is installed: at the end, all words
\* are.
LEMMA AdvanceInstall ==
  ASSUME BaseInv, Quiet, NEW t \in Threads, NEW l \in InstallPCs, At(t, l), result' = result,
         Undecided(Top(t).desc) => Installed(mem'[Top(t).a], Top(t).desc),
         Advance(t, "install", "persist")
  PROVE  BaseInv'
<1>0. PICK f \in Frame : f = Top(t)
  BY CallTop DEF CallPCs
<1> DEFINE d == f.desc
<1>1. /\ stack[t] # <<>> /\ f \in Frame /\ f.pc = l /\ CallFrameOK(f) /\ d \in Descs
      /\ status[d] \notin {"invalid", "finished"} /\ entries[d] \in Ops[d] /\ f.a \in Words /\ f.a \in DOMAIN entries[d]
      /\ f.decision = "succeeded"
  BY <1>0, CallTop DEF CallPCs, InstallPCs, CallFrameOK
<1>2. FrameOK(f)
  BY <1>1 DEF FrameOK, CallPCs
<1>3. CallFrameOK(f)'
  BY <1>1, <1>2 DEF Quiet, Stable, FrameOK, CallPCs, ReadPCs, InstallPCs
<1>4. \A c \in DOMAIN entries[d] : Undecided(d) /\ c < f.a => Installed(mem'[c], d)
  BY <1>1, <1>3 DEF CallFrameOK, Quiet, Undecided
<1>5. DOMAIN entries[d] \subseteq Nat \ {0} /\ DOMAIN entries[d] \subseteq Words
  BY <1>1, EntriesAre, WordsAssumption DEF BaseInv
<1>6. \A c \in DOMAIN entries[d] : Undecided(d) /\ c <= f.a => Installed(mem'[c], d)
  BY <1>0, <1>1, <1>4, <1>5
<1>7. UNCHANGED <<status, entries>>
  BY DEF Quiet
<1>b. PICK b \in Words \cup {0} : b = AddressAfter(d, f.a)
  BY <1>1, <1>5, AddressAfterIs DEF BaseInv
<1>8. CASE b # 0
  <2>1. b \in DOMAIN entries[d] /\ \A c \in DOMAIN entries[d] : c < b => c <= f.a
    BY <1>1, <1>5, <1>b, <1>8, AddressAfterIs DEF BaseInv
  <2> DEFINE g == [f EXCEPT !.pc = "install", !.a = b, !.seen = NoWord, !.new = NoWord]
  <2>2. g \in Frame /\ g.desc = d /\ g.pc = "install" /\ g.a = b /\ g.decision = "succeeded"
    BY <1>1, <1>5, <2>1 DEF Frame, Labels
  <2> HIDE DEF g
  <2>3. CallFrameOK(g)'
    BY <1>1, <1>6, <1>7, <2>1, <2>2
       DEF CallFrameOK, InstallPCs, HelpPCs, PersistPCs, FinalPCs, Undecided
  <2>4. FrameOK(g)'
    BY <2>2, <2>3 DEF FrameOK, CallPCs, InstallPCs
  <2>5. Continue(t, g)
    <3>1. g = [[f EXCEPT !.seen = NoWord, !.new = NoWord] EXCEPT !.pc = "install", !.a = b]
      BY <1>1 DEF g, Frame
    <3>2. QED
      BY <1>0, <1>b, <1>8, <3>1 DEF Advance
  <2>6. QED
    BY <1>1, <2>2, <2>4, <2>5, <1>0, QuietContinue
<1>9. CASE b = 0
  <2>1. \A c \in DOMAIN entries[d] : c <= f.a
    BY <1>1, <1>5, <1>b, <1>9, AddressAfterIs DEF BaseInv
  <2>2. PICK c \in Words : c = First(d) /\ c \in DOMAIN entries[d]
    BY <1>1, FirstIs DEF BaseInv
  <2> DEFINE h == [f EXCEPT !.pc = "persist", !.a = c, !.seen = NoWord, !.new = NoWord]
  <2>3. h \in Frame /\ h.desc = d /\ h.pc = "persist" /\ h.a = c /\ h.decision = "succeeded"
    BY <1>1, <2>2 DEF Frame, Labels
  <2> HIDE DEF h
  <2>4. CallFrameOK(h)'
    BY <1>1, <1>6, <1>7, <2>1, <2>2, <2>3
       DEF CallFrameOK, InstallPCs, HelpPCs, PersistPCs, FinalPCs, Undecided
  <2>5. FrameOK(h)'
    BY <2>3, <2>4 DEF FrameOK, CallPCs, PersistPCs
  <2>6. Continue(t, h)
    <3>1. h = [[f EXCEPT !.seen = NoWord, !.new = NoWord] EXCEPT !.pc = "persist", !.a = c]
      BY <1>1 DEF h, Frame
    <3>2. QED
      BY <1>0, <1>b, <1>9, <2>2, <3>1 DEF Advance
  <2>7. QED
    BY <1>1, <2>3, <2>5, <2>6, <1>0, QuietContinue
<1>10. QED
  BY <1>8, <1>9

\* The loop that persists the pointers takes no word away from the operation.
LEMMA AdvancePersist ==
  ASSUME BaseInv, Quiet, NEW t \in Threads, NEW l \in PersistPCs, At(t, l), result' = result,
         Advance(t, "persist", "decide")
  PROVE  BaseInv'
<1>0. PICK f \in Frame : f = Top(t)
  BY CallTop DEF CallPCs
<1> DEFINE d == f.desc
<1>1. /\ stack[t] # <<>> /\ f \in Frame /\ f.pc = l /\ CallFrameOK(f) /\ d \in Descs
      /\ status[d] \notin {"invalid", "finished"} /\ entries[d] \in Ops[d] /\ f.a \in Words /\ f.a \in DOMAIN entries[d]
      /\ f.decision = "succeeded"
  BY <1>0, CallTop DEF CallPCs, PersistPCs, CallFrameOK
<1>2. FrameOK(f)
  BY <1>1 DEF FrameOK, CallPCs
<1>3. CallFrameOK(f)'
  BY <1>1, <1>2 DEF Quiet, Stable, FrameOK, CallPCs, ReadPCs, PersistPCs
<1>4. \A c \in DOMAIN entries[d] : Undecided(d) => Installed(mem'[c], d)
  BY <1>1, <1>3 DEF CallFrameOK, Quiet, Undecided
<1>5. DOMAIN entries[d] \subseteq Nat \ {0} /\ DOMAIN entries[d] \subseteq Words
  BY <1>1, EntriesAre, WordsAssumption DEF BaseInv
<1>7. UNCHANGED <<status, entries>>
  BY DEF Quiet
<1>b. PICK b \in Words \cup {0} : b = AddressAfter(d, f.a)
  BY <1>1, <1>5, AddressAfterIs DEF BaseInv
<1>8. CASE b # 0
  <2>1. b \in DOMAIN entries[d]
    BY <1>1, <1>5, <1>b, <1>8, AddressAfterIs DEF BaseInv
  <2> DEFINE g == [f EXCEPT !.pc = "persist", !.a = b, !.seen = NoWord, !.new = NoWord]
  <2>2. g \in Frame /\ g.desc = d /\ g.pc = "persist" /\ g.a = b /\ g.decision = "succeeded"
    BY <1>1, <1>5, <2>1 DEF Frame, Labels
  <2> HIDE DEF g
  <2>3. CallFrameOK(g)'
    BY <1>1, <1>4, <1>7, <2>1, <2>2
       DEF CallFrameOK, InstallPCs, HelpPCs, PersistPCs, FinalPCs, Undecided
  <2>4. FrameOK(g)'
    BY <2>2, <2>3 DEF FrameOK, CallPCs, PersistPCs
  <2>5. Continue(t, g)
    <3>1. g = [[f EXCEPT !.seen = NoWord, !.new = NoWord] EXCEPT !.pc = "persist", !.a = b]
      BY <1>1 DEF g, Frame
    <3>2. QED
      BY <1>0, <1>b, <1>8, <3>1 DEF Advance
  <2>6. QED
    BY <1>1, <2>2, <2>4, <2>5, <1>0, QuietContinue
<1>9. CASE b = 0
  <2>2. PICK c \in Words : c = First(d) /\ c \in DOMAIN entries[d]
    BY <1>1, FirstIs DEF BaseInv
  <2> DEFINE h == [f EXCEPT !.pc = "decide", !.a = c, !.seen = NoWord, !.new = NoWord]
  <2>3. h \in Frame /\ h.desc = d /\ h.pc = "decide" /\ h.a = c /\ h.decision = "succeeded"
    BY <1>1, <2>2 DEF Frame, Labels
  <2> HIDE DEF h
  <2>4. CallFrameOK(h)'
    BY <1>1, <1>4, <1>7, <2>2, <2>3
       DEF CallFrameOK, InstallPCs, HelpPCs, PersistPCs, FinalPCs, Undecided, Decided
  <2>5. FrameOK(h)'
    BY <2>3, <2>4 DEF FrameOK, CallPCs
  <2>6. Continue(t, h)
    <3>1. h = [[f EXCEPT !.seen = NoWord, !.new = NoWord] EXCEPT !.pc = "decide", !.a = c]
      BY <1>1 DEF h, Frame
    <3>2. QED
      BY <1>0, <1>b, <1>9, <2>2, <3>1 DEF Advance
  <2>7. QED
    BY <1>1, <2>3, <2>5, <2>6, <1>0, QuietContinue
<1>10. QED
  BY <1>8, <1>9

\* A quiet step that only moves the call on to another place keeps the
\* invariant.
LEMMA QuietJump ==
  ASSUME BaseInv, Quiet, NEW t \in Threads, stack[t] # <<>>, result' = result,
         NEW f \in Frame, f = Top(t), NEW l \in Labels, Jump(t, l),
         FrameOK([f EXCEPT !.pc = l, !.seen = NoWord, !.new = NoWord])'
  PROVE  BaseInv'
  BY JumpFrame, QuietContinue DEF Jump

\* Reading the status on entry keeps the invariant.
LEMMA EnterStep ==
  ASSUME BaseInv, NEW t \in Threads, Enter(t)
  PROVE  BaseInv'
<1>0. At(t, "enter")
  BY DEF Enter
<1>1. PICK f \in Frame : f = Top(t)
  BY <1>0, CallTop DEF CallPCs
<1> DEFINE d == f.desc
<1>2. /\ mode = "running" /\ stack[t] # <<>> /\ f.pc = "enter" /\ CallFrameOK(f) /\ d \in Descs
      /\ status[d] \notin {"invalid", "finished"} /\ entries[d] \in Ops[d]
  BY <1>0, <1>1, CallTop DEF CallPCs
<1>3. UNCHANGED <<mem, status, dirty, entries, reads, outcome, crashVars>>
  BY DEF Enter, memVars
<1>4. Quiet
  BY <1>2, <1>3, QuietIfSteady DEF BaseInv, TypeOK
<1>5. UNCHANGED <<mem, status, entries, outcome>>
  BY <1>3
<1>6. CASE status[d] = "undecided" /\ Continue(t, [f EXCEPT !.pc = "install", !.a = First(d)]) /\ UNCHANGED result
  <2>1. PICK c \in Words : c = First(d) /\ c \in DOMAIN entries[d] /\ \A b \in DOMAIN entries[d] : ~(b < c)
    BY <1>2, FirstIs DEF BaseInv
  <2> DEFINE g == [f EXCEPT !.pc = "install", !.a = c]
  <2>2. g \in Frame /\ g.desc = d /\ g.pc = "install" /\ g.a = c /\ g.decision = "succeeded"
    BY <1>2, <2>1 DEF Frame, Labels, CallFrameOK
  <2>3. Continue(t, g)
    BY <1>6, <2>1
  <2> HIDE DEF g
  <2>4. FrameOK(g)'
    BY <1>2, <1>5, <2>1, <2>2
       DEF FrameOK, CallPCs, CallFrameOK, InstallPCs, HelpPCs, PersistPCs, FinalPCs, Undecided
  <2>5. QED
    BY <1>1, <1>2, <1>4, <1>6, <2>2, <2>3, <2>4, QuietContinue
<1>7. CASE dirty[d] /\ Jump(t, "clear_status") /\ UNCHANGED result
  <2> DEFINE g == [f EXCEPT !.pc = "clear_status", !.seen = NoWord, !.new = NoWord]
  <2>1. g.pc = "clear_status" /\ g.desc = d
    BY DEF Frame
  <2>2. status[d] \in Decided
    BY <1>2, <1>7 DEF BaseInv, DescInv
  <2> HIDE DEF g
  <2>3. FrameOK(g)'
    BY <1>2, <1>5, <2>1, <2>2
       DEF FrameOK, CallPCs, CallFrameOK, InstallPCs, HelpPCs, PersistPCs, FinalPCs
  <2>4. QED
    BY <1>1, <1>2, <1>4, <1>7, <2>3, QuietJump DEF Labels, g
<1>8. CASE Leave(t)
  BY <1>1, <1>2, <1>4, <1>8, QuietLeave
<1>9. QED
  BY <1>1, <1>6, <1>7, <1>8 DEF Enter

\* Clearing the dirty bit of a decided status, on entry, keeps the invariant.
LEMMA ClearStatusStep ==
  ASSUME BaseInv, NEW t \in Threads, ClearStatus(t)
  PROVE  BaseInv'
<1>1. At(t, "clear_status") /\ Leave(t)
  BY DEF ClearStatus
<1>2. /\ mode = "running" /\ stack[t] # <<>> /\ Top(t).desc \in Descs /\ status[Top(t).desc] \notin {"invalid", "finished"}
  BY <1>1, CallTop DEF CallPCs
<1>3. UNCHANGED <<mem, status, entries, outcome, reads, crashVars>>
  BY DEF ClearStatus
<1>4. dirty' \in [Descs -> BOOLEAN] /\ \A d \in Descs : dirty'[d] => dirty[d]
  BY DEF ClearStatus, BaseInv, TypeOK
<1>5. Quiet
  BY <1>2, <1>3, <1>4, QuietIfSteady
<1>6. QED
  BY <1>1, <1>2, <1>5, QuietLeave

\* CondCAS, choosing what to swap in for its word descriptor, keeps the
\* invariant.
LEMMA CondStatusStep ==
  ASSUME BaseInv, NEW t \in Threads, CondStatus(t)
  PROVE  BaseInv'
<1>0. At(t, "cond_status")
  BY DEF CondStatus
<1>1. PICK f \in Frame : f = Top(t)
  BY <1>0, CallTop DEF CallPCs, InstallPCs
<1> DEFINE d == f.desc
<1>2. /\ mode = "running" /\ stack[t] # <<>> /\ f.pc = "cond_status" /\ CallFrameOK(f) /\ d \in Descs
      /\ status[d] \notin {"invalid", "finished"} /\ entries[d] \in Ops[d] /\ f.a \in Words /\ f.a \in DOMAIN entries[d]
  BY <1>0, <1>1, CallTop DEF CallPCs, InstallPCs
<1>3. UNCHANGED <<mem, status, dirty, entries, reads, outcome, result, crashVars>>
  BY DEF CondStatus, memVars, historyVars
<1>4. Quiet
  BY <1>2, <1>3, QuietIfSteady DEF BaseInv, TypeOK
<1>5. UNCHANGED <<mem, status, entries, outcome>>
  BY <1>3
<1>6. PICK w \in Word : w = Choose(d, f.a)
  BY <1>2, WordsMade, EntriesAre DEF Choose, BaseInv
<1>7. MaySwap(d, f.a, w)
  BY <1>2, <1>6 DEF Choose, MaySwap, Targets, Undecided
<1> DEFINE g == [f EXCEPT !.pc = "cond_swap", !.new = w]
<1>8. g \in Frame /\ g.desc = d /\ g.pc = "cond_swap" /\ g.a = f.a /\ g.new = w /\ g.decision = "succeeded"
  BY <1>2 DEF Frame, Labels, CallFrameOK, InstallPCs
<1>9. Continue(t, g)
  BY <1>1, <1>6 DEF CondStatus
<1> HIDE DEF g
<1>10. FrameOK(g)'
  BY <1>2, <1>5, <1>7, <1>8 DEF FrameOK, CallPCs, CallFrameOK, InstallPCs, HelpPCs, PersistPCs, FinalPCs,
        Undecided, MaySwap, Targets
<1>11. QED
  BY <1>1, <1>2, <1>3, <1>4, <1>8, <1>9, <1>10, QuietContinue

\* The CASes on words: the second one of CondCAS, ...
LEMMA QuietSwap ==
  ASSUME BaseInv, mode = "running", NEW a \in Words, NEW w \in Word, NEW d \in Descs,
         MaySwap(d, a, w), CAS(a, w, CondCASPtr(d)),
         UNCHANGED <<status, dirty, entries, outcome, reads, crashVars>>
  PROVE  /\ Quiet
         /\ Undecided(d) /\ mem[a] = CondCASPtr(d) => Installed(mem'[a], d)
<1>1. w.kind # "value" => w = MwCASPtr(d, TRUE) /\ Targets(w.of, a)
  BY DEF MaySwap, MwCASPtr, Value
<1>2. \A c \in Descs : ~Installed(CondCASPtr(d), c) /\ (CondCASPtr(d) = CondCASPtr(c) => c = d)
  BY WordFields DEF Installed
<1>3. Undecided(d) => w = MwCASPtr(d, TRUE) /\ Installed(w, d)
  BY DEF MaySwap, Installed, MwCASPtr
<1>4. Quiet
  BY <1>1, <1>2, <1>3, QuietIfCAS
<1>5. mem[a] = CondCASPtr(d) => mem'[a] = w
  BY DEF CAS, BaseInv, TypeOK
<1>6. QED
  BY <1>3, <1>4, <1>5

\* ... the ones that clear a dirty bit, ...
LEMMA QuietClean ==
  ASSUME BaseInv, mode = "running", NEW a \in Words, NEW w \in Word, NEW want \in Word,
         want.kind = w.kind, want.of = w.of, want.kind # "cond",
         want.kind = "mwcas" => Targets(want.of, a), CAS(a, w, want),
         UNCHANGED <<status, dirty, entries, outcome, reads, crashVars>>
  PROVE  Quiet
<1>1. w.kind # "value" => Targets(w.of, a)
  BY WordKinds
<1>2. \A c \in Descs : (Installed(want, c) => Installed(w, c)) /\ want # CondCASPtr(c)
  BY WordFields DEF Installed
<1>3. QED
  BY <1>1, <1>2, QuietIfCAS

\* ... and those of phase 2, on words of operations that are decided.
LEMMA QuietFinal ==
  ASSUME BaseInv, mode = "running", NEW a \in Words, NEW w \in Word, w.kind = "value",
         NEW d \in Descs, status[d] \in Decided, NEW b \in BOOLEAN, CAS(a, w, MwCASPtr(d, b)),
         UNCHANGED <<status, dirty, entries, outcome, reads, crashVars>>
  PROVE  Quiet
<1>1. \A c \in Descs : (Installed(MwCASPtr(d, b), c) => c = d) /\ MwCASPtr(d, b) # CondCASPtr(c)
  BY WordFields DEF Installed
<1>2. ~Undecided(d)
  BY DEF Undecided, Decided
<1>3. QED
  BY <1>1, <1>2, QuietIfCAS

\* The second CAS of CondCAS keeps the invariant: an undecided operation gets
\* its pointer into the word, whoever puts it there.
LEMMA CondSwapStep ==
  ASSUME BaseInv, NEW t \in Threads, CondSwap(t)
  PROVE  BaseInv'
<1>0. At(t, "cond_swap")
  BY DEF CondSwap
<1>1. PICK f \in Frame : f = Top(t)
  BY <1>0, CallTop DEF CallPCs, InstallPCs
<1> DEFINE d == f.desc
<1>2. /\ mode = "running" /\ stack[t] # <<>> /\ f.pc = "cond_swap" /\ CallFrameOK(f) /\ d \in Descs
      /\ status[d] \notin {"invalid", "finished"} /\ entries[d] \in Ops[d] /\ f.a \in Words /\ f.a \in DOMAIN entries[d]
  BY <1>0, <1>1, CallTop DEF CallPCs, InstallPCs
<1>3. UNCHANGED <<status, dirty, entries, outcome, reads, crashVars>> /\ result' = result
  BY DEF CondSwap, historyVars
<1>4. MaySwap(d, f.a, f.new)
  BY <1>2 DEF CallFrameOK
<1>5. f.new \in Word
  BY <1>2, <1>4, WordsMade, EntriesAre DEF MaySwap, BaseInv
<1>6. CAS(f.a, f.new, CondCASPtr(d))
  BY <1>1 DEF CondSwap
<1>7. Quiet /\ (Undecided(d) /\ mem[f.a] = CondCASPtr(d) => Installed(mem'[f.a], d))
  BY <1>2, <1>3, <1>4, <1>5, <1>6, QuietSwap
<1>8. Undecided(d) => Installed(mem'[f.a], d)
  <2>1. CASE mem[f.a] = CondCASPtr(d)
    BY <2>1, <1>7
  <2>2. CASE mem[f.a] # CondCASPtr(d)
    BY <2>2, <1>2, <1>6 DEF CAS, CallFrameOK
  <2>3. QED
    BY <2>1, <2>2
<1>9. Advance(t, "install", "persist")
  BY DEF CondSwap
<1>10. QED
  BY <1>0, <1>1, <1>3, <1>7, <1>8, <1>9, AdvanceInstall DEF InstallPCs

\* Reading the status of the operation whose word descriptor was met keeps the
\* invariant.
LEMMA HelpStatusStep ==
  ASSUME BaseInv, NEW t \in Threads, HelpStatus(t)
  PROVE  BaseInv'
<1>0. At(t, "help_status")
  BY DEF HelpStatus
<1>1. PICK f \in Frame : f = Top(t)
  BY <1>0, CallTop DEF CallPCs, InstallPCs
<1> DEFINE d == f.desc
<1>2. /\ mode = "running" /\ stack[t] # <<>> /\ f.pc = "help_status" /\ CallFrameOK(f) /\ d \in Descs
  BY <1>0, <1>1, CallTop DEF CallPCs, InstallPCs
<1>3. UNCHANGED <<mem, status, dirty, entries, outcome, reads, crashVars>> /\ result' = result
  BY DEF HelpStatus, memVars, historyVars
<1>4. Quiet
  BY <1>2, <1>3, QuietIfSteady DEF BaseInv, TypeOK
<1>5. UNCHANGED <<mem, status, entries, outcome>>
  BY <1>3
<1>6. PICK l \in {"help_check", "help_check_dptr"} :
        l = IF status[f.seen.of] = "undecided" THEN "help_check_dptr" ELSE "help_check"
  OBVIOUS
<1> DEFINE g == [f EXCEPT !.pc = l]
<1>7. /\ g \in Frame /\ g.desc = d /\ g.pc = l /\ g.a = f.a /\ g.seen = f.seen
      /\ g.decision = f.decision
  BY <1>2 DEF Frame, Labels
<1>8. Continue(t, g)
  BY <1>1, <1>6 DEF HelpStatus
<1> HIDE DEF g
<1>9. FrameOK(g)'
  BY <1>2, <1>5, <1>7 DEF FrameOK, CallPCs, CallFrameOK, InstallPCs, HelpPCs, PersistPCs, FinalPCs,
        Undecided, Targets
<1>10. QED
  BY <1>1, <1>2, <1>3, <1>4, <1>7, <1>8, <1>9, QuietContinue

\* Reading the word again keeps the invariant.
LEMMA HelpCheckStep ==
  ASSUME BaseInv, NEW t \in Threads, HelpCheck(t)
  PROVE  BaseInv'
<1>0. PICK p \in {"help_check", "help_check_dptr"} : At(t, p)
  BY DEF HelpCheck
<1>1. PICK f \in Frame : f = Top(t)
  BY <1>0, CallTop DEF CallPCs, InstallPCs
<1> DEFINE d == f.desc
<1>2. /\ mode = "running" /\ stack[t] # <<>> /\ f.pc = p /\ CallFrameOK(f) /\ d \in Descs
  BY <1>0, <1>1, CallTop DEF CallPCs, InstallPCs
<1>3. UNCHANGED <<mem, status, dirty, entries, outcome, reads, crashVars>> /\ result' = result
  BY DEF HelpCheck, memVars, historyVars
<1>4. Quiet
  BY <1>2, <1>3, QuietIfSteady DEF BaseInv, TypeOK
<1>5. UNCHANGED <<mem, status, entries, outcome>>
  BY <1>3
<1>6. CASE mem[f.a] # f.seen
  <2> DEFINE g == [f EXCEPT !.pc = "install", !.seen = NoWord, !.new = NoWord]
  <2>1. g \in Frame /\ g.desc = d /\ g.pc = "install" /\ g.a = f.a /\ g.decision = f.decision
    BY DEF Frame, Labels
  <2>2. Jump(t, "install")
    BY <1>1, <1>6 DEF HelpCheck
  <2> HIDE DEF g
  <2>3. FrameOK(g)'
    BY <1>2, <1>5, <2>1 DEF FrameOK, CallPCs, CallFrameOK, InstallPCs, HelpPCs, PersistPCs, FinalPCs,
          Undecided
  <2>4. QED
    BY <1>1, <1>2, <1>3, <1>4, <2>2, <2>3, QuietJump DEF Labels, g
<1>7. CASE mem[f.a] = f.seen
  <2>1. PICK l \in {"help_choose", "help_choose_dptr"} :
          l = IF f.pc = "help_check" THEN "help_choose" ELSE "help_choose_dptr"
    OBVIOUS
  <2> DEFINE g == [f EXCEPT !.pc = l]
  <2>2. /\ g \in Frame /\ g.desc = d /\ g.pc = l /\ g.a = f.a /\ g.seen = f.seen
        /\ g.decision = f.decision
    BY <1>2 DEF Frame, Labels
  <2>3. Continue(t, g)
    BY <1>1, <1>7, <2>1 DEF HelpCheck
  <2> HIDE DEF g
  <2>4. FrameOK(g)'
    BY <1>2, <1>5, <2>2 DEF FrameOK, CallPCs, CallFrameOK, InstallPCs, HelpPCs, PersistPCs, FinalPCs,
          Undecided, Targets
  <2>5. QED
    BY <1>1, <1>2, <1>3, <1>4, <2>2, <2>3, <2>4, QuietContinue
<1>8. QED
  BY <1>6, <1>7

\* Choosing what to swap in for a word descriptor that was met keeps the
\* invariant.
LEMMA HelpChooseStep ==
  ASSUME BaseInv, NEW t \in Threads, HelpChoose(t)
  PROVE  BaseInv'
<1>0. PICK p \in {"help_choose", "help_choose_dptr"} : At(t, p)
  BY DEF HelpChoose
<1>1. PICK f \in Frame : f = Top(t)
  BY <1>0, CallTop DEF CallPCs, InstallPCs
<1> DEFINE d == f.desc
           c == f.seen.of
<1>2. /\ mode = "running" /\ stack[t] # <<>> /\ f.pc = p /\ CallFrameOK(f) /\ d \in Descs
      /\ Targets(c, f.a)
  BY <1>0, <1>1, CallTop DEF CallPCs, InstallPCs, CallFrameOK, HelpPCs
<1>3. UNCHANGED <<mem, status, dirty, entries, outcome, reads, crashVars>> /\ result' = result
  BY DEF HelpChoose, memVars, historyVars
<1>4. Quiet
  BY <1>2, <1>3, QuietIfSteady DEF BaseInv, TypeOK
<1>5. UNCHANGED <<mem, status, entries, outcome>>
  BY <1>3
<1>6. PICK w \in Word : w = Choose(c, f.a)
  BY <1>2, WordsMade, EntriesAre DEF Choose, BaseInv, Targets
<1>7. MaySwap(c, f.a, w)
  BY <1>2, <1>6 DEF Choose, MaySwap, Undecided
<1>8. PICK l \in {"help_swap", "help_swap_dptr"} :
        l = IF f.pc = "help_choose" THEN "help_swap" ELSE "help_swap_dptr"
  OBVIOUS
<1> DEFINE g == [f EXCEPT !.pc = l, !.new = w]
<1>9. /\ g \in Frame /\ g.desc = d /\ g.pc = l /\ g.a = f.a /\ g.seen = f.seen /\ g.new = w
      /\ g.decision = f.decision
  BY <1>2 DEF Frame, Labels
<1>10. Continue(t, g)
  BY <1>1, <1>6, <1>8 DEF HelpChoose
<1> HIDE DEF g
<1>11. FrameOK(g)'
  BY <1>2, <1>5, <1>7, <1>9 DEF FrameOK, CallPCs, CallFrameOK, InstallPCs, HelpPCs, PersistPCs, FinalPCs,
        Undecided, Targets, MaySwap
<1>12. QED
  BY <1>1, <1>2, <1>3, <1>4, <1>9, <1>10, <1>11, QuietContinue

\* Swapping it in keeps the invariant.
LEMMA HelpSwapStep ==
  ASSUME BaseInv, NEW t \in Threads, HelpSwap(t)
  PROVE  BaseInv'
<1>0. PICK p \in {"help_swap", "help_swap_dptr"} : At(t, p)
  BY DEF HelpSwap
<1>1. PICK f \in Frame : f = Top(t)
  BY <1>0, CallTop DEF CallPCs, InstallPCs
<1> DEFINE d == f.desc
           c == f.seen.of
<1>2. /\ mode = "running" /\ stack[t] # <<>> /\ f.pc = p /\ CallFrameOK(f) /\ d \in Descs
      /\ f.seen = CondCASPtr(c) /\ Targets(c, f.a) /\ MaySwap(c, f.a, f.new) /\ f.a \in Words
  BY <1>0, <1>1, CallTop DEF CallPCs, InstallPCs, CallFrameOK, HelpPCs
<1>3. UNCHANGED <<status, dirty, entries, outcome, reads, crashVars>> /\ result' = result
  BY DEF HelpSwap, historyVars
<1>4. c \in Descs /\ f.new \in Word
  BY <1>2, WordsMade, EntriesAre DEF Targets, MaySwap, BaseInv
<1>5. CAS(f.a, f.new, CondCASPtr(c))
  BY <1>1, <1>2 DEF HelpSwap
<1>6. Quiet /\ (Undecided(c) /\ mem[f.a] = CondCASPtr(c) => Installed(mem'[f.a], c))
  BY <1>2, <1>3, <1>4, <1>5, QuietSwap
<1>7. CASE f.pc = "help_swap_dptr" /\ mem[f.a] = f.seen /\ c = d
  <2>1. Undecided(d) => Installed(mem'[f.a], d)
    BY <1>2, <1>6, <1>7
  <2>2. Advance(t, "install", "persist")
    BY <1>1, <1>7 DEF HelpSwap
  <2>3. QED
    BY <1>0, <1>1, <1>3, <1>6, <2>1, <2>2, AdvanceInstall DEF InstallPCs
<1>8. CASE ~(f.pc = "help_swap_dptr" /\ mem[f.a] = f.seen /\ c = d)
  <2> DEFINE g == [f EXCEPT !.pc = "install", !.seen = NoWord, !.new = NoWord]
  <2>1. g \in Frame /\ g.desc = d /\ g.pc = "install" /\ g.a = f.a /\ g.decision = f.decision
    BY DEF Frame, Labels
  <2>2. Jump(t, "install")
    BY <1>1, <1>8 DEF HelpSwap
  <2> HIDE DEF g
  <2>3. FrameOK(f)
    BY <1>2 DEF FrameOK, CallPCs, InstallPCs
  <2>4. CallFrameOK(f)'
    BY <1>2, <1>6, <2>3 DEF Quiet, Stable, FrameOK, ReadPCs
  <2>5. FrameOK(g)'
    BY <1>2, <2>1, <2>4 DEF FrameOK, CallPCs, CallFrameOK, InstallPCs, HelpPCs, PersistPCs, FinalPCs
  <2>6. QED
    BY <1>1, <1>2, <1>3, <1>6, <2>2, <2>5, QuietJump DEF Labels, g
<1>9. QED
  BY <1>7, <1>8

\* The first CAS of CondCAS, and each of the ways on from it, keep the
\* invariant.
LEMMA InstallStep ==
  ASSUME BaseInv, NEW t \in Threads, Install(t)
  PROVE  BaseInv'
<1>0. At(t, "install")
  BY DEF Install
<1>1. PICK f \in Frame : f = Top(t)
  BY <1>0, CallTop DEF CallPCs, InstallPCs
<1> DEFINE d == f.desc
           w == mem[f.a]
           old == entries[d][f.a].old
<1>2. /\ mode = "running" /\ stack[t] # <<>> /\ f.pc = "install" /\ CallFrameOK(f) /\ d \in Descs
      /\ status[d] \notin {"invalid", "finished"} /\ entries[d] \in Ops[d] /\ f.a \in Words /\ f.a \in DOMAIN entries[d]
      /\ f.decision = "succeeded" /\ w \in Word
  <2>1. /\ mode = "running" /\ stack[t] # <<>> /\ f.pc = "install" /\ CallFrameOK(f) /\ d \in Descs
        /\ status[d] \notin {"invalid", "finished"} /\ entries[d] \in Ops[d] /\ f.a \in Words /\ f.a \in DOMAIN entries[d]
    BY <1>0, <1>1, CallTop DEF CallPCs, InstallPCs
  <2>2. w \in Word
    BY <2>1 DEF BaseInv, TypeOK
  <2>3. f.decision = "succeeded"
    BY <2>1 DEF CallFrameOK, InstallPCs
  <2>4. QED
    BY <2>1, <2>2, <2>3
<1>3. UNCHANGED <<status, dirty, entries, reads, crashVars>> /\ result' = result
  BY DEF Install
<1>4. FrameOK(f)
  BY <1>2 DEF FrameOK, CallPCs, InstallPCs
<1>5. CASE w = Value(old, FALSE) /\ CAS(f.a, CondCASPtr(d), Value(old, FALSE)) /\ Jump(t, "cond_status")
           /\ UNCHANGED outcome
  <2>1. \A c \in Descs : ~Installed(Value(old, FALSE), c) /\ Value(old, FALSE) # CondCASPtr(c)
    BY DEF Installed, Value, CondCASPtr
  <2>2. Targets(CondCASPtr(d).of, f.a) /\ CondCASPtr(d) \in Word
    BY <1>2, WordsMade DEF Targets, CondCASPtr
  <2>3. Quiet
    BY <1>2, <1>3, <1>5, <2>1, <2>2, QuietIfCAS
  <2>4. mem'[f.a] = CondCASPtr(d)
    BY <1>2, <1>5 DEF CAS, BaseInv, TypeOK
  <2>5. CallFrameOK(f)'
    BY <1>2, <1>4, <2>3 DEF Quiet, Stable, FrameOK, ReadPCs
  <2> DEFINE g == [f EXCEPT !.pc = "cond_status", !.seen = NoWord, !.new = NoWord]
  <2>6. g \in Frame /\ g.desc = d /\ g.pc = "cond_status" /\ g.a = f.a /\ g.decision = f.decision
    BY DEF Frame, Labels
  <2> HIDE DEF g
  <2>7. FrameOK(g)'
    BY <1>2, <2>4, <2>5, <2>6 DEF FrameOK, CallPCs, CallFrameOK, InstallPCs, HelpPCs, PersistPCs, FinalPCs
  <2>8. QED
    BY <1>1, <1>2, <1>3, <1>5, <2>3, <2>7, QuietJump DEF Labels, g
<1>6. CASE /\ UNCHANGED <<mem, outcome>>
           /\ \/ w.kind = "cond" /\ Continue(t, [f EXCEPT !.pc = "help_status", !.seen = w])
              \/ Installed(w, d) /\ Advance(t, "install", "persist")
              \/ w.kind = "mwcas" /\ Help(t, f, w.of)
              \/ /\ Continue(t, [f EXCEPT !.pc = "decide", !.decision = "failed"])
                 /\ outcome[d] # "pending"
  <2>1. Quiet
    BY <1>2, <1>3, <1>6, QuietIfSteady DEF BaseInv, TypeOK
  <2>2. CASE w.kind = "cond" /\ Continue(t, [f EXCEPT !.pc = "help_status", !.seen = w])
    <3>1. PICK x \in Word : x = w
      BY <1>2
    <3> DEFINE g == [f EXCEPT !.pc = "help_status", !.seen = x]
    <3>2. /\ g \in Frame /\ g.desc = d /\ g.pc = "help_status" /\ g.a = f.a /\ g.decision = f.decision
          /\ g.seen = x
      BY DEF Frame, Labels
    <3>3. x = CondCASPtr(x.of) /\ Targets(x.of, f.a)
      BY <1>2, <2>2, <3>1, WordKinds DEF BaseInv, WordInv
    <3>4. Continue(t, g)
      BY <2>2, <3>1
    <3> HIDE DEF g
    <3>5. FrameOK(g)'
      BY <1>2, <1>3, <1>6, <3>2, <3>3
         DEF FrameOK, CallPCs, CallFrameOK, InstallPCs, HelpPCs, PersistPCs, FinalPCs, Targets, Undecided
    <3>6. QED
      BY <1>1, <1>2, <1>3, <2>1, <3>2, <3>4, <3>5, QuietContinue
  <2>3. CASE Installed(w, d) /\ Advance(t, "install", "persist")
    <3>1. Installed(mem'[f.a], d)
      BY <1>6, <2>3
    <3>2. QED
      BY <1>0, <1>1, <1>3, <2>1, <2>3, <3>1, AdvanceInstall DEF InstallPCs
  <2>4. CASE w.kind = "mwcas" /\ Help(t, f, w.of)
    <3>1. PICK x \in Descs : x = w.of
      BY <1>2, <2>4, WordKinds
    <3>2. status[x] \notin {"invalid", "finished"}
      BY <1>2, <2>4, <3>1 DEF BaseInv, WordInv, Targets
    <3>3. FrameOK(f)'
      BY <1>4, <2>1 DEF Quiet, Stable
    <3>4. QED
      BY <1>1, <1>2, <1>3, <2>1, <2>4, <3>1, <3>2, <3>3, QuietHelp
  <2>5. CASE /\ Continue(t, [f EXCEPT !.pc = "decide", !.decision = "failed"])
             /\ outcome[d] # "pending"
    <3> DEFINE g == [f EXCEPT !.pc = "decide", !.decision = "failed"]
    <3>1. /\ g \in Frame /\ g.desc = d /\ g.pc = "decide" /\ g.a = f.a /\ g.decision = "failed"
      BY DEF Frame, Labels, Decided
    <3>2. Undecided(d) => outcome[d] = "doomed"
      BY <1>2, <2>5 DEF BaseInv, DescInv
    <3> HIDE DEF g
    <3>3. FrameOK(g)'
      BY <1>2, <1>3, <1>6, <3>1, <3>2
         DEF FrameOK, CallPCs, CallFrameOK, InstallPCs, HelpPCs, PersistPCs, FinalPCs, Undecided, Decided
    <3>4. QED
      BY <1>1, <1>2, <1>3, <2>1, <2>5, <3>1, <3>3, QuietContinue DEF g
  <2>6. QED
    BY <1>6, <2>2, <2>3, <2>4, <2>5
<1>7. CASE /\ Continue(t, [f EXCEPT !.pc = "decide", !.decision = "failed"])
           /\ outcome[d] = "pending" /\ outcome' = [outcome EXCEPT ![d] = "doomed"] /\ UNCHANGED mem
  <2>1. outcome' \in [Descs -> {"idle", "pending", "doomed", "aborted"} \cup Decided]
        /\ outcome'[d] = "doomed" /\ \A c \in Descs \ {d} : outcome'[c] = outcome[c]
    BY <1>2, <1>7 DEF BaseInv, TypeOK
  <2>2. Undecided(d)
    BY <1>2, <1>7 DEF BaseInv, DescInv, TypeOK, Undecided, Decided
  <2>3. DescInv'
    BY <1>2, <1>3, <2>1, <2>2 DEF BaseInv, DescInv, Undecided, Decided, crashVars
  <2>4. Stable /\ WordInv'
    <3>1. mode' = "running" /\ status' \in [Descs -> {"invalid", "finished", "undecided"} \cup Decided]
      BY <1>2, <1>3 DEF crashVars, BaseInv, TypeOK
    <3>2. \A c \in Descs : status'[c] # status[c] => Undecided(c) /\ status'[c] \in Decided
      BY <1>3
    <3>3. \A c \in Descs : Undecided(c)' /\ outcome[c] = "doomed" => outcome'[c] = "doomed"
      BY <2>1
    <3>4. QED
      BY <1>2, <1>3, <1>7, <3>1, <3>2, <3>3, StatusEffect
  <2> DEFINE g == [f EXCEPT !.pc = "decide", !.decision = "failed"]
  <2>5. /\ g \in Frame /\ g.desc = d /\ g.pc = "decide" /\ g.a = f.a /\ g.decision = "failed"
    BY DEF Frame, Labels, Decided
  <2>6. Continue(t, g)
    BY <1>7
  <2> HIDE DEF g
  <2>7. FrameOK(g)'
    BY <1>2, <1>3, <2>1, <2>5
       DEF FrameOK, CallPCs, CallFrameOK, InstallPCs, HelpPCs, PersistPCs, FinalPCs, Undecided, Decided
  <2>8. StackInv' /\ stack' \in [Threads -> Seq(Frame)]
    BY <1>1, <1>2, <1>3, <2>4, <2>5, <2>6, <2>7, ContinueStep DEF BaseInv, crashVars
  <2>9. TypeOK'
    BY <1>3, <1>7, <2>1, <2>8 DEF BaseInv, TypeOK, crashVars
  <2>10. QED
    BY <2>3, <2>4, <2>8, <2>9 DEF BaseInv
<1>8. QED
  BY <1>1, <1>5, <1>6, <1>7 DEF Install

\* Looking for the dirty bit of an installed pointer keeps the invariant.
LEMMA PersistStep ==
  ASSUME BaseInv, NEW t \in Threads, Persist(t)
  PROVE  BaseInv'
<1>0. At(t, "persist")
  BY DEF Persist
<1>1. PICK f \in Frame : f = Top(t)
  BY <1>0, CallTop DEF CallPCs, PersistPCs
<1>2. /\ mode = "running" /\ stack[t] # <<>> /\ f.pc = "persist" /\ CallFrameOK(f) /\ f.desc \in Descs
  BY <1>0, <1>1, CallTop DEF CallPCs, PersistPCs
<1>3. UNCHANGED <<mem, status, dirty, entries, outcome, reads, crashVars>> /\ result' = result
  BY DEF Persist, memVars, historyVars
<1>4. Quiet
  BY <1>2, <1>3, QuietIfSteady DEF BaseInv, TypeOK
<1>5. CASE Jump(t, "persist_clear")
  <2> DEFINE g == [f EXCEPT !.pc = "persist_clear", !.seen = NoWord, !.new = NoWord]
  <2>1. g \in Frame /\ g.desc = f.desc /\ g.pc = "persist_clear" /\ g.a = f.a /\ g.decision = f.decision
    BY DEF Frame, Labels
  <2> HIDE DEF g
  <2>2. FrameOK(g)'
    BY <1>2, <1>3, <2>1 DEF FrameOK, CallPCs, CallFrameOK, InstallPCs, HelpPCs, PersistPCs, FinalPCs,
          Undecided
  <2>3. QED
    BY <1>1, <1>2, <1>3, <1>4, <1>5, <2>2, QuietJump DEF Labels, g
<1>6. CASE Advance(t, "persist", "decide")
  BY <1>0, <1>3, <1>4, <1>6, AdvancePersist DEF PersistPCs
<1>7. QED
  BY <1>5, <1>6 DEF Persist

\* Clearing it keeps the invariant.
LEMMA PersistClearStep ==
  ASSUME BaseInv, NEW t \in Threads, PersistClear(t)
  PROVE  BaseInv'
<1>0. At(t, "persist_clear")
  BY DEF PersistClear
<1>1. PICK f \in Frame : f = Top(t)
  BY <1>0, CallTop DEF CallPCs, PersistPCs
<1> DEFINE d == f.desc
<1>2. /\ mode = "running" /\ d \in Descs /\ f.a \in Words
      /\ status[d] \notin {"invalid", "finished"} /\ f.a \in DOMAIN entries[d]
  BY <1>0, <1>1, CallTop DEF CallPCs, PersistPCs
<1>3. UNCHANGED <<status, dirty, entries, outcome, reads, crashVars>> /\ result' = result
  BY DEF PersistClear, historyVars
<1>4. Targets(d, f.a) /\ MwCASPtr(d, TRUE) \in Word /\ MwCASPtr(d, FALSE) \in Word
  BY <1>2, WordsMade DEF Targets
<1>5. /\ MwCASPtr(d, TRUE).kind = "mwcas" /\ MwCASPtr(d, FALSE).kind = "mwcas"
      /\ MwCASPtr(d, TRUE).of = d /\ MwCASPtr(d, FALSE).of = d
  BY DEF MwCASPtr
<1>6. CAS(f.a, MwCASPtr(d, FALSE), MwCASPtr(d, TRUE))
  BY <1>1 DEF PersistClear
<1>7. Quiet
  BY <1>2, <1>3, <1>4, <1>5, <1>6, QuietClean
<1>8. QED
  BY <1>0, <1>3, <1>7, AdvancePersist DEF PersistPCs, PersistClear

\* The CAS of the status keeps the invariant.
LEMMA DecideStep ==
  ASSUME BaseInv, NEW t \in Threads, Decide(t)
  PROVE  BaseInv'
<1>0. At(t, "decide")
  BY DEF Decide
<1>1. PICK f \in Frame : f = Top(t)
  BY <1>0, CallTop DEF CallPCs
<1> DEFINE d == f.desc
<1>2. /\ mode = "running" /\ stack[t] # <<>> /\ f.pc = "decide" /\ CallFrameOK(f) /\ d \in Descs
      /\ status[d] \notin {"invalid", "finished"} /\ entries[d] \in Ops[d]
  BY <1>0, <1>1, CallTop DEF CallPCs
<1>3. UNCHANGED <<mem, entries, reads, result, crashVars>> /\ Jump(t, "settle")
  BY DEF Decide
<1>4. f.decision \in Decided /\ f.a \in DOMAIN entries[d]
  BY <1>2 DEF CallFrameOK
<1> DEFINE g == [f EXCEPT !.pc = "settle", !.seen = NoWord, !.new = NoWord]
<1>5. g \in Frame /\ g.desc = d /\ g.pc = "settle" /\ g.a = f.a /\ g.decision = f.decision
  BY DEF Frame, Labels
<1>6. Continue(t, g)
  BY <1>1, <1>3 DEF Jump
<1> HIDE DEF g
<1>7. CASE status[d] = "undecided"
  <2>1. /\ status' = [status EXCEPT ![d] = f.decision] /\ dirty' = [dirty EXCEPT ![d] = TRUE]
        /\ outcome' = [outcome EXCEPT ![d] = f.decision]
    BY <1>1, <1>7 DEF Decide
  <2>2. /\ status' \in [Descs -> {"invalid", "finished", "undecided"} \cup Decided] /\ status'[d] = f.decision
        /\ outcome' \in [Descs -> {"idle", "pending", "doomed", "aborted"} \cup Decided]
        /\ dirty' \in [Descs -> BOOLEAN]
        /\ outcome'[d] = f.decision
        /\ \A c \in Descs \ {d} : status'[c] = status[c] /\ outcome'[c] = outcome[c] /\ dirty'[c] = dirty[c]
    BY <1>2, <1>4, <2>1 DEF BaseInv, TypeOK
  <2>3. DescInv'
    BY <1>2, <1>3, <1>4, <2>2 DEF BaseInv, DescInv, Undecided, Decided, crashVars
  <2>4. Stable /\ WordInv'
    <3>1. mode' = "running"
      BY <1>2, <1>3 DEF crashVars
    <3>2. \A c \in Descs : status'[c] # status[c] => Undecided(c) /\ status'[c] \in Decided
      BY <1>4, <1>7, <2>2 DEF Undecided
    <3>3. \A c \in Descs : Undecided(c)' /\ outcome[c] = "doomed" => outcome'[c] = "doomed"
      BY <1>4, <2>2 DEF Undecided, Decided
    <3>4. QED
      BY <1>2, <1>3, <2>2, <3>1, <3>2, <3>3, StatusEffect
  <2>5. FrameOK(g)'
    BY <1>2, <1>3, <1>4, <1>5, <2>2
       DEF FrameOK, CallPCs, CallFrameOK, InstallPCs, HelpPCs, PersistPCs, FinalPCs, Decided
  <2>6. StackInv' /\ stack' \in [Threads -> Seq(Frame)]
    BY <1>1, <1>2, <1>3, <1>5, <1>6, <2>4, <2>5, ContinueStep DEF BaseInv, crashVars
  <2>7. TypeOK'
    BY <1>3, <2>2, <2>6 DEF BaseInv, TypeOK, crashVars
  <2>8. QED
    BY <2>3, <2>4, <2>6, <2>7 DEF BaseInv
<1>8. CASE status[d] # "undecided"
  <2>1. UNCHANGED <<status, dirty, outcome>>
    BY <1>1, <1>8 DEF Decide
  <2>2. Quiet
    BY <1>2, <1>3, <2>1, QuietIfSteady DEF BaseInv, TypeOK
  <2>3. status[d] \in Decided
    BY <1>2, <1>8 DEF BaseInv, TypeOK
  <2>4. FrameOK(g)'
    BY <1>2, <1>3, <1>4, <1>5, <2>1, <2>3
       DEF FrameOK, CallPCs, CallFrameOK, InstallPCs, HelpPCs, PersistPCs, FinalPCs
  <2>5. QED
    BY <1>1, <1>2, <1>3, <1>5, <1>6, <2>2, <2>4, QuietContinue
<1>9. QED
  BY <1>7, <1>8

\* Persisting the status and reading the outcome keeps the invariant.
LEMMA SettleStep ==
  ASSUME BaseInv, NEW t \in Threads, Settle(t)
  PROVE  BaseInv'
<1>0. At(t, "settle")
  BY DEF Settle
<1>1. PICK f \in Frame : f = Top(t)
  BY <1>0, CallTop DEF CallPCs
<1> DEFINE d == f.desc
<1>2. /\ mode = "running" /\ stack[t] # <<>> /\ f.pc = "settle" /\ CallFrameOK(f) /\ d \in Descs
      /\ status[d] \notin {"invalid", "finished"} /\ entries[d] \in Ops[d]
  BY <1>0, <1>1, CallTop DEF CallPCs
<1>3. UNCHANGED <<mem, status, entries, outcome, reads, crashVars>> /\ result' = result
  BY DEF Settle, historyVars
<1>4. dirty' \in [Descs -> BOOLEAN] /\ \A c \in Descs : dirty'[c] => dirty[c]
  BY DEF Settle, BaseInv, TypeOK
<1>5. Quiet
  BY <1>2, <1>3, <1>4, QuietIfSteady
<1>6. PICK o \in Decided : o = status[d]
  BY <1>2 DEF CallFrameOK
<1>7. PICK c \in Words : c = First(d) /\ c \in DOMAIN entries[d]
  BY <1>2, FirstIs DEF BaseInv
<1> DEFINE g == [f EXCEPT !.pc = "final", !.a = c, !.decision = o]
<1>8. g \in Frame /\ g.desc = d /\ g.pc = "final" /\ g.a = c /\ g.decision = o
  BY DEF Frame, Labels
<1>9. Continue(t, g)
  BY <1>1, <1>6, <1>7 DEF Settle
<1> HIDE DEF g
<1>10. FrameOK(g)'
  BY <1>2, <1>3, <1>6, <1>7, <1>8
     DEF FrameOK, CallPCs, CallFrameOK, InstallPCs, HelpPCs, PersistPCs, FinalPCs
<1>11. QED
  BY <1>1, <1>2, <1>3, <1>5, <1>8, <1>9, <1>10, QuietContinue

\* What phase 2 writes is a value.
LEMMA FinalTop ==
  ASSUME BaseInv, NEW t \in Threads, NEW l \in FinalPCs, At(t, l)
  PROVE  /\ mode = "running" /\ stack[t] # <<>> /\ Top(t) \in Frame /\ Top(t).pc = l
         /\ CallFrameOK(Top(t)) /\ Top(t).desc \in Descs /\ Top(t).a \in Words
         /\ Top(t).a \in DOMAIN entries[Top(t).desc] /\ entries[Top(t).desc] \in Ops[Top(t).desc]
         /\ status[Top(t).desc] \in Decided /\ Top(t).decision = status[Top(t).desc]
         /\ FinalValue(Top(t)) \in Values
<1>1. /\ mode = "running" /\ stack[t] # <<>> /\ Top(t) \in Frame /\ Top(t).pc = l
      /\ CallFrameOK(Top(t)) /\ Top(t).desc \in Descs /\ Top(t).a \in Words
      /\ Top(t).a \in DOMAIN entries[Top(t).desc] /\ entries[Top(t).desc] \in Ops[Top(t).desc]
  BY CallTop DEF CallPCs, FinalPCs
<1>2. status[Top(t).desc] \in Decided /\ Top(t).decision = status[Top(t).desc]
  BY <1>1 DEF CallFrameOK
<1>3. FinalValue(Top(t)) \in Values
  BY <1>1, EntriesAre DEF FinalValue, BaseInv
<1>4. QED
  BY <1>1, <1>2, <1>3

\* The first CAS of phase 2 keeps the invariant.
LEMMA FinalStep ==
  ASSUME BaseInv, NEW t \in Threads, Final(t)
  PROVE  BaseInv'
<1>0. At(t, "final")
  BY DEF Final
<1>1. PICK f \in Frame : f = Top(t)
  BY <1>0, FinalTop DEF FinalPCs
<1> DEFINE d == f.desc
<1>2. /\ mode = "running" /\ stack[t] # <<>> /\ f.pc = "final" /\ CallFrameOK(f) /\ d \in Descs
      /\ f.a \in Words /\ status[d] \in Decided /\ FinalValue(f) \in Values
  BY <1>0, <1>1, FinalTop DEF FinalPCs
<1>3. UNCHANGED <<status, dirty, entries, outcome, reads, crashVars>> /\ result' = result
  BY DEF Final, historyVars
<1>4. Value(FinalValue(f), TRUE) \in Word /\ Value(FinalValue(f), TRUE).kind = "value"
  BY <1>2, WordsMade DEF Value
<1>5. CAS(f.a, Value(FinalValue(f), TRUE), MwCASPtr(d, TRUE))
  BY <1>1 DEF Final
<1>6. Quiet
  BY <1>2, <1>3, <1>4, <1>5, QuietFinal
<1>7. PICK l \in {"final_retry", "final_clear"} :
        l = IF mem[f.a] = MwCASPtr(f.desc, FALSE) THEN "final_retry" ELSE "final_clear"
  OBVIOUS
<1> DEFINE g == [f EXCEPT !.pc = l, !.seen = NoWord, !.new = NoWord]
<1>8. g \in Frame /\ g.desc = d /\ g.pc = l /\ g.a = f.a /\ g.decision = f.decision
  BY DEF Frame, Labels
<1>9. Continue(t, g)
  BY <1>1, <1>7 DEF Final, Jump
<1> HIDE DEF g
<1>10. FrameOK(g)'
  BY <1>2, <1>3, <1>8
     DEF FrameOK, CallPCs, CallFrameOK, InstallPCs, HelpPCs, PersistPCs, FinalPCs
<1>11. QED
  BY <1>1, <1>2, <1>3, <1>6, <1>8, <1>9, <1>10, QuietContinue

\* The second CAS of phase 2, for a pointer whose dirty bit was cleared, keeps
\* the invariant.
LEMMA FinalRetryStep ==
  ASSUME BaseInv, NEW t \in Threads, FinalRetry(t)
  PROVE  BaseInv'
<1>0. At(t, "final_retry")
  BY DEF FinalRetry
<1>1. PICK f \in Frame : f = Top(t)
  BY <1>0, FinalTop DEF FinalPCs
<1> DEFINE d == f.desc
<1>2. /\ mode = "running" /\ stack[t] # <<>> /\ f.pc = "final_retry" /\ CallFrameOK(f) /\ d \in Descs
      /\ f.a \in Words /\ status[d] \in Decided /\ FinalValue(f) \in Values
  BY <1>0, <1>1, FinalTop DEF FinalPCs
<1>3. UNCHANGED <<status, dirty, entries, outcome, reads, crashVars>> /\ result' = result
  BY DEF FinalRetry, historyVars
<1>4. Value(FinalValue(f), TRUE) \in Word /\ Value(FinalValue(f), TRUE).kind = "value"
  BY <1>2, WordsMade DEF Value
<1>5. CAS(f.a, Value(FinalValue(f), TRUE), MwCASPtr(d, FALSE))
  BY <1>1 DEF FinalRetry
<1>6. Quiet
  BY <1>2, <1>3, <1>4, <1>5, QuietFinal
<1> DEFINE g == [f EXCEPT !.pc = "final_clear", !.seen = NoWord, !.new = NoWord]
<1>8. g \in Frame /\ g.desc = d /\ g.pc = "final_clear" /\ g.a = f.a /\ g.decision = f.decision
  BY DEF Frame, Labels
<1>9. Continue(t, g)
  BY <1>1 DEF FinalRetry, Jump
<1> HIDE DEF g
<1>10. FrameOK(g)'
  BY <1>2, <1>3, <1>8
     DEF FrameOK, CallPCs, CallFrameOK, InstallPCs, HelpPCs, PersistPCs, FinalPCs
<1>11. QED
  BY <1>1, <1>2, <1>3, <1>6, <1>8, <1>9, <1>10, QuietContinue

\* Clearing the dirty bit of a final value keeps the invariant.
LEMMA FinalClearStep ==
  ASSUME BaseInv, NEW t \in Threads, FinalClear(t)
  PROVE  BaseInv'
<1>0. At(t, "final_clear")
  BY DEF FinalClear
<1>1. PICK f \in Frame : f = Top(t)
  BY <1>0, FinalTop DEF FinalPCs
<1> DEFINE d == f.desc
<1>2. /\ mode = "running" /\ stack[t] # <<>> /\ f.pc = "final_clear" /\ CallFrameOK(f) /\ d \in Descs
      /\ f.a \in Words /\ f.a \in DOMAIN entries[d]
      /\ status[d] \in Decided /\ FinalValue(f) \in Values
  BY <1>0, <1>1, FinalTop DEF FinalPCs
<1>3. UNCHANGED <<status, dirty, entries, outcome, reads, crashVars>>
  BY DEF FinalClear
<1>4. /\ Value(FinalValue(f), TRUE) \in Word /\ Value(FinalValue(f), FALSE) \in Word
      /\ Value(FinalValue(f), TRUE).kind = "value" /\ Value(FinalValue(f), FALSE).kind = "value"
      /\ Value(FinalValue(f), TRUE).of = FinalValue(f) /\ Value(FinalValue(f), FALSE).of = FinalValue(f)
  BY <1>2, WordsMade DEF Value
<1>5. CAS(f.a, Value(FinalValue(f), FALSE), Value(FinalValue(f), TRUE))
  BY <1>1 DEF FinalClear
<1>6. Quiet
  BY <1>2, <1>3, <1>4, <1>5, QuietClean
<1>7. CASE Leave(t)
  BY <1>1, <1>2, <1>6, <1>7, QuietLeave DEF CallFrameOK
<1>8. CASE AddressAfter(d, f.a) # 0 /\ Advance(t, "final", "none") /\ UNCHANGED result
  <2>1. DOMAIN entries[d] \subseteq Nat \ {0} /\ DOMAIN entries[d] \subseteq Words
    BY <1>2, EntriesAre, WordsAssumption DEF BaseInv
  <2>2. PICK b \in Words : b = AddressAfter(d, f.a) /\ b \in DOMAIN entries[d] /\ b # 0
    BY <1>2, <1>8, <2>1, AddressAfterIs DEF BaseInv
  <2> DEFINE g == [f EXCEPT !.pc = "final", !.a = b, !.seen = NoWord, !.new = NoWord]
  <2>3. g \in Frame /\ g.desc = d /\ g.pc = "final" /\ g.a = b /\ g.decision = f.decision
    BY DEF Frame, Labels
  <2>4. Continue(t, g)
    <3>1. g = [[f EXCEPT !.seen = NoWord, !.new = NoWord] EXCEPT !.pc = "final", !.a = b]
      BY DEF Frame
    <3>2. QED
      BY <1>1, <1>8, <2>2, <3>1 DEF Advance
  <2> HIDE DEF g
  <2>5. FrameOK(g)'
    BY <1>2, <1>3, <2>2, <2>3
       DEF FrameOK, CallPCs, CallFrameOK, InstallPCs, HelpPCs, PersistPCs, FinalPCs
  <2>6. QED
    BY <1>1, <1>2, <1>6, <1>8, <2>3, <2>4, <2>5, QuietContinue
<1>9. QED
  BY <1>1, <1>7, <1>8 DEF FinalClear

\* An injected failure keeps the invariant.
LEMMA StopStep ==
  ASSUME BaseInv, NEW t \in Threads, Stop(t)
  PROVE  BaseInv'
<1>1. mode = "running"
  BY DEF Stop, At
<1>2. UNCHANGED <<mem, status, dirty, entries, outcome, reads, crashVars>> /\ result' = result
  BY DEF Stop, memVars, historyVars
<1>3. Quiet
  BY <1>1, <1>2, QuietIfSteady DEF BaseInv, TypeOK
<1>4. StackInv' /\ stack' \in [Threads -> Seq(Frame)]
  BY <1>2, <1>3, EndStep DEF Stop, Quiet, BaseInv
<1>5. QED
  BY <1>2, <1>3, <1>4, QuietDone DEF BaseInv, TypeOK

\* A call of GetValue keeps the invariant.
LEMMA BeginReadStep ==
  ASSUME BaseInv, NEW t \in Threads, NEW a \in Words, BeginRead(t, a)
  PROVE  BaseInv'
<1>1. mode = "running" /\ mode' = "running"
  BY DEF BeginRead, crashVars
<1>2. UNCHANGED <<mem, status, dirty, entries, outcome, result, crashes, todo, mode>>
  BY DEF BeginRead, memVars, historyVars, crashVars
<1>3. Stable /\ WordInv'
  <2>1. status' \in [Descs -> {"invalid", "finished", "undecided"} \cup Decided]
    BY <1>2 DEF BaseInv, TypeOK
  <2>2. \A d \in Descs : status'[d] # status[d] => Undecided(d) /\ status'[d] \in Decided
    BY <1>2
  <2>3. \A d \in Descs : Undecided(d)' /\ outcome[d] = "doomed" => outcome'[d] = "doomed"
    BY <1>2
  <2>4. QED
    BY <1>1, <1>2, <2>1, <2>2, <2>3, StatusEffect
<1>4. DescInv'
  BY <1>2 DEF BaseInv, DescInv, Undecided, InUse
<1>5. PICK g \in Frame : g = ReadCall(a)
  BY DEF ReadCall, Frame, Labels
<1>6. g.desc = "none" /\ g.pc = "read" /\ g.a = a
  BY <1>5 DEF ReadCall
<1>7. FrameOK(g)'
  BY <1>6 DEF FrameOK, ReadFrameOK, ReadPCs
<1>8. stack' = [stack EXCEPT ![t] = <<g>>]
  BY <1>5 DEF BeginRead
<1>9. StackInv' /\ stack' \in [Threads -> Seq(Frame)]
  BY <1>1, <1>2, <1>3, <1>6, <1>7, <1>8, StartStep DEF BaseInv
<1>10. reads' \in [Threads -> Nat]
  BY DEF BeginRead, BaseInv, TypeOK
<1>11. TypeOK'
  BY <1>2, <1>9, <1>10 DEF BaseInv, TypeOK
<1>12. QED
  BY <1>3, <1>4, <1>9, <1>11 DEF BaseInv

\* Reading a word keeps the invariant.
LEMMA ReadStep ==
  ASSUME BaseInv, NEW t \in Threads, Read(t)
  PROVE  BaseInv'
<1>0. At(t, "read")
  BY DEF Read
<1>1. PICK f \in Frame : f = Top(t)
  BY <1>0, ReadTop DEF ReadPCs
<1>2. /\ mode = "running" /\ stack[t] # <<>> /\ f.pc = "read" /\ ReadFrameOK(f)
      /\ f.desc = "none" /\ f.a \in Words
  BY <1>0, <1>1, ReadTop DEF ReadPCs
<1>3. UNCHANGED <<mem, status, dirty, entries, outcome, reads, crashVars>>
  BY DEF Read, memVars
<1>4. Quiet
  BY <1>2, <1>3, QuietIfSteady DEF BaseInv, TypeOK
<1>5. PICK w \in Word : w = mem[f.a]
  BY <1>2 DEF BaseInv, TypeOK
<1>6. w.kind # "value" => Targets(w.of, f.a)
  BY <1>2, <1>5 DEF BaseInv, WordInv
<1>7. CASE w.kind = "cond" /\ Continue(t, [f EXCEPT !.pc = "read_status", !.seen = w]) /\ UNCHANGED result
  <2> DEFINE g == [f EXCEPT !.pc = "read_status", !.seen = w]
  <2>1. g \in Frame /\ g.desc = "none" /\ g.pc = "read_status" /\ g.a = f.a /\ g.seen = w
    BY <1>2 DEF Frame, Labels
  <2>2. w = CondCASPtr(w.of) /\ Targets(w.of, f.a)
    BY <1>6, <1>7, WordKinds
  <2>3. Continue(t, g)
    BY <1>7
  <2> HIDE DEF g
  <2>4. FrameOK(g)'
    BY <1>2, <1>3, <2>1, <2>2 DEF FrameOK, ReadFrameOK, ReadPCs, Targets
  <2>5. QED
    BY <1>1, <1>2, <1>4, <1>7, <2>1, <2>3, <2>4, QuietContinue
<1>8. CASE w.dirty /\ Continue(t, [f EXCEPT !.pc = "read_clear", !.seen = w]) /\ UNCHANGED result
  <2> DEFINE g == [f EXCEPT !.pc = "read_clear", !.seen = w]
  <2>1. g \in Frame /\ g.desc = "none" /\ g.pc = "read_clear" /\ g.a = f.a /\ g.seen = w
    BY <1>2 DEF Frame, Labels
  <2>2. Continue(t, g)
    BY <1>8
  <2> HIDE DEF g
  <2>3. FrameOK(g)'
    BY <1>2, <1>3, <1>6, <1>8, <2>1 DEF FrameOK, ReadFrameOK, ReadPCs, Targets
  <2>4. QED
    BY <1>1, <1>2, <1>4, <1>8, <2>1, <2>2, <2>3, QuietContinue
<1>9. CASE w.kind = "mwcas" /\ Help(t, f, w.of) /\ UNCHANGED result
  <2>1. PICK x \in Descs : x = w.of /\ status[x] \notin {"invalid", "finished"}
    BY <1>6, <1>9 DEF Targets
  <2>2. FrameOK(f)'
    BY <1>2, <1>4 DEF FrameOK, ReadPCs, Quiet, Stable
  <2>3. QED
    BY <1>1, <1>2, <1>4, <1>9, <2>1, <2>2, QuietHelp
<1>10. CASE Leave(t)
  BY <1>1, <1>2, <1>4, <1>10, QuietLeave
<1>11. QED
  BY <1>1, <1>5, <1>7, <1>8, <1>9, <1>10 DEF Read

\* A reader that completes a CondCAS it has met keeps the invariant, here
\* choosing the word ...
LEMMA ReadStatusStep ==
  ASSUME BaseInv, NEW t \in Threads, ReadStatus(t)
  PROVE  BaseInv'
<1>0. At(t, "read_status")
  BY DEF ReadStatus
<1>1. PICK f \in Frame : f = Top(t)
  BY <1>0, ReadTop DEF ReadPCs
<1> DEFINE c == f.seen.of
<1>2. /\ mode = "running" /\ stack[t] # <<>> /\ f.pc = "read_status" /\ ReadFrameOK(f)
      /\ f.desc = "none" /\ f.a \in Words /\ f.seen = CondCASPtr(c) /\ Targets(c, f.a)
  BY <1>0, <1>1, ReadTop DEF ReadPCs, ReadFrameOK
<1>3. UNCHANGED <<mem, status, dirty, entries, outcome, reads, crashVars>> /\ result' = result
  BY DEF ReadStatus, memVars, historyVars
<1>4. Quiet
  BY <1>2, <1>3, QuietIfSteady DEF BaseInv, TypeOK
<1>5. PICK w \in Word : w = Choose(c, f.a)
  BY <1>2, WordsMade, EntriesAre DEF Choose, BaseInv, Targets
<1>6. MaySwap(c, f.a, w)
  BY <1>2, <1>5 DEF Choose, MaySwap, Undecided
<1> DEFINE g == [f EXCEPT !.pc = "read_swap", !.new = w]
<1>7. g \in Frame /\ g.desc = "none" /\ g.pc = "read_swap" /\ g.a = f.a /\ g.seen = f.seen /\ g.new = w
  BY <1>2 DEF Frame, Labels
<1>8. Continue(t, g)
  BY <1>1, <1>5 DEF ReadStatus
<1> HIDE DEF g
<1>9. FrameOK(g)'
  BY <1>2, <1>3, <1>6, <1>7 DEF FrameOK, ReadFrameOK, ReadPCs, Targets, MaySwap, Undecided
<1>10. QED
  BY <1>1, <1>2, <1>3, <1>4, <1>7, <1>8, <1>9, QuietContinue

\* ... and here swapping it in.
LEMMA ReadSwapStep ==
  ASSUME BaseInv, NEW t \in Threads, ReadSwap(t)
  PROVE  BaseInv'
<1>0. At(t, "read_swap")
  BY DEF ReadSwap
<1>1. PICK f \in Frame : f = Top(t)
  BY <1>0, ReadTop DEF ReadPCs
<1> DEFINE c == f.seen.of
<1>2. /\ mode = "running" /\ stack[t] # <<>> /\ f.pc = "read_swap" /\ ReadFrameOK(f)
      /\ f.desc = "none" /\ f.a \in Words /\ f.seen = CondCASPtr(c) /\ Targets(c, f.a)
      /\ MaySwap(c, f.a, f.new)
  BY <1>0, <1>1, ReadTop DEF ReadPCs, ReadFrameOK
<1>3. UNCHANGED <<status, dirty, entries, outcome, reads, crashVars>> /\ result' = result
  BY DEF ReadSwap, historyVars
<1>4. c \in Descs /\ f.new \in Word
  BY <1>2, WordsMade, EntriesAre DEF Targets, MaySwap, BaseInv
<1>5. CAS(f.a, f.new, CondCASPtr(c))
  BY <1>1, <1>2 DEF ReadSwap
<1>6. Quiet
  BY <1>2, <1>3, <1>4, <1>5, QuietSwap
<1> DEFINE g == [f EXCEPT !.pc = "read", !.seen = NoWord, !.new = NoWord]
<1>7. g \in Frame /\ g.desc = "none" /\ g.pc = "read" /\ g.a = f.a
  BY <1>2 DEF Frame, Labels
<1>8. Continue(t, g)
  BY <1>1 DEF ReadSwap, Jump
<1> HIDE DEF g
<1>9. FrameOK(g)'
  BY <1>2, <1>7 DEF FrameOK, ReadFrameOK, ReadPCs
<1>10. QED
  BY <1>1, <1>2, <1>3, <1>6, <1>7, <1>8, <1>9, QuietContinue

\* A reader that clears a dirty bit keeps the invariant.
LEMMA ReadClearStep ==
  ASSUME BaseInv, NEW t \in Threads, ReadClear(t)
  PROVE  BaseInv'
<1>0. At(t, "read_clear")
  BY DEF ReadClear
<1>1. PICK f \in Frame : f = Top(t)
  BY <1>0, ReadTop DEF ReadPCs
<1> DEFINE w == f.seen
<1>2. /\ mode = "running" /\ stack[t] # <<>> /\ f.pc = "read_clear" /\ ReadFrameOK(f)
      /\ f.desc = "none" /\ f.a \in Words
  BY <1>0, <1>1, ReadTop DEF ReadPCs
<1>3. w \in Word /\ w.dirty /\ (w.kind = "mwcas" => Targets(w.of, f.a))
  BY <1>2 DEF ReadFrameOK
<1>4. w.kind # "cond"
  BY <1>3, WordKinds
<1>5. Clean(w) \in Word /\ Clean(w).kind = w.kind /\ Clean(w).of = w.of
  BY <1>3, <1>4, CleanWord
<1>6. UNCHANGED <<status, dirty, entries, outcome, reads, crashVars>>
  BY DEF ReadClear
<1>7. CAS(f.a, Clean(w), w)
  BY <1>1 DEF ReadClear
<1>8. Quiet
  BY <1>2, <1>3, <1>4, <1>5, <1>6, <1>7, QuietClean
<1>9. CASE w.kind = "mwcas" /\ Help(t, [f EXCEPT !.pc = "read", !.seen = NoWord], w.of) /\ UNCHANGED result
  <2> DEFINE g == [f EXCEPT !.pc = "read", !.seen = NoWord]
  <2>1. g \in Frame /\ g.desc = "none" /\ g.pc = "read" /\ g.a = f.a
    BY <1>2 DEF Frame, Labels
  <2>2. w.of \in Descs /\ status[w.of] \notin {"invalid", "finished"}
    BY <1>3, <1>9 DEF Targets
  <2>3. Help(t, g, w.of)
    BY <1>9
  <2> HIDE DEF g
  <2>4. FrameOK(g)'
    BY <1>2, <2>1 DEF FrameOK, ReadFrameOK, ReadPCs
  <2>5. QED
    BY <1>1, <1>2, <1>8, <1>9, <2>1, <2>2, <2>3, <2>4, QuietHelp
<1>10. CASE Leave(t)
  BY <1>1, <1>2, <1>8, <1>10, QuietLeave
<1>11. QED
  BY <1>1, <1>9, <1>10 DEF ReadClear

-----------------------------------------------------------------------------
(***************************************************************************)
(* Beginning an operation, and crash and recovery.                         *)
(***************************************************************************)

\* A new operation keeps the invariant: no call and no word knows its
\* descriptor yet.
LEMMA BeginStep ==
  ASSUME BaseInv, NEW t \in Threads, NEW d \in Descs, Begin(t, d)
  PROVE  BaseInv'
<1>1. mode = "running" /\ mode' = "running" /\ UNCHANGED <<mem, dirty, reads, result, crashes, todo, mode>>
  BY DEF Begin, crashVars
<1>2. PICK op \in Ops[d] : entries' = [entries EXCEPT ![d] = op]
  BY DEF Begin
<1>3. /\ status[d] = "finished" /\ outcome[d] = "idle" /\ result[d] = "none"
  BY DEF BaseInv, DescInv, Begin
<1>4. /\ status' \in [Descs -> {"invalid", "finished", "undecided"} \cup Decided] /\ status'[d] = "undecided"
      /\ entries' \in [Descs -> {<<>>} \cup UNION {Ops[c] : c \in Descs}] /\ entries'[d] = op
      /\ outcome' \in [Descs -> {"idle", "pending", "doomed", "aborted"} \cup Decided]
      /\ outcome'[d] = "pending"
      /\ \A c \in Descs \ {d} : status'[c] = status[c] /\ entries'[c] = entries[c] /\ outcome'[c] = outcome[c]
  BY <1>2 DEF Begin, BaseInv, TypeOK
<1>5. DescInv'
  BY <1>1, <1>3, <1>4 DEF BaseInv, DescInv, Undecided, Decided
<1>6. \A c, a, w : /\ Targets(c, a) => c \in Descs \ {d} /\ Targets(c, a)'
                   /\ MaySwap(c, a, w) => MaySwap(c, a, w)'
  BY <1>3, <1>4 DEF Targets, MaySwap, Undecided
<1>7. WordInv'
  <2>1. \A c \in Descs : status'[c] # "invalid"
    BY <1>1, <1>4 DEF BaseInv, DescInv
  <2>2. ASSUME NEW b \in Words, mem'[b].kind # "value" PROVE Targets(mem[b].of, b)'
    BY <1>1, <1>6, <2>2 DEF BaseInv, WordInv
  <2>3. QED
    BY <1>1, <2>1, <2>2 DEF WordInv
<1>8. ASSUME NEW f \in Frame, ReadFrameOK(f) PROVE ReadFrameOK(f)'
  BY <1>6, <1>8 DEF ReadFrameOK
<1>9. ASSUME NEW f \in Frame, CallFrameOK(f) PROVE CallFrameOK(f)'
  <2>1. f.desc \in Descs /\ f.desc # d
    BY <1>3, <1>9 DEF CallFrameOK
  <2>2. QED
    BY <1>1, <1>4, <1>6, <1>9, <2>1 DEF CallFrameOK, Undecided
<1>10. Stable
  BY <1>8, <1>9 DEF Stable, FrameOK
<1>11. PICK g \in Frame : g = Call(d)
  BY DEF Call, Frame, Decided, Labels
<1>12. g.pc = "enter" /\ g.desc = d /\ g.decision = "succeeded"
  BY <1>11 DEF Call
<1>13. FrameOK(g)'
  BY <1>4, <1>12 DEF FrameOK, CallFrameOK, CallPCs, InstallPCs, HelpPCs, PersistPCs, FinalPCs
<1>14. stack' = [stack EXCEPT ![t] = <<g>>] /\ Owner[d] = t
  BY <1>11 DEF Begin
<1>15. StackInv' /\ stack' \in [Threads -> Seq(Frame)]
  BY <1>1, <1>3, <1>10, <1>12, <1>13, <1>14, StartStep DEF BaseInv
<1>16. TypeOK'
  BY <1>1, <1>4, <1>15 DEF BaseInv, TypeOK
<1>17. QED
  BY <1>5, <1>7, <1>15, <1>16 DEF BaseInv

\* A crash keeps the invariant: the descriptors that words point to are all
\* looked at by Recovery.
LEMMA CrashStep ==
  ASSUME BaseInv, Crash
  PROVE  BaseInv'
<1>1. UNCHANGED <<mem, status, dirty, entries, reads, result>> /\ mode' = "recovering"
  BY DEF Crash, memVars
<1>2. stack' \in [Threads -> Seq(Frame)] /\ \A t \in Threads : stack'[t] = <<>>
  BY DEF Crash
<1>3. /\ outcome' \in [Descs -> {"idle", "pending", "doomed", "aborted"} \cup Decided]
      /\ \A d \in Descs : outcome'[d] = IF outcome[d] \in {"pending", "doomed"} THEN "aborted" ELSE outcome[d]
  BY DEF Crash, BaseInv, TypeOK
<1>4. crashes' \in 0 .. MaxCrashes /\ todo' \subseteq Descs \X Words
  BY BoundsAssumption DEF Crash, BaseInv, TypeOK
<1>5. TypeOK'
  BY <1>1, <1>2, <1>3, <1>4 DEF BaseInv, TypeOK
<1>6. StackInv'
  BY <1>1, <1>2 DEF StackInv
<1>7. DescInv'
  BY <1>1, <1>3 DEF BaseInv, DescInv, Undecided, Decided
<1>8. WordInv'
  <2>1. SUFFICES ASSUME NEW a \in Words, mem[a].kind # "value"
                 PROVE  /\ Targets(mem[a].of, a)' /\ <<mem[a].of, a>> \in todo'
                        /\ \A d \in Descs : status[d] # "invalid"
    BY <1>1 DEF WordInv
  <2>2. Targets(mem[a].of, a) /\ \A d \in Descs : status[d] # "invalid"
    BY <2>1 DEF BaseInv, WordInv
  <2>3. todo' = {x \in Descs \X Words : InUse(x[1]) /\ x[2] \in DOMAIN entries[x[1]]}
    BY <2>2 DEF Crash, FirstIsInvalid
  <2>4. QED
    BY <1>1, <2>2, <2>3 DEF Targets, InUse
<1>9. QED
  BY <1>5, <1>6, <1>7, <1>8 DEF BaseInv

\* Recovery of one word of one descriptor keeps the invariant.
LEMMA RecoverStep ==
  ASSUME BaseInv, NEW d \in Descs, NEW a \in Words, Recover(d, a)
  PROVE  BaseInv'
<1>1. /\ UNCHANGED <<status, dirty, entries, stack, reads, outcome, result, crashes>>
      /\ mode = "recovering" /\ mode' \in {"recovering", "invalid_field"} /\ todo' \subseteq Descs \X Words
  BY DEF Recover, historyVars, BaseInv, TypeOK
<1>2. RolledWord(d, a) \in Word
  <2>1. mem[a] \in Word
    BY DEF BaseInv, TypeOK
  <2>2. CASE mem[a].kind \in {"mwcas", "cond"} /\ mem[a].of = d
    <3>1. a \in DOMAIN entries[d]
      BY <2>2 DEF BaseInv, WordInv, Targets
    <3>2. entries[d][a].old \in Values /\ entries[d][a].new \in Values
      BY <3>1, EntriesAre DEF BaseInv
    <3>3. QED
      BY <2>2, <3>2, WordsMade DEF RolledWord
  <2>3. QED
    BY <2>1, <2>2 DEF RolledWord
<1>3. mem' \in [Words -> Word]
  BY <1>2 DEF Recover, BaseInv, TypeOK
<1>4. TypeOK'
  BY <1>1, <1>3 DEF BaseInv, TypeOK
<1>5. StackInv'
  BY <1>1 DEF BaseInv, StackInv
<1>6. DescInv'
  BY <1>1 DEF BaseInv, DescInv, Undecided
<1>7. WordInv'
  <2>1. CASE InvalidField(d, a)
    BY <1>1, <2>1 DEF BaseInv, WordInv, Targets, Recover
  <2>2. CASE ~InvalidField(d, a)
    <3>1. mem' = [mem EXCEPT ![a] = RolledWord(d, a)] /\ todo' = todo \ {<<d, a>>}
      BY <2>2 DEF Recover
    <3>2. ASSUME NEW b \in Words, b # a, mem'[b].kind # "value"
          PROVE  /\ Targets(mem[b].of, b)' /\ <<mem'[b].of, b>> \in todo'
                 /\ \A e \in Descs : status'[e] # "invalid"
      <4>1. mem'[b] = mem[b]
        BY <3>1, <3>2 DEF BaseInv, TypeOK
      <4>2. /\ Targets(mem[b].of, b) /\ <<mem[b].of, b>> \in todo
            /\ \A e \in Descs : status[e] # "invalid"
        BY <1>1, <3>2, <4>1 DEF BaseInv, WordInv
      <4>3. QED
        BY <1>1, <3>1, <3>2, <4>1, <4>2 DEF Targets
    <3>3. ASSUME mem'[a].kind # "value"
          PROVE  /\ Targets(mem[a].of, a)' /\ <<mem'[a].of, a>> \in todo'
                 /\ \A e \in Descs : status'[e] # "invalid"
      <4>1. mem'[a] = RolledWord(d, a) /\ mem[a] \in Word
        BY <3>1 DEF BaseInv, TypeOK
      <4>2. ~(mem[a].kind \in {"mwcas", "cond"} /\ mem[a].of = d)
        BY <3>3, <4>1 DEF RolledWord, Value
      <4>3. mem'[a] = mem[a]
        BY <4>1, <4>2 DEF RolledWord
      <4>4. /\ Targets(mem[a].of, a) /\ <<mem[a].of, a>> \in todo
            /\ \A e \in Descs : status[e] # "invalid"
        BY <1>1, <3>3, <4>3 DEF BaseInv, WordInv
      <4>5. mem[a].of # d
        BY <3>3, <4>1, <4>2, <4>3, <4>4, WordKinds DEF Targets
      <4>6. QED
        BY <1>1, <3>1, <4>3, <4>4, <4>5 DEF Targets
    <3>4. mode' = "recovering"
      BY <1>1, <2>2 DEF Recover
    <3>5. QED
      BY <3>2, <3>3, <3>4 DEF WordInv
  <2>3. QED
    BY <2>1, <2>2
<1>8. QED
  BY <1>4, <1>5, <1>6, <1>7 DEF BaseInv

\* The check of the pool, and the start of InitDescriptors, find no word that
\* points to a descriptor.
LEMMA InitDescriptorsStep ==
  ASSUME BaseInv, InitDescriptors
  PROVE  BaseInv'
<1>1. /\ UNCHANGED <<mem, status, dirty, entries, stack, reads, outcome, result, crashes, todo>>
      /\ mode = "recovering" /\ todo = {} /\ mode' = "clearing"
  BY DEF InitDescriptors, historyVars, memVars
<1>2. \A a \in Words : mem[a].kind = "value"
  BY <1>1 DEF BaseInv, WordInv
<1>3. TypeOK'
  BY <1>1 DEF BaseInv, TypeOK
<1>4. \A t \in Threads : stack[t] = <<>>
  BY <1>1 DEF BaseInv, StackInv
<1>5. StackInv'
  BY <1>1, <1>4 DEF StackInv
<1>6. DescInv'
  BY <1>1 DEF BaseInv, DescInv, Undecided, Decided, InUse
<1>7. WordInv'
  BY <1>1, <1>2 DEF WordInv
<1>8. QED
  BY <1>3, <1>5, <1>6, <1>7 DEF BaseInv

\* Recovery stops at a clear descriptor.
LEMMA FindInvalidStep ==
  ASSUME BaseInv, NEW d \in Descs, FindInvalid(d)
  PROVE  BaseInv'
<1>1. /\ UNCHANGED <<mem, status, dirty, entries, stack, reads, outcome, result, crashes, todo>>
      /\ mode = "recovering" /\ status[d] = "invalid" /\ mode' = "corrupted"
  BY DEF FindInvalid, historyVars, memVars
<1>2. \A a \in Words : mem[a].kind = "value"
  BY <1>1 DEF BaseInv, WordInv
<1>3. TypeOK'
  BY <1>1 DEF BaseInv, TypeOK
<1>4. \A t \in Threads : stack[t] = <<>>
  BY <1>1 DEF BaseInv, StackInv
<1>5. StackInv'
  BY <1>1, <1>4 DEF StackInv
<1>6. DescInv'
  BY <1>1 DEF BaseInv, DescInv, Undecided, Decided, InUse
<1>7. WordInv'
  BY <1>1, <1>2 DEF WordInv
<1>8. QED
  BY <1>3, <1>5, <1>6, <1>7 DEF BaseInv

\* The memset of a descriptor.
LEMMA ClearStep ==
  ASSUME BaseInv, NEW d \in Descs, Clear(d)
  PROVE  BaseInv'
<1>1. /\ UNCHANGED <<mem, entries, stack, reads, outcome, result, crashes, todo, mode>>
      /\ mode = "clearing"
      /\ status' = [status EXCEPT ![d] = "invalid"] /\ dirty' = [dirty EXCEPT ![d] = FALSE]
  BY DEF Clear, historyVars, crashVars
<1>2. \A a \in Words : mem[a].kind = "value"
  BY <1>1 DEF BaseInv, WordInv
<1>3. TypeOK'
  BY <1>1 DEF BaseInv, TypeOK
<1>4. \A t \in Threads : stack[t] = <<>>
  BY <1>1 DEF BaseInv, StackInv
<1>5. StackInv'
  BY <1>1, <1>4 DEF StackInv
<1>6. DescInv'
  BY <1>1 DEF BaseInv, TypeOK, DescInv, Undecided, Decided, InUse
<1>7. WordInv'
  BY <1>1, <1>2 DEF WordInv
<1>8. QED
  BY <1>3, <1>5, <1>6, <1>7 DEF BaseInv

\* The construction of a descriptor; after the last one the pool is in use.
LEMMA ConstructStep ==
  ASSUME BaseInv, NEW d \in Descs, Construct(d)
  PROVE  BaseInv'
<1>1. /\ UNCHANGED <<mem, dirty, entries, stack, reads, outcome, result, crashes, todo>>
      /\ mode \in {"clearing", "constructing"} /\ status[d] = "invalid"
      /\ status' = [status EXCEPT ![d] = "finished"]
      /\ mode' \in {"running", "constructing"}
      /\ mode' = "running" => \A e \in Descs \ {d} : status[e] # "invalid"
  BY DEF Construct, historyVars
<1>2. \A a \in Words : mem[a].kind = "value"
  BY <1>1 DEF BaseInv, WordInv
<1>3. TypeOK'
  BY <1>1 DEF BaseInv, TypeOK
<1>4. \A t \in Threads : stack[t] = <<>>
  BY <1>1 DEF BaseInv, StackInv
<1>5. StackInv'
  BY <1>1, <1>4 DEF StackInv
<1>6. DescInv'
  <2>1. status'[d] = "finished" /\ \A e \in Descs \ {d} : status'[e] = status[e]
    BY <1>1 DEF BaseInv, TypeOK
  <2>2. \A e \in Descs : mode' = "running" => status'[e] # "invalid"
    BY <1>1, <2>1
  <2>3. \A e \in Descs : status'[e] \in {"invalid", "finished"}
    <3>1. \A e \in Descs : status[e] \in {"invalid", "finished"}
      BY DEF Construct, BaseInv, DescInv, InUse
    <3>2. QED
      BY <2>1, <3>1
  <2>4. \A e \in Descs : ~dirty[e]
    BY <1>1, <2>1, <2>3 DEF BaseInv, DescInv, Decided
  <2>5. QED
    BY <1>1, <2>2, <2>3, <2>4 DEF BaseInv, DescInv, Undecided, Decided, InUse
<1>7. WordInv'
  BY <1>1, <1>2 DEF WordInv
<1>8. QED
  BY <1>3, <1>5, <1>6, <1>7 DEF BaseInv

-----------------------------------------------------------------------------
\* The invariant holds initially.
LEMMA BaseInit == Init => BaseInv
<1> SUFFICES ASSUME Init PROVE BaseInv
  OBVIOUS
<1>1. /\ mem \in [Words -> Word] /\ \A a \in Words : mem[a].kind = "value"
  BY InitialAssumption, WordsMade DEF Init, Value
<1>2. TypeOK
  <2>1. stack \in [Threads -> Seq(Frame)] /\ entries \in [Descs -> {<<>>} \cup UNION {Ops[d] : d \in Descs}]
    BY DEF Init
  <2>2. reads \in [Threads -> Nat] /\ crashes \in 0 .. MaxCrashes
    BY BoundsAssumption DEF Init
  <2>3. QED
    BY <1>1, <2>1, <2>2 DEF Init, TypeOK
<1>3. StackInv
  BY DEF Init, StackInv
<1>4. DescInv
  BY DEF Init, DescInv, Undecided, Decided
<1>5. WordInv
  BY <1>1 DEF WordInv
<1>6. QED
  BY <1>2, <1>3, <1>4, <1>5 DEF BaseInv

\* Every step keeps the invariant.
LEMMA BaseNext == BaseInv /\ [Next]_vars => BaseInv'
<1> SUFFICES ASSUME BaseInv, [Next]_vars PROVE BaseInv'
  OBVIOUS
<1>1. ASSUME NEW t \in Threads, Step(t) PROVE BaseInv'
  BY <1>1, EnterStep, ClearStatusStep, InstallStep, CondStatusStep, CondSwapStep, HelpStatusStep,
     HelpCheckStep, HelpChooseStep, HelpSwapStep, PersistStep, PersistClearStep, DecideStep,
     SettleStep, FinalStep, FinalRetryStep, FinalClearStep, ReadStep, ReadStatusStep, ReadSwapStep,
     ReadClearStep DEF Step
<1>2. CASE UNCHANGED vars
  <2>1. TypeOK'
    BY <1>2 DEF vars, BaseInv, TypeOK
  <2>2. DescInv' /\ WordInv'
    BY <1>2 DEF vars, BaseInv, DescInv, WordInv, Undecided, Targets, InUse
  <2>3. StackInv'
    <3>1. \A f \in Frame : FrameOK(f) <=> FrameOK(f)'
      BY <1>2 DEF vars, FrameOK, ReadFrameOK, CallFrameOK, MaySwap, Targets, Undecided
    <3>2. QED
      BY <1>2, <3>1 DEF vars, BaseInv, TypeOK, StackInv, BottomOK, Bottom
  <2>4. QED
    BY <2>1, <2>2, <2>3 DEF BaseInv
<1>3. QED
  BY <1>1, <1>2, StopStep, BeginStep, BeginReadStep, CrashStep, RecoverStep, InitDescriptorsStep, FindInvalidStep, ClearStep, ConstructStep DEF Next

\* Every variable keeps its type: in particular, mwcas.cc puts only values,
\* descriptors and word descriptors into words, and the calls that help one
\* another are calls on descriptors of the pool.
THEOREM TypeCorrect == Spec => []TypeOK
<1>1. BaseInv => TypeOK
  BY DEF BaseInv
<1>2. QED
  BY BaseInit, BaseNext, <1>1, PTL DEF Spec

\* InitDescriptors wipes no descriptor that a word refers to, however many
\* crashes there were and wherever they came, also in InitDescriptors itself.
THEOREM Recovered == Spec => []RecoveredWordsHoldValues
<1>1. BaseInv => RecoveredWordsHoldValues
  BY DEF BaseInv, WordInv, RecoveredWordsHoldValues
<1>2. QED
  BY BaseInit, BaseNext, <1>1, PTL DEF Spec

-----------------------------------------------------------------------------
(***************************************************************************)
(* Atomicity.  If the values of words do not recur, a word that an         *)
(* operation has changed never has its old value again, so that the        *)
(* descriptor of an operation that has succeeded is not put back by a      *)
(* thread that has read its status earlier (CondSwap and its kin).         *)
(***************************************************************************)
WordValue(w, a) ==
  IF w.kind = "value" THEN w.of
  ELSE IF w.kind = "mwcas" /\ outcome[w.of] = "succeeded" THEN entries[w.of][a].new
  ELSE entries[w.of][a].old

\* Words have moved on from the new values of the operations that succeeded.
MovedOn(Before) ==
  \A d \in Descs : outcome[d] = "succeeded" =>
    \A a \in DOMAIN entries[d] : <<entries[d][a].new, LogicalValue(a)>> \in Before[a]

\* The value of a word depends on the word and its address.
LEMMA LogicalIs == \A a : LogicalValue(a) = WordValue(mem[a], a)
  BY DEF LogicalValue, WordValue

\* It is a value.
LEMMA LogicalType ==
  ASSUME BaseInv, NEW a \in Words
  PROVE  LogicalValue(a) \in Values
<1>1. mem[a] \in Word
  BY DEF BaseInv, TypeOK
<1>2. CASE mem[a].kind = "value"
  BY <1>1, <1>2, WordKinds DEF LogicalValue
<1>3. CASE mem[a].kind # "value"
  <2>1. mem[a].of \in Descs /\ a \in DOMAIN entries[mem[a].of]
    BY <1>3 DEF BaseInv, WordInv, Targets
  <2>2. QED
    BY <1>3, <2>1, EntriesAre DEF LogicalValue, BaseInv
<1>4. QED
  BY <1>2, <1>3

\* A CAS that swaps words of the same value changes no value.
LEMMA ValuesKept ==
  ASSUME TypeOK, NEW a \in Words, NEW w \in Word, NEW want, CAS(a, w, want), UNCHANGED <<entries, outcome>>,
         mem[a] = want => WordValue(w, a) = WordValue(want, a)
  PROVE  \A b \in Words : LogicalValue(b)' = LogicalValue(b)
<1>1. \A b \in Words : \/ mem'[b] = mem[b]
                       \/ b = a /\ mem[b] = want /\ mem'[b] = w
  BY DEF CAS, TypeOK
<1>2. \A b, x : WordValue(x, b)' = WordValue(x, b)
  BY DEF WordValue
<1>3. SUFFICES ASSUME NEW b \in Words PROVE WordValue(mem[b], b)' = WordValue(mem[b], b)
  BY LogicalIs DEF LogicalValue, WordValue
<1>4. WordValue(mem[b], b)' = WordValue(mem'[b], b)
  BY <1>2 DEF WordValue
<1>5. QED
  BY <1>1, <1>4

\* A step that changes nothing an observer of the operations could see.
LEMMA Unseen ==
  ASSUME \A b \in Words : LogicalValue(b)' = LogicalValue(b), UNCHANGED <<entries, outcome, result>>
  PROVE  UNCHANGED Atomic!vars
  BY DEF Atomic!vars

\* Values do not change with the outcome of an operation, as long as it is not
\* success.
LEMMA SameWords ==
  ASSUME UNCHANGED <<mem, entries>>,
         \A d : outcome'[d] = "succeeded" <=> outcome[d] = "succeeded"
  PROVE  \A b \in Words : LogicalValue(b)' = LogicalValue(b)
  BY DEF LogicalValue

\* The outermost call returns what has become of its operation.
LEMMA LeaveSeen ==
  ASSUME BaseInv, mode' = "running", Stable, NEW t \in Threads, stack[t] # <<>>, Leave(t),
         Top(t).desc # "none" => status[Top(t).desc] \in Decided,
         \A b \in Words : LogicalValue(b)' = LogicalValue(b), UNCHANGED <<entries, outcome>>
  PROVE  [Atomic!Next]_Atomic!vars
<1>1. CASE result' = result
  BY <1>1, Unseen
<1>2. CASE LET d == Top(t).desc IN
           /\ d \in Descs /\ result[d] = "none"
           /\ result' = [result EXCEPT ![d] = IF status[d] = "succeeded" THEN "true" ELSE "false"]
  <2>1. PICK d \in Descs : d = Top(t).desc
    BY <1>2
  <2>2. /\ result[d] = "none" /\ status[d] \in Decided /\ outcome[d] = status[d]
        /\ result' = [result EXCEPT ![d] = IF status[d] = "succeeded" THEN "true" ELSE "false"]
    BY <1>2, <2>1, DescsAssumption DEF BaseInv, DescInv
  <2>3. Atomic!Return(d)
    BY <2>2 DEF Atomic!Return, Decided
  <2>4. QED
    BY <2>3 DEF Atomic!Next
<1>3. QED
  BY <1>1, <1>2, LeaveStep DEF BaseInv

\* A word descriptor of an operation that has succeeded is still swapped for
\* the descriptor only if old and new value are the same.
LEMMA SwapSeen ==
  ASSUME NEW Before, ValuesOrdered(Before), BaseInv, MovedOn(Before), NEW a \in Words, NEW w \in Word,
         NEW d \in Descs, MaySwap(d, a, w), CAS(a, w, CondCASPtr(d)), UNCHANGED <<entries, outcome>>
  PROVE  \A b \in Words : LogicalValue(b)' = LogicalValue(b)
<1> DEFINE e == entries[d][a]
<1>1. a \in DOMAIN entries[d] /\ entries[d] \in Ops[d]
  BY DEF MaySwap, Targets, BaseInv, DescInv
<1>2. e.old \in Values /\ e.new \in Values /\ <<e.old, e.new>> \in Before[a]
  BY <1>1, EntriesAre DEF ValuesOrdered, BaseInv
<1>3. WordValue(CondCASPtr(d), a) = e.old
  BY DEF WordValue, CondCASPtr
<1>4. ASSUME mem[a] = CondCASPtr(d), outcome[d] = "succeeded"
      PROVE  e.new = e.old
  <2>1. LogicalValue(a) = e.old
    BY <1>3, <1>4, LogicalIs
  <2>2. <<e.new, e.old>> \in Before[a]
    BY <1>1, <1>4, <2>1 DEF MovedOn
  <2>3. QED
    BY <1>2, <2>2 DEF ValuesOrdered
<1>5. ASSUME mem[a] = CondCASPtr(d) PROVE WordValue(w, a) = e.old
  <2>1. CASE w = MwCASPtr(d, TRUE)
    <3>1. w.kind = "mwcas" /\ w.of = d
      BY <2>1 DEF MwCASPtr
    <3>2. QED
      BY <3>1, <1>4, <1>5 DEF WordValue
  <2>2. CASE w = Value(e.old, FALSE)
    BY <2>2 DEF WordValue, Value
  <2>3. QED
    BY <2>1, <2>2 DEF MaySwap
<1>6. QED
  BY <1>3, <1>5, ValuesKept DEF BaseInv

\* A word has the same value, dirty or not.
LEMMA CleanSeen ==
  ASSUME BaseInv, NEW a \in Words, NEW w \in Word, NEW want \in Word, CAS(a, w, want),
         want.kind = w.kind, want.of = w.of, UNCHANGED <<entries, outcome>>
  PROVE  \A b \in Words : LogicalValue(b)' = LogicalValue(b)
<1>1. WordValue(w, a) = WordValue(want, a)
  BY DEF WordValue
<1>2. QED
  BY <1>1, ValuesKept DEF BaseInv

\* The final value is the one that the decision makes of the word.
LEMMA FinalSeen ==
  ASSUME BaseInv, NEW f \in Frame, NEW b \in BOOLEAN, f.desc \in Descs, f.a \in Words,
         FinalValue(f) \in Values, status[f.desc] \in Decided, f.decision = status[f.desc],
         CAS(f.a, Value(FinalValue(f), TRUE), MwCASPtr(f.desc, b)), UNCHANGED <<entries, outcome>>
  PROVE  \A a \in Words : LogicalValue(a)' = LogicalValue(a)
<1>1. outcome[f.desc] = f.decision
  BY DEF BaseInv, DescInv
<1>2. WordValue(Value(FinalValue(f), TRUE), f.a) = FinalValue(f)
  BY DEF WordValue, Value
<1>3. WordValue(MwCASPtr(f.desc, b), f.a) = FinalValue(f)
  BY <1>1 DEF WordValue, MwCASPtr, FinalValue
<1>4. QED
  BY <1>2, <1>3, WordsMade, ValuesKept DEF BaseInv

\* Installing a word descriptor is not seen; finding another value is a
\* mismatch.
LEMMA InstallSeen ==
  ASSUME BaseInv, NEW t \in Threads, Install(t)
  PROVE  [Atomic!Next]_Atomic!vars
<1>0. At(t, "install")
  BY DEF Install
<1>1. PICK f \in Frame : f = Top(t)
  BY <1>0, CallTop DEF CallPCs, InstallPCs
<1> DEFINE d == f.desc
           w == mem[f.a]
           old == entries[d][f.a].old
<1>2. d \in Descs /\ f.a \in Words /\ f.a \in DOMAIN entries[d]
  BY <1>0, <1>1, CallTop DEF CallPCs, InstallPCs
<1>3. UNCHANGED <<entries, result>>
  BY DEF Install
<1>4. CASE CAS(f.a, CondCASPtr(d), Value(old, FALSE)) /\ UNCHANGED outcome
  <2>1. WordValue(CondCASPtr(d), f.a) = old
    BY DEF WordValue, CondCASPtr
  <2>2. WordValue(Value(old, FALSE), f.a) = old
    BY DEF WordValue, Value
  <2>3. QED
    BY <1>2, <1>3, <1>4, <2>1, <2>2, WordsMade, ValuesKept, Unseen DEF BaseInv
<1>5. CASE UNCHANGED <<mem, outcome>>
  BY <1>3, <1>5, SameWords, Unseen
<1>6. CASE /\ w.kind = "value" /\ w.of # old /\ UNCHANGED mem
           /\ outcome' = IF outcome[d] = "pending" THEN [outcome EXCEPT ![d] = "doomed"] ELSE outcome
  <2>1. CASE outcome[d] = "pending"
    <3>1. \A b \in Words : LogicalValue(b)' = LogicalValue(b)
      <4>1. \A c : outcome'[c] = "succeeded" <=> outcome[c] = "succeeded"
        BY <1>2, <1>6, <2>1 DEF BaseInv, TypeOK
      <4>2. QED
        BY <1>3, <1>6, <4>1, SameWords
    <3>2. LogicalValue(f.a) # old
      BY <1>6 DEF LogicalValue
    <3>3. Atomic!Mismatch(d)
      BY <1>2, <1>3, <1>6, <2>1, <3>1, <3>2 DEF Atomic!Mismatch, Atomic!Become
    <3>4. QED
      BY <1>2, <3>3 DEF Atomic!Next
  <2>2. CASE outcome[d] # "pending"
    BY <1>3, <1>6, <2>2, SameWords, Unseen
  <2>3. QED
    BY <2>1, <2>2
<1>7. QED
  BY <1>1, <1>4, <1>5, <1>6 DEF Install

\* The CAS of the status is where an operation succeeds, on all its words at
\* once, or fails.
LEMMA DecideSeen ==
  ASSUME BaseInv, NEW t \in Threads, Decide(t)
  PROVE  [Atomic!Next]_Atomic!vars
<1>0. At(t, "decide")
  BY DEF Decide
<1>1. PICK f \in Frame : f = Top(t)
  BY <1>0, CallTop DEF CallPCs
<1> DEFINE d == f.desc
<1>2. f.pc = "decide" /\ CallFrameOK(f) /\ d \in Descs /\ mode = "running"
  BY <1>0, <1>1, CallTop DEF CallPCs
<1>3. UNCHANGED <<mem, entries, result>>
  BY DEF Decide
<1>4. CASE Undecided(d)
  <2>1. outcome' = [outcome EXCEPT ![d] = f.decision] /\ outcome[d] \in {"pending", "doomed"}
    BY <1>1, <1>2, <1>4 DEF Decide, Undecided, BaseInv, DescInv
  <2>2. /\ \A c \in Descs \ {d} : outcome'[c] = outcome[c]
        /\ outcome'[d] = f.decision /\ DOMAIN outcome = Descs /\ DOMAIN outcome' = Descs
    BY <1>2, <2>1 DEF BaseInv, TypeOK
  <2>3. CASE f.decision = "failed"
    <3>1. outcome[d] = "doomed"
      BY <1>2, <1>4, <2>3 DEF CallFrameOK
    <3>2. \A c : outcome'[c] = "succeeded" <=> outcome[c] = "succeeded"
      BY <2>1, <2>3, <3>1 DEF BaseInv, TypeOK
    <3>3. \A b \in Words : LogicalValue(b)' = LogicalValue(b)
      BY <1>3, <3>2, SameWords
    <3>4. Atomic!Fail(d)
      BY <1>3, <2>1, <2>3, <3>1, <3>3 DEF Atomic!Fail, Atomic!Become
    <3>5. QED
      BY <1>2, <3>4 DEF Atomic!Next
  <2>4. CASE f.decision = "succeeded"
    <3>1. \A b \in DOMAIN entries[d] : mem[b].kind = "mwcas" /\ mem[b].of = d
      BY <1>2, <1>4, <2>4 DEF CallFrameOK, Installed
    <3>2. \A b \in DOMAIN entries[d] : LogicalValue(b) = entries[d][b].old
      BY <2>1, <3>1 DEF LogicalValue
    <3>3. \A b \in DOMAIN entries[d] : LogicalValue(b)' = entries[d][b].new
      BY <1>3, <2>2, <2>4, <3>1 DEF LogicalValue
    <3>4. ASSUME NEW b \in Words, b \notin DOMAIN entries[d]
          PROVE  LogicalValue(b)' = LogicalValue(b)
      <4>1. mem[b].kind # "value" => mem[b].of \in Descs \ {d}
        BY <3>4 DEF BaseInv, WordInv, Targets
      <4>2. QED
        BY <1>3, <2>2, <4>1 DEF LogicalValue
    <3>5. DOMAIN entries[d] \subseteq Words
      BY <1>2, EntriesAre DEF BaseInv
    <3>6. Atomic!Succeed(d)
      BY <1>3, <2>1, <2>4, <3>2, <3>3, <3>4, <3>5 DEF Atomic!Succeed, Atomic!Become
    <3>7. QED
      BY <1>2, <3>6 DEF Atomic!Next
  <2>5. QED
    BY <1>2, <2>3, <2>4 DEF CallFrameOK, Decided
<1>5. CASE ~Undecided(d)
  <2>1. outcome' = outcome
    BY <1>1, <1>5 DEF Decide, Undecided
  <2>2. QED
    BY <1>3, <2>1, SameWords, Unseen
<1>6. QED
  BY <1>4, <1>5

\* A new operation is a new atomic operation.
LEMMA BeginSeen ==
  ASSUME BaseInv, NEW t \in Threads, NEW d \in Descs, Begin(t, d)
  PROVE  [Atomic!Next]_Atomic!vars
<1>1. UNCHANGED <<mem, result>> /\ outcome[d] = "idle" /\ status[d] = "finished"
  BY DEF Begin, BaseInv, DescInv
<1>2. \A c \in Descs \ {d} : entries'[c] = entries[c] /\ outcome'[c] = outcome[c]
  BY DEF Begin, BaseInv, TypeOK
<1>3. ASSUME NEW b \in Words PROVE LogicalValue(b)' = LogicalValue(b)
  <2>1. mem[b].kind # "value" => mem[b].of \in Descs \ {d}
    BY <1>1 DEF BaseInv, WordInv, Targets
  <2>2. QED
    BY <1>1, <1>2, <2>1 DEF LogicalValue
<1>4. Atomic!Begin(d)
  BY <1>1, <1>3 DEF Atomic!Begin, Atomic!Become, Begin
<1>5. QED
  BY <1>4 DEF Atomic!Next

\* A crash gives up the operations that are not decided, and changes no value.
LEMMA CrashSeen ==
  ASSUME BaseInv, Crash
  PROVE  [Atomic!Next]_Atomic!vars
<1>1. UNCHANGED <<mem, entries, result>>
  BY DEF Crash, memVars
<1>2. \A d \in Descs : outcome'[d] = "succeeded" <=> outcome[d] = "succeeded"
  BY DEF Crash
<1>3. ASSUME NEW b \in Words PROVE LogicalValue(b)' = LogicalValue(b)
  <2>1. mem[b].kind # "value" => mem[b].of \in Descs
    BY DEF BaseInv, WordInv, Targets
  <2>2. QED
    BY <1>1, <1>2, <2>1 DEF LogicalValue
<1>4. Atomic!Crash
  BY <1>1, <1>3 DEF Atomic!Crash, Crash
<1>5. QED
  BY <1>4 DEF Atomic!Next

\* Recovery rolls each word to the value that it has.
LEMMA RecoverSeen ==
  ASSUME BaseInv, NEW d \in Descs, NEW a \in Words, Recover(d, a)
  PROVE  UNCHANGED Atomic!vars
<1>1. UNCHANGED <<entries, outcome, result>>
  BY DEF Recover, historyVars
<1>2. CASE InvalidField(d, a)
  BY <1>1, <1>2, SameWords, Unseen DEF Recover
<1>3. CASE ~InvalidField(d, a)
  <2>1. mem' = [mem EXCEPT ![a] = RolledWord(d, a)] /\ mem[a] \in Word
    BY <1>3 DEF Recover, BaseInv, TypeOK
  <2>2. \A b \in Words : mem'[b] = IF b = a THEN RolledWord(d, a) ELSE mem[b]
    BY <2>1 DEF BaseInv, TypeOK
  <2>3. WordValue(RolledWord(d, a), a) = WordValue(mem[a], a)
    <3>1. CASE mem[a].kind \in {"mwcas", "cond"} /\ mem[a].of = d
      <4>1. RolledWord(d, a) = Value(IF status[d] = "succeeded" THEN entries[d][a].new ELSE entries[d][a].old, FALSE)
        BY <3>1 DEF RolledWord
      <4>2. WordValue(RolledWord(d, a), a) = IF status[d] = "succeeded" THEN entries[d][a].new ELSE entries[d][a].old
        BY <4>1 DEF WordValue, Value
      <4>3. status[d] = "succeeded" <=> outcome[d] = "succeeded"
        <5>1. status[d] \in {"undecided"} \cup Decided
          BY <3>1 DEF BaseInv, TypeOK, WordInv, Targets
        <5>2. QED
          BY <5>1 DEF BaseInv, DescInv, Undecided, Decided
      <4>4. mem[a].kind = "cond" => status[d] # "succeeded"
        BY <1>3, <2>1, <3>1, WordKinds DEF InvalidField
      <4>5. QED
        BY <3>1, <4>2, <4>3, <4>4 DEF WordValue
    <3>2. QED
      BY <3>1 DEF RolledWord
  <2>4. \A b \in Words : LogicalValue(b)' = LogicalValue(b)
    <3>1. SUFFICES ASSUME NEW b \in Words PROVE WordValue(mem[b], b)' = WordValue(mem[b], b)
      BY LogicalIs DEF LogicalValue, WordValue
    <3>2. WordValue(mem[b], b)' = WordValue(mem'[b], b)
      BY <1>1 DEF WordValue
    <3>3. QED
      BY <2>2, <2>3, <3>2
  <2>5. QED
    BY <1>1, <2>4, Unseen
<1>4. QED
  BY <1>2, <1>3

\* The steps that change no word.
LEMMA StillSeen ==
  ASSUME BaseInv, NEW t \in Threads,
         \/ Enter(t) \/ ClearStatus(t) \/ CondStatus(t) \/ HelpStatus(t) \/ HelpCheck(t) \/ HelpChoose(t)
         \/ Persist(t) \/ Settle(t) \/ Stop(t) \/ Read(t) \/ ReadStatus(t) \/ (\E a \in Words : BeginRead(t, a))
  PROVE  [Atomic!Next]_Atomic!vars
<1>1. UNCHANGED <<mem, entries, outcome>>
  BY DEF Enter, ClearStatus, CondStatus, HelpStatus, HelpCheck, HelpChoose, Persist, Settle, Stop, Read,
         ReadStatus, BeginRead, memVars, historyVars
<1>2. \A b \in Words : LogicalValue(b)' = LogicalValue(b)
  BY <1>1, SameWords
<1>3. CASE result' = result
  BY <1>1, <1>2, <1>3, Unseen
<1>4. CASE ClearStatus(t) \/ (Enter(t) /\ result' # result) \/ (Read(t) /\ result' # result)
  <2>1. Leave(t) /\ (Enter(t) => status[Top(t).desc] # "undecided")
    <3>1. CASE ClearStatus(t)
      <4>1. ~Enter(t)
        BY <3>1 DEF ClearStatus, Enter, At
      <4>2. QED
        BY <3>1, <4>1 DEF ClearStatus
    <3>2. CASE Enter(t) /\ result' # result
      BY <3>2 DEF Enter
    <3>3. CASE Read(t) /\ result' # result
      <4>1. ~Enter(t)
        BY <3>3 DEF Read, Enter, At
      <4>2. QED
        BY <3>3, <4>1 DEF Read
    <3>4. QED
      BY <1>4, <3>1, <3>2, <3>3
  <2>2. PICK l \in {"enter", "clear_status", "read"} : At(t, l) /\ (l = "enter" => Enter(t))
    BY <1>4 DEF ClearStatus, Enter, Read
  <2>3. /\ mode = "running" /\ stack[t] # <<>>
        /\ Top(t).desc # "none" => status[Top(t).desc] \in Decided
    <3>1. CASE l = "read"
      BY <2>2, <3>1, ReadTop DEF ReadPCs
    <3>2. CASE l = "clear_status"
      BY <2>2, <3>2, CallTop DEF CallPCs, CallFrameOK
    <3>3. CASE l = "enter"
      BY <2>1, <2>2, <3>3, CallTop DEF CallPCs, BaseInv, TypeOK
    <3>4. QED
      BY <3>1, <3>2, <3>3
  <2>4. UNCHANGED <<status, reads, crashVars>> /\ dirty' \in [Descs -> BOOLEAN]
        /\ \A d \in Descs : dirty'[d] => dirty[d]
    BY <1>4 DEF ClearStatus, Enter, Read, memVars, BaseInv, TypeOK
  <2>5. Quiet
    BY <1>1, <2>3, <2>4, QuietIfSteady
  <2>6. QED
    BY <1>1, <1>2, <2>1, <2>3, <2>5, LeaveSeen DEF Quiet
<1>5. QED
  BY <1>3, <1>4 DEF CondStatus, HelpStatus, HelpCheck, HelpChoose, Persist, Settle, Stop,
         ReadStatus, BeginRead, historyVars

\* The second CAS of a CondCAS is not seen.
LEMMA SwapsSeen ==
  ASSUME NEW Before, ValuesOrdered(Before), BaseInv, MovedOn(Before), NEW t \in Threads,
         CondSwap(t) \/ HelpSwap(t) \/ ReadSwap(t)
  PROVE  [Atomic!Next]_Atomic!vars
<1>1. UNCHANGED <<entries, outcome, result>>
  BY DEF CondSwap, HelpSwap, ReadSwap, historyVars
<1>2. PICK l \in {"cond_swap", "help_swap", "help_swap_dptr", "read_swap"} :
        At(t, l) /\ CAS(Top(t).a, Top(t).new, IF l = "cond_swap" THEN CondCASPtr(Top(t).desc) ELSE Top(t).seen)
  BY DEF CondSwap, HelpSwap, ReadSwap, At
<1>3. \E d \in Descs : /\ MaySwap(d, Top(t).a, Top(t).new) /\ CAS(Top(t).a, Top(t).new, CondCASPtr(d))
                       /\ Top(t).a \in Words
  <2>1. CASE l = "cond_swap"
    BY <1>2, <2>1, CallTop DEF CallPCs, InstallPCs, CallFrameOK
  <2>2. CASE l \in {"help_swap", "help_swap_dptr"}
    <3>1. /\ Top(t).pc = l /\ CallFrameOK(Top(t)) /\ Top(t).a \in Words
      BY <1>2, <2>2, CallTop DEF CallPCs, InstallPCs
    <3>2. MaySwap(Top(t).seen.of, Top(t).a, Top(t).new) /\ Top(t).seen = CondCASPtr(Top(t).seen.of)
      BY <2>2, <3>1 DEF CallFrameOK, HelpPCs
    <3>3. QED
      BY <1>2, <2>2, <3>1, <3>2 DEF MaySwap, Targets
  <2>3. CASE l = "read_swap"
    <3>1. /\ Top(t).pc = l /\ ReadFrameOK(Top(t)) /\ Top(t).a \in Words
      BY <1>2, <2>3, ReadTop DEF ReadPCs
    <3>2. MaySwap(Top(t).seen.of, Top(t).a, Top(t).new) /\ Top(t).seen = CondCASPtr(Top(t).seen.of)
      BY <2>3, <3>1 DEF ReadFrameOK
    <3>3. QED
      BY <1>2, <2>3, <3>1, <3>2 DEF MaySwap, Targets
  <2>4. QED
    BY <2>1, <2>2, <2>3
<1>4. PICK d \in Descs : /\ MaySwap(d, Top(t).a, Top(t).new) /\ CAS(Top(t).a, Top(t).new, CondCASPtr(d))
                         /\ Top(t).a \in Words
  BY <1>3
<1>5. Top(t).new \in Word
  BY <1>4, WordsMade, EntriesAre DEF MaySwap, Targets, BaseInv
<1>6. PICK a \in Words, w \in Word : a = Top(t).a /\ w = Top(t).new
  BY <1>4, <1>5
<1>7. QED
  BY <1>1, <1>4, <1>6, SwapSeen, Unseen

\* Nor is clearing the dirty bit of a pointer,
LEMMA PersistClearSeen ==
  ASSUME BaseInv, NEW t \in Threads, PersistClear(t)
  PROVE  [Atomic!Next]_Atomic!vars
<1>1. UNCHANGED <<entries, outcome, result>> /\ At(t, "persist_clear")
  BY DEF PersistClear, historyVars
<1>2. PICK f \in Frame : f = Top(t) /\ f.desc \in Descs /\ f.a \in Words
  BY <1>1, CallTop DEF CallPCs, PersistPCs
<1>3. /\ MwCASPtr(f.desc, TRUE) \in Word /\ MwCASPtr(f.desc, FALSE) \in Word
      /\ MwCASPtr(f.desc, TRUE).kind = MwCASPtr(f.desc, FALSE).kind
      /\ MwCASPtr(f.desc, TRUE).of = MwCASPtr(f.desc, FALSE).of
  BY <1>2, WordsMade DEF MwCASPtr
<1>4. CAS(f.a, MwCASPtr(f.desc, FALSE), MwCASPtr(f.desc, TRUE))
  BY <1>2 DEF PersistClear
<1>5. QED
  BY <1>1, <1>2, <1>3, <1>4, CleanSeen, Unseen

\* nor the CASes of phase 2;
LEMMA FinalsSeen ==
  ASSUME BaseInv, NEW t \in Threads, Final(t) \/ FinalRetry(t)
  PROVE  [Atomic!Next]_Atomic!vars
<1>1. UNCHANGED <<entries, outcome, result>>
  BY DEF Final, FinalRetry, historyVars
<1>2. PICK l \in {"final", "final_retry"}, b \in BOOLEAN :
        At(t, l) /\ CAS(Top(t).a, Value(FinalValue(Top(t)), TRUE), MwCASPtr(Top(t).desc, b))
  BY DEF Final, FinalRetry
<1>3. PICK f \in Frame : f = Top(t)
  BY <1>2, FinalTop DEF FinalPCs
<1>4. /\ f.desc \in Descs /\ f.a \in Words /\ FinalValue(f) \in Values
      /\ status[f.desc] \in Decided /\ f.decision = status[f.desc]
  BY <1>2, <1>3, FinalTop DEF FinalPCs
<1>5. QED
  BY <1>1, <1>2, <1>3, <1>4, FinalSeen, Unseen

\* clearing the dirty bit of the last final value lets the owner return,
LEMMA FinalClearSeen ==
  ASSUME BaseInv, BaseInv', NEW t \in Threads, FinalClear(t)
  PROVE  [Atomic!Next]_Atomic!vars
<1>0. At(t, "final_clear")
  BY DEF FinalClear
<1>1. PICK f \in Frame : f = Top(t)
  BY <1>0, FinalTop DEF FinalPCs
<1>2. /\ mode = "running" /\ stack[t] # <<>> /\ f.desc \in Descs /\ f.a \in Words
      /\ status[f.desc] \in Decided /\ FinalValue(f) \in Values
  BY <1>0, <1>1, FinalTop DEF FinalPCs
<1>3. UNCHANGED <<status, dirty, entries, outcome, reads, crashVars>>
  BY DEF FinalClear
<1>4. /\ Value(FinalValue(f), TRUE) \in Word /\ Value(FinalValue(f), FALSE) \in Word
      /\ Value(FinalValue(f), TRUE).kind = "value" /\ Value(FinalValue(f), FALSE).kind = "value"
      /\ Value(FinalValue(f), TRUE).of = FinalValue(f) /\ Value(FinalValue(f), FALSE).of = FinalValue(f)
  BY <1>2, WordsMade DEF Value
<1>5. CAS(f.a, Value(FinalValue(f), FALSE), Value(FinalValue(f), TRUE))
  BY <1>1 DEF FinalClear
<1>6. Quiet
  BY <1>2, <1>3, <1>4, <1>5, QuietClean
<1>7. \A b \in Words : LogicalValue(b)' = LogicalValue(b)
  BY <1>2, <1>3, <1>4, <1>5, CleanSeen
<1>8. CASE Leave(t)
  BY <1>1, <1>2, <1>3, <1>6, <1>7, <1>8, LeaveSeen DEF Quiet
<1>9. CASE UNCHANGED result
  BY <1>3, <1>7, <1>9, Unseen
<1>10. QED
  BY <1>8, <1>9 DEF FinalClear

\* and so does a reader's clearing a dirty bit.
LEMMA ReadClearSeen ==
  ASSUME BaseInv, NEW t \in Threads, ReadClear(t)
  PROVE  [Atomic!Next]_Atomic!vars
<1>0. At(t, "read_clear")
  BY DEF ReadClear
<1>1. PICK f \in Frame : f = Top(t)
  BY <1>0, ReadTop DEF ReadPCs
<1>2. /\ mode = "running" /\ stack[t] # <<>> /\ f.desc = "none" /\ f.a \in Words
      /\ f.pc = "read_clear" /\ ReadFrameOK(f)
  BY <1>0, <1>1, ReadTop DEF ReadPCs
<1>3. f.seen \in Word /\ f.seen.dirty /\ (f.seen.kind = "mwcas" => Targets(f.seen.of, f.a))
  BY <1>2 DEF ReadFrameOK
<1>4. f.seen.kind # "cond"
  BY <1>3, WordKinds
<1>5. Clean(f.seen) \in Word /\ Clean(f.seen).kind = f.seen.kind /\ Clean(f.seen).of = f.seen.of
  BY <1>3, <1>4, CleanWord
<1>6. UNCHANGED <<status, dirty, entries, outcome, reads, crashVars>>
  BY DEF ReadClear
<1>7. CAS(f.a, Clean(f.seen), f.seen)
  BY <1>1 DEF ReadClear
<1>8. Quiet
  BY <1>2, <1>3, <1>4, <1>5, <1>6, <1>7, QuietClean
<1>9. \A b \in Words : LogicalValue(b)' = LogicalValue(b)
  BY <1>2, <1>3, <1>5, <1>6, <1>7, CleanSeen
<1>10. CASE Leave(t)
  BY <1>1, <1>2, <1>6, <1>8, <1>9, <1>10, LeaveSeen DEF Quiet
<1>11. CASE UNCHANGED result
  BY <1>6, <1>9, <1>11, Unseen
<1>12. QED
  BY <1>10, <1>11 DEF ReadClear

\* Every step is a step of the atomic operations, or one that they do not see.
LEMMA NextSeen ==
  ASSUME NEW Before, ValuesOrdered(Before), BaseInv, BaseInv', MovedOn(Before), [Next]_vars
  PROVE  [Atomic!Next]_Atomic!vars
<1>1. ASSUME NEW t \in Threads, Step(t) \/ Stop(t) \/ \E a \in Words : BeginRead(t, a)
      PROVE  [Atomic!Next]_Atomic!vars
  BY <1>1, StillSeen, SwapsSeen, InstallSeen, DecideSeen, PersistClearSeen, FinalsSeen, FinalClearSeen,
     ReadClearSeen DEF Step
<1>2. CASE InitDescriptors \/ (\E d \in Descs : FindInvalid(d) \/ Clear(d) \/ Construct(d)) \/ UNCHANGED vars
  <2>1. UNCHANGED <<mem, entries, outcome, result>>
    BY <1>2 DEF InitDescriptors, FindInvalid, Clear, Construct, historyVars, memVars, vars
  <2>2. QED
    BY <2>1, SameWords, Unseen
<1>3. QED
  BY <1>1, <1>2, BeginSeen, CrashSeen, RecoverSeen DEF Next

\* The atomic operations move words along the order.
LEMMA MovedOnNext ==
  ASSUME NEW Before, ValuesOrdered(Before), BaseInv, MovedOn(Before), BaseInv', [Atomic!Next]_Atomic!vars
  PROVE  MovedOn(Before)'
<1> DEFINE V == [a \in Words |-> LogicalValue(a)]
<1>0. \A a \in Words : LogicalValue(a) \in Values
  BY LogicalType
<1>1. \A d \in Descs : DOMAIN entries[d] \subseteq Words
  BY EntriesAre DEF BaseInv
<1>2. SUFFICES ASSUME NEW c \in Descs, outcome'[c] = "succeeded", NEW a \in DOMAIN entries'[c]
               PROVE  <<entries'[c][a].new, LogicalValue(a)'>> \in Before[a]
  BY DEF MovedOn
<1>3. CASE V' = V /\ (outcome[c] = "succeeded" => entries'[c] = entries[c]) /\ outcome'[c] = outcome[c]
  <2>1. a \in DOMAIN entries[c] /\ a \in Words
    BY <1>1, <1>2, <1>3
  <2>2. LogicalValue(a)' = LogicalValue(a)
    <3>1. V'[a] = LogicalValue(a)' /\ V[a] = LogicalValue(a)
      BY <2>1
    <3>2. QED
      BY <1>3, <3>1
  <2>3. QED
    BY <1>2, <1>3, <2>1, <2>2 DEF MovedOn
<1>4. ASSUME NEW d \in Descs, Atomic!Succeed(d)
      PROVE  <<entries'[c][a].new, LogicalValue(a)'>> \in Before[a]
  <2>1. /\ entries' = entries
        /\ \A b \in DOMAIN entries[d] : LogicalValue(b) = entries[d][b].old
        /\ \A b \in Words : LogicalValue(b)' = IF b \in DOMAIN entries[d] THEN entries[d][b].new ELSE LogicalValue(b)
        /\ outcome[d] \in {"pending", "doomed"}
        /\ outcome' = [outcome EXCEPT ![d] = "succeeded"]
    <3>1. /\ entries' = entries /\ outcome[d] \in {"pending", "doomed"}
          /\ outcome' = [outcome EXCEPT ![d] = "succeeded"]
          /\ \A b \in DOMAIN entries[d] : V[b] = entries[d][b].old
          /\ V' = [b \in Words |-> IF b \in DOMAIN entries[d] THEN entries[d][b].new ELSE V[b]]
      BY <1>4 DEF Atomic!Succeed, Atomic!Become
    <3>2. \A b \in Words : V[b] = LogicalValue(b) /\ V'[b] = LogicalValue(b)'
      OBVIOUS
    <3> HIDE DEF V
    <3>3. QED
      BY <1>1, <3>1, <3>2
  <2>2. a \in Words /\ a \in DOMAIN entries[c] /\ entries[c][a].new \in Values
    BY <1>1, <1>2, <2>1, EntriesAre DEF BaseInv
  <2>3. outcome'[d] = "succeeded" /\ \A b \in Descs \ {d} : outcome'[b] = outcome[b]
    BY <2>1 DEF BaseInv, TypeOK
  <2>4. entries[d] \in Ops[d]
    BY <2>1, <2>3 DEF BaseInv, DescInv, Decided
  <2>5. CASE c = d
    BY <2>1, <2>2, <2>5 DEF ValuesOrdered
  <2>6. CASE c # d
    <3>1. <<entries[c][a].new, LogicalValue(a)>> \in Before[a]
      BY <1>2, <2>2, <2>3, <2>6 DEF MovedOn
    <3>2. CASE a \in DOMAIN entries[d]
      <4>1. <<entries[d][a].old, entries[d][a].new>> \in Before[a]
        BY <2>4, <3>2 DEF ValuesOrdered
      <4>2. entries[d][a].old \in Values /\ entries[d][a].new \in Values
        BY <3>2, EntriesAre DEF BaseInv
      <4>3. QED
        BY <2>1, <2>2, <3>1, <3>2, <4>1, <4>2 DEF ValuesOrdered
    <3>3. QED
      BY <2>1, <2>2, <3>1, <3>2
  <2>7. QED
    BY <2>5, <2>6
<1>5. CASE \E d \in Descs : Atomic!Begin(d)
  <2>1. PICK d \in Descs : Atomic!Begin(d)
    BY <1>5
  <2>2. /\ V' = V /\ outcome[d] = "idle" /\ outcome' = [outcome EXCEPT ![d] = "pending"]
        /\ \E e \in Ops[d] : entries' = [entries EXCEPT ![d] = e]
    BY <2>1 DEF Atomic!Begin, Atomic!Become
  <2> HIDE DEF V
  <2>3. c # d /\ entries'[c] = entries[c] /\ outcome'[c] = outcome[c]
    BY <1>2, <2>2 DEF BaseInv, TypeOK
  <2>4. QED
    BY <1>3, <2>2, <2>3
<1>6. CASE \E d \in Descs : Atomic!Mismatch(d) \/ Atomic!Fail(d)
  <2>1. PICK d \in Descs : Atomic!Mismatch(d) \/ Atomic!Fail(d)
    BY <1>6
  <2>2. /\ V' = V /\ entries' = entries
        /\ \E o \in {"doomed", "failed"} : outcome' = [outcome EXCEPT ![d] = o]
    BY <2>1 DEF Atomic!Mismatch, Atomic!Fail, Atomic!Become
  <2> HIDE DEF V
  <2>3. c # d /\ outcome'[c] = outcome[c]
    BY <1>2, <2>2 DEF BaseInv, TypeOK
  <2>4. QED
    BY <1>3, <2>2, <2>3
<1>7. CASE Atomic!Crash
  <2>1. V' = V /\ entries' = entries
    BY <1>7 DEF Atomic!Crash
  <2>2. outcome'[c] = outcome[c]
    BY <1>2, <1>7 DEF Atomic!Crash
  <2>3. QED
    BY <1>3, <2>1, <2>2
<1>8. CASE (\E d \in Descs : Atomic!Return(d)) \/ UNCHANGED Atomic!vars
  <2>1. V' = V /\ entries' = entries /\ outcome' = outcome
    BY <1>8 DEF Atomic!Return, Atomic!vars
  <2>2. QED
    BY <1>3, <2>1
<1>9. QED
  BY <1>4, <1>5, <1>6, <1>7, <1>8 DEF Atomic!Next

\* No operation has succeeded initially.
LEMMA MovedOnInit == \A Before : Init => MovedOn(Before)
  BY DEF Init, MovedOn

\* PersistentMwCAS is atomic, whatever the numbers of threads, descriptors,
\* words, crashes and operations, if the values of words do not recur.
THEOREM Atomicity ==
  ASSUME NEW Before, ValuesOrdered(Before)
  PROVE  Spec => ImplementsAtomicMwCAS
<1> DEFINE Inv == BaseInv /\ MovedOn(Before)
<1>1. Init => Inv
  BY BaseInit, MovedOnInit
<1>2. Inv /\ [Next]_vars => Inv' /\ [Atomic!Next]_Atomic!vars
  BY BaseNext, NextSeen, MovedOnNext
<1>3. Init => Atomic!Init
  BY DEF Init, Atomic!Init, LogicalValue, Value
<1>4. QED
  BY <1>1, <1>2, <1>3, PTL DEF Spec, ImplementsAtomicMwCAS, Atomic!Spec

\* Recovery meets a word descriptor of an operation that has succeeded only in
\* a word that the operation leaves as it is.
THEOREM RecoveryChecks ==
  ASSUME NEW Before, ValuesOrdered(Before)
  PROVE  Spec => []RecoveryChecksHold
<1> DEFINE Inv == BaseInv /\ MovedOn(Before)
<1>1. Init => Inv
  BY BaseInit, MovedOnInit
<1>2. Inv /\ [Next]_vars => Inv'
  BY BaseNext, NextSeen, MovedOnNext
<1>3. Inv => RecoveryChecksHold
  <2> SUFFICES ASSUME Inv, NEW d \in Descs, NEW a \in DOMAIN entries[d], InvalidField(d, a)
               PROVE  entries[d][a].old = entries[d][a].new
    BY DEF RecoveryChecksHold
  <2>1. mem[a].kind = "cond" /\ mem[a].of = d /\ status[d] = "succeeded"
    BY DEF InvalidField, CondCASPtr
  <2>2. entries[d] \in Ops[d] /\ outcome[d] = "succeeded"
    BY <2>1 DEF BaseInv, DescInv, Decided
  <2>3. a \in Words
    BY <2>2, OpsAssumption
  <2>4. LogicalValue(a) = entries[d][a].old
    BY <2>1 DEF LogicalValue
  <2>5. <<entries[d][a].new, entries[d][a].old>> \in Before[a]
    BY <2>2, <2>3, <2>4 DEF MovedOn
  <2>6. <<entries[d][a].old, entries[d][a].new>> \in Before[a]
    BY <2>2 DEF ValuesOrdered
  <2>7. entries[d][a].old \in Values /\ entries[d][a].new \in Values
    BY <2>2, EntriesAre DEF BaseInv
  <2>8. QED
    BY <2>3, <2>5, <2>6, <2>7 DEF ValuesOrdered
<1>4. QED
  BY <1>1, <1>2, <1>3, PTL DEF Spec

=============================================================================
