------------------------ MODULE VolatileMwCASProofs -------------------------
(***************************************************************************)
(* Proofs about VolatileMwCAS, for any threads, descriptors, words,        *)
(* operations and injected failures.                                       *)
(*                                                                         *)
(* BaseInv is inductive and needs no assumption on the operations: it says *)
(* what each call knows from where it is, that words point to operations   *)
(* that have them, and that an undecided operation holds its words from    *)
(* the first on.  HelpInv is about the calls that a thread is in, each to  *)
(* help the one below it: if callers add their words in one order, the     *)
(* words that undecided operations wait for rise from call to call.        *)
(*                                                                         *)
(* Atomicity needs that the values of words do not recur, as in            *)
(* PersistentMwCASProofs.                                                  *)
(***************************************************************************)
EXTENDS VolatileMwCAS, NumberLemmas

(***************************************************************************)
(* The inductive invariant.                                                *)
(***************************************************************************)
Word == {Value(v) : v \in Values} \cup {MwCASPtr(d) : d \in Descs} \cup {CondCASPtr(d) : d \in Descs}
EntryType == [addr : Words \cup {Null}, old : Values, new : Values]

InstallPCs == {"install", "cond_status", "cond_swap", "help_status", "help_check", "help_choose",
               "help_swap"}
HelpPCs == {"help_status", "help_check", "help_choose", "help_swap"}
CallPCs == InstallPCs \cup {"enter", "decide", "final"}
ReadPCs == {"read", "read_status", "read_swap"}
Labels == CallPCs \cup ReadPCs

Frame == [pc : Labels, desc : Descs \cup Words, i : Nat, seen : Word \cup {NoWord},
          desired : BOOLEAN, new : Word \cup {NoWord}, decision : {"succeeded", "failed"}]

TypeOK ==
  /\ mem \in [Words -> Word]
  /\ status \in [Descs -> {"finished", "undecided", "succeeded", "failed"}]
  /\ words \in [Descs -> Seq(EntryType)]
  /\ stop \in [Descs -> {"no", "undecided", "decided"}]
  /\ stack \in [Threads -> Seq(Frame)]
  /\ reads \in [Threads -> Nat]
  /\ outcome \in [Descs -> {"idle", "pending", "doomed", "succeeded", "failed"}]
  /\ result \in [Descs -> {"none", "true", "false"}]

Undecided(d) == status[d] = "undecided"

\* Entry k of d is a target, and its address.
IsTarget(d, k) == k \in 1 .. Len(words[d]) /\ words[d][k].addr # Null
Addr(d, k) == words[d][k].addr

\* Descriptor d is in use, with an operation that has word a.
Has(d, a) ==
  /\ d \in Descs /\ status[d] # "finished" /\ a \in Words
  /\ \E k \in 1 .. Len(words[d]) : words[d][k].addr = a

\* All targets of d before entry k are installed.
Prefix(d, k) == \A j \in 1 .. k - 1 : IsTarget(d, j) => mem[Addr(d, j)] = MwCASPtr(d)

\* What may be swapped in for the word descriptor of d at a.
MaySwap(d, a, w) ==
  /\ Has(d, a)
  /\ \/ w = MwCASPtr(d)
     \/ ~Undecided(d) /\ w = Value(EntryFor(words[d], a).old)

\* What a call knows, from where it is.
ReadFrameOK(f) ==
  /\ f.desc \in Words
  /\ f.pc \in {"read_status", "read_swap"} => f.seen = CondCASPtr(f.seen.of) /\ Has(f.seen.of, f.desc)
  /\ f.pc = "read_swap" => MaySwap(f.seen.of, f.desc, f.new)

CallFrameOK(f) ==
  /\ f.desc \in Descs /\ status[f.desc] # "finished"
  /\ f.pc = "enter" => f.i = 0
  /\ f.pc \in InstallPCs \cup {"final"} => IsTarget(f.desc, f.i)
  /\ f.pc \in InstallPCs \cup {"enter"} => f.decision = "succeeded"
  /\ f.pc \in InstallPCs /\ Undecided(f.desc) => Prefix(f.desc, f.i)
  /\ f.pc \in {"cond_status", "cond_swap"} /\ Undecided(f.desc) =>
       mem[Addr(f.desc, f.i)] \in {CondCASPtr(f.desc), MwCASPtr(f.desc)}
  /\ f.pc = "cond_swap" => MaySwap(f.desc, Addr(f.desc, f.i), f.new)
  /\ f.pc \in HelpPCs => f.seen = CondCASPtr(f.seen.of) /\ Has(f.seen.of, Addr(f.desc, f.i))
  /\ f.pc = "help_swap" => MaySwap(f.seen.of, Addr(f.desc, f.i), f.new)
  /\ f.pc = "decide" /\ f.decision = "succeeded" /\ Undecided(f.desc) =>
       Prefix(f.desc, Len(words[f.desc]) + 1)
  /\ f.pc = "decide" /\ f.decision = "failed" /\ Undecided(f.desc) => outcome[f.desc] = "doomed"
  /\ f.pc = "final" => ~Undecided(f.desc) /\ f.decision = status[f.desc]

FrameOK(f) ==
  \/ f.pc \in ReadPCs /\ ReadFrameOK(f)
  \/ f.pc \in CallPCs /\ CallFrameOK(f)

\* The outermost call of a thread is a read, or an operation of its own that
\* has not returned.
Bottom(t) == stack[t][Len(stack[t])]
BottomOK(t) ==
  Bottom(t).pc \in CallPCs => Owner[Bottom(t).desc] = t /\ result[Bottom(t).desc] = "none"

StackInv ==
  /\ \A t \in Threads : \A k \in 1 .. Len(stack[t]) : FrameOK(stack[t][k])
  /\ \A t \in Threads : stack[t] # <<>> => BottomOK(t)

\* The states of an operation.
DescInv ==
  \A d \in Descs :
    /\ status[d] = "finished" <=> outcome[d] = "idle"
    /\ status[d] = "finished" => words[d] = <<>> /\ result[d] = "none"
    /\ status[d] # "finished" => words[d] \in Ops[d]
    /\ status[d] \in {"succeeded", "failed"} => outcome[d] = status[d]
    /\ Undecided(d) => outcome[d] \in {"pending", "doomed"}

\* A word points to an operation that has it; one that is undecided has its
\* words from the first on.
Refers(w, d) == w = CondCASPtr(d) \/ w = MwCASPtr(d)
WordInv ==
  /\ \A a \in Words : mem[a].kind # "value" => Has(mem[a].of, a)
  /\ \A d \in Descs : Undecided(d) =>
       \A k \in 1 .. Len(words[d]) : IsTarget(d, k) /\ Refers(mem[Addr(d, k)], d) => Prefix(d, k)

BaseInv == TypeOK /\ StackInv /\ DescInv /\ WordInv

(***************************************************************************)
(* Helping.                                                                *)
(***************************************************************************)
\* The word that a call of VolatileMwCAS is at.
WaitWord(f) == Addr(f.desc, f.i)

\* The calls of a thread, the innermost first: each waits because the operation
\* that the next one is to help had its word.
Waits(s) ==
  \A k \in 2 .. Len(s) :
    /\ s[k].pc \in {"install", "read"} /\ s[k - 1].pc \in CallPCs
    /\ s[k].pc = "install" =>
         /\ s[k].desc # s[k - 1].desc
         /\ Undecided(s[k - 1].desc) => mem[WaitWord(s[k])] = MwCASPtr(s[k - 1].desc)

\* The words that undecided operations wait for rise from call to call.
Rises(Below, s) ==
  \A i, j \in 2 .. Len(s) :
    /\ i < j /\ s[j].pc = "install"
    /\ \A k \in i .. j - 1 : Undecided(s[k].desc)
    => <<WaitWord(s[j]), WaitWord(s[i])>> \in Below

\* An operation is helped again only by way of one that was decided since.
NoCircle(s) ==
  \A i, j \in 1 .. Len(s) :
    /\ i < j /\ s[i].pc \in InstallPCs /\ s[j].pc = "install"
    /\ s[i].desc = s[j].desc
    => \E k \in i + 1 .. j - 1 : ~Undecided(s[k].desc)

HelpOrder(Below, s) == Waits(s) /\ Rises(Below, s) /\ NoCircle(s)
HelpInv(Below) == \A t \in Threads : HelpOrder(Below, stack[t])

-----------------------------------------------------------------------------
(***************************************************************************)
(* Stacks.                                                                 *)
(***************************************************************************)
\* A call that goes on is still one of VolatileMwCAS on the same descriptor, or
\* one of GetValue.
Follows(g, f) == g.desc = f.desc /\ (g.pc \in CallPCs <=> f.pc \in CallPCs)

\* No call is disturbed by the step.
Stable == \A f \in Frame : FrameOK(f) => FrameOK(f)'

\* A stack whose first call is replaced by g.
LEMMA ReplaceTop ==
  ASSUME NEW s \in Seq(Frame), s # <<>>, NEW g \in Frame
  PROVE  /\ <<g>> \o Tail(s) \in Seq(Frame)
         /\ Len(<<g>> \o Tail(s)) = Len(s)
         /\ (<<g>> \o Tail(s))[1] = g
         /\ \A k \in 2 .. Len(s) : (<<g>> \o Tail(s))[k] = s[k]
  OBVIOUS

\* A stack whose first call is replaced by h, with a new call g on top.
LEMMA PushTop ==
  ASSUME NEW s \in Seq(Frame), s # <<>>, NEW g \in Frame, NEW h \in Frame
  PROVE  /\ <<g, h>> \o Tail(s) \in Seq(Frame)
         /\ Len(<<g, h>> \o Tail(s)) = Len(s) + 1
         /\ (<<g, h>> \o Tail(s))[1] = g
         /\ (<<g, h>> \o Tail(s))[2] = h
         /\ \A k \in 3 .. Len(s) + 1 : (<<g, h>> \o Tail(s))[k] = s[k - 1]
  OBVIOUS

\* A stack without its first call.
LEMMA PopTop ==
  ASSUME NEW s \in Seq(Frame), s # <<>>
  PROVE  /\ Tail(s) \in Seq(Frame)
         /\ Len(Tail(s)) = Len(s) - 1
         /\ \A k \in 1 .. Len(s) - 1 : Tail(s)[k] = s[k + 1]
         /\ Head(s) = s[1] /\ Head(s) \in Frame /\ Len(s) \in Nat \ {0}
  OBVIOUS


\* A step of thread t that replaces its stack by n, whose calls were there
\* before or are as they should be.
LEMMA StackStep ==
  ASSUME TypeOK, StackInv, Stable,
         NEW t \in Threads, NEW n \in Seq(Frame), stack' = [stack EXCEPT ![t] = n],
         \A k \in 1 .. Len(n) : \/ FrameOK(n[k])'
                                \/ \E j \in 1 .. Len(stack[t]) : n[k] = stack[t][j],
         n # <<>> => BottomOK(t)',
         \A u \in Threads \ {t} : \A d \in Descs : Owner[d] = u => result'[d] = result[d]
  PROVE  StackInv' /\ stack' \in [Threads -> Seq(Frame)]
<1>1. stack'[t] = n /\ \A u \in Threads \ {t} : stack'[u] = stack[u]
  BY DEF TypeOK
<1>2. stack' \in [Threads -> Seq(Frame)]
  BY DEF TypeOK
<1>3. ASSUME NEW u \in Threads, NEW k \in 1 .. Len(stack[u])
      PROVE  FrameOK(stack[u][k])'  \/ stack'[u] # stack[u]
  <2> SUFFICES ASSUME stack'[u] = stack[u] PROVE FrameOK(stack[u][k])'
    OBVIOUS
  <2>1. PICK f \in Frame : f = stack[u][k]
    BY DEF TypeOK
  <2>2. FrameOK(f)
    BY <2>1 DEF StackInv
  <2>3. FrameOK(f)'
    BY <2>2 DEF Stable
  <2>4. QED
    BY <2>1, <2>3
<1>4. ASSUME NEW k \in 1 .. Len(n)
      PROVE  FrameOK(n[k])'
  <2>1. CASE \E j \in 1 .. Len(stack[t]) : n[k] = stack[t][j]
    <3>1. PICK j \in 1 .. Len(stack[t]) : n[k] = stack[t][j]
      BY <2>1
    <3>2. PICK f \in Frame : f = stack[t][j]
      BY DEF TypeOK
    <3>3. FrameOK(f)
      BY <3>2 DEF StackInv
    <3>4. FrameOK(f)'
      BY <3>3 DEF Stable
    <3>5. QED
      BY <3>1, <3>2, <3>4
  <2>2. QED
    BY <2>1
<1>5. \A u \in Threads : \A k \in 1 .. Len(stack[u])' : FrameOK(stack[u][k])'
  BY <1>1, <1>3, <1>4
<1>6. ASSUME NEW u \in Threads, u # t, stack[u] # <<>>
      PROVE  BottomOK(u)'
  <2>1. BottomOK(u) /\ Bottom(u)' = Bottom(u) /\ FrameOK(Bottom(u))
    BY <1>1, <1>6 DEF StackInv, Bottom, TypeOK
  <2>2. Bottom(u).pc \in CallPCs => Bottom(u).desc \in Descs
    BY <2>1 DEF FrameOK, CallFrameOK, ReadPCs, CallPCs, InstallPCs
  <2>3. QED
    BY <2>1, <2>2, <1>6 DEF BottomOK
<1>7. QED
  BY <1>1, <1>2, <1>5, <1>6 DEF StackInv

\* The innermost call goes on as g.
LEMMA ContinueStep ==
  ASSUME TypeOK, StackInv, Stable, result' = result,
         NEW t \in Threads, stack[t] # <<>>,
         NEW g \in Frame, FrameOK(g)', Follows(g, Top(t)), Continue(t, g)
  PROVE  StackInv' /\ stack' \in [Threads -> Seq(Frame)]
<1>1. PICK s \in Seq(Frame) : s = stack[t] /\ s # <<>>
  BY DEF TypeOK
<1>2. PICK n \in Seq(Frame) : n = <<g>> \o Tail(s)
  BY <1>1, ReplaceTop
<1>3. Len(n) = Len(s) /\ n[1] = g /\ \A k \in 2 .. Len(s) : n[k] = s[k]
  BY <1>1, <1>2, ReplaceTop
<1>4. Top(t) = s[1] /\ Len(s) \in Nat \ {0}
  BY <1>1, PopTop DEF Top
<1>5. stack' = [stack EXCEPT ![t] = n]
  BY <1>1, <1>2 DEF Continue, TypeOK
<1>6. stack'[t] = n
  BY <1>5 DEF TypeOK
<1>7. BottomOK(t)'
  <2>1. Follows(Bottom(t)', Bottom(t))
    BY <1>1, <1>3, <1>4, <1>6 DEF Bottom, Follows
  <2>2. QED
    BY <2>1 DEF StackInv, BottomOK, Follows
<1>8. \A k \in 1 .. Len(n) : FrameOK(n[k])' \/ \E j \in 1 .. Len(stack[t]) : n[k] = stack[t][j]
  <2> SUFFICES ASSUME NEW k \in 1 .. Len(n)
               PROVE  FrameOK(n[k])' \/ \E j \in 1 .. Len(stack[t]) : n[k] = stack[t][j]
    OBVIOUS
  <2>1. CASE k = 1
    BY <2>1, <1>3
  <2>2. CASE k # 1
    BY <2>2, <1>1, <1>3, <1>4
  <2>3. QED
    BY <2>1, <2>2
<1>9. QED
  BY <1>5, <1>7, <1>8, StackStep

\* The innermost call goes on as g and calls VolatileMwCAS as h.
LEMMA HelpStep ==
  ASSUME TypeOK, StackInv, Stable, result' = result,
         NEW t \in Threads, stack[t] # <<>>,
         NEW g \in Frame, FrameOK(g)', Follows(g, Top(t)),
         NEW h \in Frame, FrameOK(h)',
         stack' = [stack EXCEPT ![t] = <<h, g>> \o Tail(stack[t])]
  PROVE  StackInv' /\ stack' \in [Threads -> Seq(Frame)]
<1>1. PICK s \in Seq(Frame) : s = stack[t] /\ s # <<>>
  BY DEF TypeOK
<1>2. PICK n \in Seq(Frame) : n = <<h, g>> \o Tail(s)
  BY <1>1, PushTop
<1>3. Len(n) = Len(s) + 1 /\ n[1] = h /\ n[2] = g /\ \A k \in 3 .. Len(s) + 1 : n[k] = s[k - 1]
  BY <1>1, <1>2, PushTop
<1>4. Top(t) = s[1] /\ Len(s) \in Nat \ {0}
  BY <1>1, PopTop DEF Top
<1>5. stack' = [stack EXCEPT ![t] = n]
  BY <1>1, <1>2 DEF TypeOK
<1>6. stack'[t] = n
  BY <1>5 DEF TypeOK
<1>7. BottomOK(t)'
  <2>1. Follows(Bottom(t)', Bottom(t))
    BY <1>1, <1>3, <1>4, <1>6 DEF Bottom, Follows
  <2>2. QED
    BY <2>1 DEF StackInv, BottomOK, Follows
<1>8. \A k \in 1 .. Len(n) : FrameOK(n[k])' \/ \E j \in 1 .. Len(stack[t]) : n[k] = stack[t][j]
  <2> SUFFICES ASSUME NEW k \in 1 .. Len(n)
               PROVE  FrameOK(n[k])' \/ \E j \in 1 .. Len(stack[t]) : n[k] = stack[t][j]
    OBVIOUS
  <2>1. CASE k = 1 \/ k = 2
    BY <2>1, <1>3
  <2>2. CASE k # 1 /\ k # 2
    <3>1. k - 1 \in 1 .. Len(stack[t]) /\ n[k] = stack[t][k - 1]
      BY <2>2, <1>1, <1>3, <1>4
    <3>2. QED
      BY <3>1
  <2>3. QED
    BY <2>1, <2>2
<1>9. QED
  BY <1>5, <1>7, <1>8, StackStep

\* The innermost call returns; only the outermost one, which is that of the
\* owner, sets a result.
LEMMA ReturnStep ==
  ASSUME TypeOK, StackInv, Stable,
         NEW t \in Threads, stack[t] # <<>>, Top(t).pc \in CallPCs, Top(t).desc \in Descs, Return(t)
  PROVE  /\ StackInv' /\ stack' \in [Threads -> Seq(Frame)]
         /\ result' \in [Descs -> {"none", "true", "false"}]
         /\ \/ result' = result
            \/ LET d == Top(t).desc IN
               /\ d \in Descs /\ result[d] = "none"
               /\ result' = [result EXCEPT ![d] = IF status[d] = "succeeded" THEN "true" ELSE "false"]
<1>1. PICK n \in Seq(Frame) : n = Tail(stack[t])
  BY PopTop DEF TypeOK
<1>2. /\ Len(n) = Len(stack[t]) - 1 /\ \A k \in 1 .. Len(stack[t]) - 1 : n[k] = stack[t][k + 1]
      /\ Top(t) = stack[t][1] /\ Top(t) \in Frame /\ Len(stack[t]) \in Nat \ {0}
  BY <1>1, PopTop DEF TypeOK, Top
<1>9. Len(n) = Len(stack[t]) - 1 /\ Len(stack[t]) \in Nat \ {0}
  BY <1>2
<1>3. stack' = [stack EXCEPT ![t] = n]
  BY <1>1 DEF Return, TypeOK
<1>4. stack'[t] = n
  BY <1>3 DEF TypeOK
<1>5. CASE Len(stack[t]) = 1
  <2>1. PICK d \in Descs : d = Top(t).desc
    BY <1>2, <1>5 DEF Frame
  <2>2. Owner[d] = t /\ result[d] = "none"
    BY <2>1, <1>2, <1>5 DEF StackInv, BottomOK, Bottom
  <2>3. result' = [result EXCEPT ![d] = IF status[d] = "succeeded" THEN "true" ELSE "false"]
    BY <2>1, <1>5 DEF Return, Outermost
  <2>4. result' \in [Descs -> {"none", "true", "false"}]
    BY <2>3 DEF TypeOK
  <2>5. n = <<>>
    BY <1>2, <1>5
  <2>6. \A u \in Threads \ {t} : \A c \in Descs : Owner[c] = u => result'[c] = result[c]
    BY <2>2, <2>3 DEF TypeOK
  <2>7. \A k \in 1 .. Len(n) : FrameOK(n[k])' \/ \E j \in 1 .. Len(stack[t]) : n[k] = stack[t][j]
    BY <1>2, <1>5
  <2>8. StackInv' /\ stack' \in [Threads -> Seq(Frame)]
    BY <1>3, <2>5, <2>6, <2>7, StackStep, ZenonT(40)
  <2>9. QED
    BY <2>1, <2>2, <2>3, <2>4, <2>8
<1>6. CASE Len(stack[t]) # 1
  <2>1. result' = result
    BY <1>6 DEF Return, Outermost
  <2>2. \A k \in 1 .. Len(n) : FrameOK(n[k])' \/ \E j \in 1 .. Len(stack[t]) : n[k] = stack[t][j]
    <3> SUFFICES ASSUME NEW k \in 1 .. Len(n) 
                 PROVE \E j \in 1 .. Len(stack[t]) : n[k] = stack[t][j]
      OBVIOUS
    <3>1. k + 1 \in 1 .. Len(stack[t]) /\ n[k] = stack[t][k + 1]
      BY <1>2
    <3>2. QED
      BY <3>1
  <2>3. ASSUME n # <<>> PROVE BottomOK(t)'
    <3>1. Len(n) \in Nat \ {0}
      BY <2>3
    <3>2. Len(n) \in 1 .. Len(stack[t]) - 1 /\ Len(n) + 1 = Len(stack[t])
      <4>1. PICK l \in Nat, m \in Nat : l = Len(stack[t]) /\ m = Len(n)
        BY <1>9
      <4>2. m = l - 1 /\ m # 0
        BY <4>1, <3>1, <1>9
      <4>3. m \in 1 .. l - 1 /\ m + 1 = l
        BY <4>2
      <4>4. QED
        BY <4>1, <4>3
    <3>3. n[Len(n)] = stack[t][Len(stack[t])]
      BY <3>2, <1>2
    <3>4. Bottom(t)' = Bottom(t)
      BY <3>3, <1>4 DEF Bottom
    <3>5. QED
      BY <3>4, <2>1 DEF StackInv, BottomOK
  <2>4. StackInv' /\ stack' \in [Threads -> Seq(Frame)]
    BY <1>3, <2>1, <2>2, <2>3, StackStep
  <2>5. QED
    BY <2>1, <2>4 DEF TypeOK
<1>7. QED
  BY <1>5, <1>6

\* Thread t, which is in no call, makes the call g; or t ends all its calls.
LEMMA StartStep ==
  ASSUME TypeOK, StackInv, Stable, result' = result,
         NEW t \in Threads, NEW g \in Frame, FrameOK(g)',
         g.pc \in CallPCs => Owner[g.desc] = t /\ result[g.desc] = "none",
         stack' = [stack EXCEPT ![t] = <<g>>]
  PROVE  StackInv' /\ stack' \in [Threads -> Seq(Frame)]
<1>0. <<g>> \in Seq(Frame)
  OBVIOUS
<1>1. PICK n \in Seq(Frame) : n = <<g>>
  BY <1>0
<1>2. Len(n) = 1 /\ n[1] = g
  BY <1>1
<1>3. stack' = [stack EXCEPT ![t] = n] /\ stack'[t] = n
  BY <1>1 DEF TypeOK
<1>4. BottomOK(t)'
  BY <1>2, <1>3 DEF BottomOK, Bottom
<1>5. \A k \in 1 .. Len(n) : FrameOK(n[k])' \/ \E j \in 1 .. Len(stack[t]) : n[k] = stack[t][j]
  BY <1>2
<1>6. QED
  BY <1>3, <1>4, <1>5, StackStep

\* Thread t gives up all its calls (MwCASWithFailure).
LEMMA EndStep ==
  ASSUME TypeOK, StackInv, Stable, result' = result,
         NEW t \in Threads, stack' = [stack EXCEPT ![t] = <<>>]
  PROVE  StackInv' /\ stack' \in [Threads -> Seq(Frame)]
<1>0. <<>> \in Seq(Frame)
  OBVIOUS
<1>1. PICK n \in Seq(Frame) : n = <<>>
  BY <1>0
<1>2. \A k \in 1 .. Len(n) : FrameOK(n[k])' \/ \E j \in 1 .. Len(stack[t]) : n[k] = stack[t][j]
  BY <1>1
<1>3. QED
  BY <1>1, <1>2, StackStep

-----------------------------------------------------------------------------
(***************************************************************************)
(* Words and entries.                                                      *)
(***************************************************************************)

\* Its fields tell what a word is.
LEMMA WordFields ==
  /\ \A v : Value(v).kind = "value" /\ Value(v).of = v
  /\ \A d : MwCASPtr(d).kind = "mwcas" /\ MwCASPtr(d).of = d
  /\ \A d : CondCASPtr(d).kind = "cond" /\ CondCASPtr(d).of = d
  BY DEF Value, MwCASPtr, CondCASPtr

\* The words, by kind.
LEMMA WordKinds ==
  ASSUME NEW w \in Word
  PROVE  /\ w.kind \in {"value", "mwcas", "cond"}
         /\ w.kind = "value" => w.of \in Values /\ w = Value(w.of)
         /\ w.kind = "mwcas" => w.of \in Descs /\ w = MwCASPtr(w.of)
         /\ w.kind = "cond" => w.of \in Descs /\ w = CondCASPtr(w.of)
<1>1. CASE \E v \in Values : w = Value(v)
  BY <1>1, WordFields
<1>2. CASE \E d \in Descs : w = MwCASPtr(d)
  BY <1>2, WordFields
<1>3. CASE \E d \in Descs : w = CondCASPtr(d)
  BY <1>3, WordFields
<1>4. QED
  BY <1>1, <1>2, <1>3 DEF Word

\* Values and pointers of the right kinds are words.
LEMMA WordsMade ==
  /\ \A v \in Values : Value(v) \in Word
  /\ \A d \in Descs : MwCASPtr(d) \in Word /\ CondCASPtr(d) \in Word
  BY DEF Word

\* The entries of an operation have their own addresses, and there is a target.
LEMMA OpsAre ==
  ASSUME NEW d \in Descs, NEW op \in Ops[d]
  PROVE  /\ op \in Seq(EntryType) /\ DOMAIN op = 1 .. Len(op) /\ Len(op) \in Nat
         /\ \E i \in 1 .. Len(op) : op[i].addr # Null
         /\ \A i, j \in 1 .. Len(op) : op[i].addr = op[j].addr /\ op[i].addr # Null => i = j
         /\ \A i \in 1 .. Len(op) : op[i] \in EntryType
<1>1. op \in Seq(EntryType)
  BY VolatileAssumption DEF EntryType
<1>2. DOMAIN op = 1 .. Len(op) /\ Len(op) \in Nat /\ \A i \in 1 .. Len(op) : op[i] \in EntryType
  BY <1>1
<1>3. QED
  BY <1>1, <1>2, VolatileAssumption

\* An entry is found by its address.
LEMMA EntryForIs ==
  ASSUME NEW d \in Descs, NEW op \in Ops[d], NEW k \in 1 .. Len(op), op[k].addr # Null
  PROVE  EntryFor(op, op[k].addr) = op[k]
<1>1. /\ DOMAIN op = 1 .. Len(op)
      /\ \A i \in 1 .. Len(op) : op[i].addr = op[k].addr => i = k
  BY OpsAre
<1>2. (CHOOSE i \in DOMAIN op : op[i].addr = op[k].addr) = k
  BY <1>1
<1>3. QED
  BY <1>2 DEF EntryFor

\* The entries of a descriptor in use.
LEMMA InUse ==
  ASSUME BaseInv, NEW d \in Descs, status[d] # "finished"
  PROVE  /\ words[d] \in Ops[d] /\ words[d] \in Seq(EntryType) /\ Len(words[d]) \in Nat
         /\ \E k \in 1 .. Len(words[d]) : IsTarget(d, k)
         /\ \A k \in 1 .. Len(words[d]) : IsTarget(d, k) =>
              /\ Addr(d, k) \in Words /\ Has(d, Addr(d, k))
              /\ words[d][k].old \in Values /\ words[d][k].new \in Values
              /\ EntryFor(words[d], Addr(d, k)) = words[d][k]
              /\ \A j \in 1 .. Len(words[d]) : Addr(d, j) = Addr(d, k) => j = k
<1>1. words[d] \in Ops[d]
  BY DEF BaseInv, DescInv
<1>2. /\ words[d] \in Seq(EntryType) /\ Len(words[d]) \in Nat
      /\ \E i \in 1 .. Len(words[d]) : words[d][i].addr # Null
      /\ \A i, j \in 1 .. Len(words[d]) : words[d][i].addr = words[d][j].addr /\ words[d][i].addr # Null => i = j
      /\ \A i \in 1 .. Len(words[d]) : words[d][i] \in EntryType
  BY <1>1, OpsAre
<1>3. ASSUME NEW k \in 1 .. Len(words[d]), IsTarget(d, k)
      PROVE  /\ Addr(d, k) \in Words /\ Has(d, Addr(d, k))
             /\ words[d][k].old \in Values /\ words[d][k].new \in Values
             /\ EntryFor(words[d], Addr(d, k)) = words[d][k]
             /\ \A j \in 1 .. Len(words[d]) : Addr(d, j) = Addr(d, k) => j = k
  <2>1. words[d][k] \in EntryType /\ words[d][k].addr # Null
    BY <1>2, <1>3 DEF IsTarget
  <2>2. EntryFor(words[d], words[d][k].addr) = words[d][k]
    BY <1>1, <2>1, EntryForIs
  <2>3. QED
    BY <1>2, <2>1, <2>2 DEF EntryType, Addr, Has
<1>4. QED
  BY <1>1, <1>2, <1>3 DEF IsTarget

\* A word that an operation has is the address of one of its targets.
LEMMA HasTarget ==
  ASSUME BaseInv, NEW d, NEW a, Has(d, a)
  PROVE  /\ d \in Descs /\ a \in Words
         /\ \E k \in 1 .. Len(words[d]) : IsTarget(d, k) /\ Addr(d, k) = a
         /\ EntryFor(words[d], a).old \in Values /\ EntryFor(words[d], a).new \in Values
<1>1. PICK k \in 1 .. Len(words[d]) : IsTarget(d, k) /\ Addr(d, k) = a
  BY VolatileAssumption DEF Has, IsTarget, Addr
<1>2. QED
  BY <1>1, InUse DEF Has

\* The next target is the first one after entry i.
LEMMA TargetAfterIs ==
  ASSUME NEW d, Len(words[d]) \in Nat, NEW i \in 0 .. Len(words[d])
  PROVE  LET j == TargetAfter(d, i) IN
         /\ j \in i + 1 .. Len(words[d]) + 1 /\ j \in Nat
         /\ j <= Len(words[d]) => IsTarget(d, j)
         /\ \A k \in i + 1 .. j - 1 : ~IsTarget(d, k)
<1> DEFINE n == Len(words[d])
           Stops(j) == j > n \/ words[d][j].addr # Null
           S == {j \in i + 1 .. n + 1 : Stops(j)}
<1>1. S \in SUBSET Nat /\ n + 1 \in S
  OBVIOUS
<1>2. PICK m \in S : \A k \in S : m <= k
  BY <1>1, LeastNumber
<1>3. m \in i + 1 .. n + 1 /\ Stops(m) /\ \A k \in i + 1 .. m - 1 : words[d][k].addr = Null
  <2>1. m \in i + 1 .. n + 1 /\ Stops(m)
    BY <1>2
  <2>2. ASSUME NEW k \in i + 1 .. m - 1 PROVE words[d][k].addr = Null
    <3>1. k \in i + 1 .. n + 1 /\ k < m
      BY <2>1, <2>2
    <3>2. k \notin S
      BY <1>2, <3>1
    <3>3. QED
      BY <3>1, <3>2
  <2>3. QED
    BY <2>1, <2>2
<1> DEFINE j == TargetAfter(d, i)
<1>4. j \in i + 1 .. n + 1 /\ Stops(j) /\ \A k \in i + 1 .. j - 1 : words[d][k].addr = Null
  BY <1>3 DEF TargetAfter
<1>5. QED
  BY <1>4 DEF IsTarget

-----------------------------------------------------------------------------
(***************************************************************************)
(* What steps do to the words and the descriptors.                         *)
(***************************************************************************)

\* The word at address a becomes w: one that refers to an operation it is a
\* word of, and that takes no undecided operation out of the word.
MemStep(a, w) ==
  /\ mem' = [mem EXCEPT ![a] = w]
  /\ w.kind # "value" => Has(w.of, a)
  /\ \A d \in Descs : Undecided(d) =>
       /\ mem[a] = MwCASPtr(d) => w = MwCASPtr(d)
       /\ mem[a] = CondCASPtr(d) => Refers(w, d)
       /\ Refers(w, d) /\ ~Refers(mem[a], d) =>
            \A k \in 1 .. Len(words[d]) : Addr(d, k) = a => Prefix(d, k)

\* Such a write disturbs no call, and words go on pointing to operations that
\* have them.
LEMMA MemEffect ==
  ASSUME BaseInv, NEW a \in Words, NEW w \in Word, MemStep(a, w),
         UNCHANGED <<status, words, outcome>>
  PROVE  Stable /\ WordInv' /\ mem' \in [Words -> Word]
<1>1. mem' \in [Words -> Word] /\ mem'[a] = w /\ \A b \in Words \ {a} : mem'[b] = mem[b]
  BY DEF BaseInv, TypeOK, MemStep
<1>2. ASSUME NEW d \in Descs, NEW b \in Words, Undecided(d)
      PROVE  /\ mem[b] = MwCASPtr(d) => mem'[b] = MwCASPtr(d)
             /\ mem[b] = CondCASPtr(d) => Refers(mem'[b], d)
  BY <1>1, <1>2 DEF MemStep, Refers
<1>3. \A d, b, x, k : /\ Has(d, b)' <=> Has(d, b)
                      /\ Undecided(d)' <=> Undecided(d)
                      /\ MaySwap(d, b, x)' <=> MaySwap(d, b, x)
                      /\ IsTarget(d, k)' <=> IsTarget(d, k)
                      /\ Addr(d, k)' = Addr(d, k)
  BY DEF Has, Undecided, MaySwap, IsTarget, Addr, EntryFor
<1>4. ASSUME NEW d \in Descs, Undecided(d), NEW k \in Nat, k <= Len(words[d]) + 1, Prefix(d, k) PROVE Prefix(d, k)'
  <2>1. \A j \in 1 .. Len(words[d]) : IsTarget(d, j) => Addr(d, j) \in Words
    BY <1>4, InUse DEF Undecided
  <2>2. \A j \in 1 .. k - 1 : j \in 1 .. Len(words[d])
    BY <1>4, InUse DEF Undecided
  <2>3. QED
    BY <1>2, <1>3, <1>4, <2>1, <2>2 DEF Prefix
<1>5. WordInv'
  <2>1. ASSUME NEW b \in Words, mem'[b].kind # "value" PROVE Has(mem[b].of, b)'
    <3>1. Has(mem'[b].of, b)
      BY <1>1, <2>1 DEF MemStep, BaseInv, WordInv
    <3>2. PICK d : d = mem'[b].of
      OBVIOUS
    <3>3. Has(d, b)'
      BY <1>3, <3>1, <3>2
    <3>4. QED
      BY <3>2, <3>3
  <2>2. ASSUME NEW d \in Descs, Undecided(d), NEW k \in 1 .. Len(words[d]), IsTarget(d, k),
               Refers(mem'[Addr(d, k)], d)
        PROVE  Prefix(d, k)
    <3>1. Addr(d, k) \in Words
      BY <2>2, InUse DEF Undecided
    <3>2. CASE Refers(mem[Addr(d, k)], d)
      BY <2>2, <3>2 DEF BaseInv, WordInv
    <3>3. CASE ~Refers(mem[Addr(d, k)], d)
      <4>1. Addr(d, k) = a
        BY <1>1, <2>2, <3>1, <3>3
      <4>2. QED
        BY <1>1, <2>2, <3>3, <4>1 DEF MemStep
    <3>4. QED
      BY <3>2, <3>3
  <2>3. ASSUME NEW d \in Descs, Undecided(d)', NEW k \in 1 .. Len(words[d])', IsTarget(d, k)', Refers(mem[Addr(d, k)], d)'
        PROVE  Prefix(d, k)'
    <3>1. Undecided(d) /\ k \in 1 .. Len(words[d]) /\ IsTarget(d, k) /\ Refers(mem'[Addr(d, k)], d)
      BY <1>3, <2>3 DEF Refers
    <3>2. Prefix(d, k)
      BY <2>2, <3>1
    <3>3. k \in Nat /\ k <= Len(words[d]) + 1
      BY <3>1, InUse DEF Undecided
    <3>4. QED
      BY <1>4, <3>1, <3>2, <3>3
  <2>4. QED
    BY <2>1, <2>3 DEF WordInv
<1>6. ASSUME NEW f \in Frame, ReadFrameOK(f)
      PROVE  ReadFrameOK(f)'
  BY <1>3, <1>6 DEF ReadFrameOK
<1>7. ASSUME NEW f \in Frame, CallFrameOK(f)
      PROVE  CallFrameOK(f)'
  <2>1. f.desc \in Descs /\ status[f.desc] # "finished"
    BY <1>7 DEF CallFrameOK
  <2>2. f.pc \in InstallPCs /\ Undecided(f.desc) => Prefix(f.desc, f.i)'
    <3> SUFFICES ASSUME f.pc \in InstallPCs, Undecided(f.desc) PROVE Prefix(f.desc, f.i)'
      OBVIOUS
    <3>1. f.i \in 1 .. Len(words[f.desc]) /\ Prefix(f.desc, f.i) /\ Len(words[f.desc]) \in Nat
      BY <1>7, <2>1, InUse DEF CallFrameOK, IsTarget
    <3>2. f.i \in Nat /\ f.i <= Len(words[f.desc]) + 1
      BY <3>1
    <3>3. QED
      BY <1>4, <2>1, <3>1, <3>2
  <2>3. f.pc = "decide" /\ f.decision = "succeeded" /\ Undecided(f.desc) =>
          Prefix(f.desc, Len(words[f.desc]) + 1)'
    <3> SUFFICES ASSUME f.pc = "decide", f.decision = "succeeded", Undecided(f.desc)
                 PROVE  Prefix(f.desc, Len(words[f.desc]) + 1)'
      OBVIOUS
    <3>1. Prefix(f.desc, Len(words[f.desc]) + 1) /\ Len(words[f.desc]) \in Nat
      BY <1>7, <2>1, InUse DEF CallFrameOK
    <3>2. QED
      BY <1>4, <2>1, <3>1 DEF Prefix
  <2>4. f.pc \in {"cond_status", "cond_swap"} /\ Undecided(f.desc) =>
          mem'[Addr(f.desc, f.i)] \in {CondCASPtr(f.desc), MwCASPtr(f.desc)}
    <3> SUFFICES ASSUME f.pc \in {"cond_status", "cond_swap"}, Undecided(f.desc)
                 PROVE  mem'[Addr(f.desc, f.i)] \in {CondCASPtr(f.desc), MwCASPtr(f.desc)}
      OBVIOUS
    <3>1. Addr(f.desc, f.i) \in Words
      BY <1>7, <2>1, InUse DEF CallFrameOK, IsTarget, InstallPCs
    <3>2. QED
      BY <1>2, <1>7, <2>1, <3>1 DEF CallFrameOK, Refers
  <2>5. QED
    BY <1>3, <1>7, <2>2, <2>3, <2>4 DEF CallFrameOK
<1>8. Stable
  BY <1>6, <1>7 DEF Stable, FrameOK
<1>9. QED
  BY <1>1, <1>5, <1>8

\* No word changes; undecided operations may be decided.
LEMMA StatusEffect ==
  ASSUME BaseInv, UNCHANGED <<mem, words>>, status' \in [Descs -> {"finished", "undecided", "succeeded", "failed"}],
         \A d \in Descs : status'[d] # status[d] => Undecided(d) /\ status'[d] \in {"succeeded", "failed"},
         \A d \in Descs : Undecided(d)' /\ outcome[d] = "doomed" => outcome'[d] = "doomed"
  PROVE  Stable /\ WordInv'
<1>1. \A d \in Descs : /\ status[d] # "finished" <=> status'[d] # "finished"
                       /\ Undecided(d)' => Undecided(d)
                       /\ status[d] \notin {"finished", "undecided"} => status'[d] = status[d]
  BY DEF Undecided
<1>2. \A d, b, x, k : /\ Has(d, b)' <=> Has(d, b)
                      /\ MaySwap(d, b, x) => MaySwap(d, b, x)'
                      /\ IsTarget(d, k)' <=> IsTarget(d, k)
                      /\ Addr(d, k)' = Addr(d, k)
                      /\ Prefix(d, k)' <=> Prefix(d, k)
  BY <1>1 DEF Has, MaySwap, IsTarget, Addr, EntryFor, Prefix
<1>3. WordInv'
  <2>1. ASSUME NEW b \in Words, mem'[b].kind # "value" PROVE Has(mem[b].of, b)'
    BY <1>2, <2>1 DEF BaseInv, WordInv
  <2>2. ASSUME NEW d \in Descs, Undecided(d)', NEW k \in 1 .. Len(words[d])', IsTarget(d, k)', Refers(mem[Addr(d, k)], d)'
        PROVE  Prefix(d, k)'
    <3>1. IsTarget(d, k) /\ Addr(d, k)' = Addr(d, k) /\ k \in 1 .. Len(words[d]) /\ Undecided(d)
      BY <1>1, <1>2, <2>2
    <3>2. Refers(mem[Addr(d, k)], d)
      BY <2>2, <3>1 DEF Refers
    <3>3. QED
      BY <1>2, <3>1, <3>2 DEF BaseInv, WordInv
  <2>3. QED
    BY <2>1, <2>2 DEF WordInv
<1>4. ASSUME NEW f \in Frame, ReadFrameOK(f)
      PROVE  ReadFrameOK(f)'
  BY <1>2, <1>4 DEF ReadFrameOK
<1>5. ASSUME NEW f \in Frame, CallFrameOK(f)
      PROVE  CallFrameOK(f)'
  <2>1. f.desc \in Descs /\ status[f.desc] # "finished" /\ status'[f.desc] # "finished"
    BY <1>1, <1>5 DEF CallFrameOK
  <2>2. f.pc = "final" => ~Undecided(f.desc)' /\ f.decision = status'[f.desc]
    BY <1>1, <1>5, <2>1 DEF CallFrameOK, Undecided
  <2>3. Undecided(f.desc)' => Undecided(f.desc)
    BY <1>1, <2>1
  <2>4. f.pc \in {"cond_status", "cond_swap"} /\ Undecided(f.desc)' =>
          mem[Addr(f.desc, f.i)]' \in {CondCASPtr(f.desc), MwCASPtr(f.desc)}
    BY <1>2, <1>5, <2>3 DEF CallFrameOK
  <2>5. f.pc = "decide" /\ f.decision = "succeeded" /\ Undecided(f.desc)' =>
          Prefix(f.desc, Len(words[f.desc]) + 1)'
    BY <1>2, <1>5, <2>3 DEF CallFrameOK
  <2>6. f.pc \in HelpPCs => f.seen = CondCASPtr(f.seen.of) /\ Has(f.seen.of, Addr(f.desc, f.i))'
    BY <1>2, <1>5 DEF CallFrameOK
  <2>7. /\ f.pc = "cond_swap" => MaySwap(f.desc, Addr(f.desc, f.i), f.new)'
        /\ f.pc = "help_swap" => MaySwap(f.seen.of, Addr(f.desc, f.i), f.new)'
    BY <1>2, <1>5 DEF CallFrameOK
  <2>8. QED
    BY <1>2, <1>5, <2>1, <2>2, <2>3, <2>4, <2>5, <2>6, <2>7 DEF CallFrameOK
<1>6. Stable
  BY <1>4, <1>5 DEF Stable, FrameOK
<1>7. QED
  BY <1>3, <1>6

\* A step that changes a word at most, and in no way that disturbs a call.
Quiet ==
  /\ UNCHANGED <<status, words, stop, outcome, reads>>
  /\ mem' \in [Words -> Word]
  /\ Stable /\ WordInv'

\* A step that changes no shared variable is quiet.
LEMMA QuietIfSteady ==
  ASSUME BaseInv, UNCHANGED <<mem, descVars, outcome, reads>>
  PROVE  Quiet
<1>1. /\ UNCHANGED <<mem, status, words, stop, outcome, reads>>
      /\ status' \in [Descs -> {"finished", "undecided", "succeeded", "failed"}] /\ mem' \in [Words -> Word]
  BY DEF BaseInv, TypeOK, descVars
<1>2. /\ \A d \in Descs : status'[d] # status[d] => Undecided(d) /\ status'[d] \in {"succeeded", "failed"}
      /\ \A d \in Descs : Undecided(d)' /\ outcome[d] = "doomed" => outcome'[d] = "doomed"
  BY <1>1
<1>3. Stable /\ WordInv'
  BY <1>1, <1>2, StatusEffect
<1>4. QED
  BY <1>1, <1>3 DEF Quiet

\* A CAS that succeeds with such a word.
LEMMA QuietIfCAS ==
  ASSUME BaseInv, NEW a \in Words, NEW w \in Word, NEW want, CAS(a, w, want),
         mem[a] = want =>
            /\ w.kind # "value" => Has(w.of, a)
            /\ \A d \in Descs : Undecided(d) =>
                 /\ want = MwCASPtr(d) => w = MwCASPtr(d)
                 /\ want = CondCASPtr(d) => Refers(w, d)
                 /\ Refers(w, d) /\ ~Refers(want, d) =>
                      \A k \in 1 .. Len(words[d]) : Addr(d, k) = a => Prefix(d, k),
         UNCHANGED <<descVars, outcome, reads>>
  PROVE  Quiet
<1>1. CASE mem[a] # want
  <2>1. mem' = mem
    BY <1>1 DEF CAS
  <2>2. QED
    BY <2>1, QuietIfSteady
<1>2. CASE mem[a] = want
  <2>1. MemStep(a, w)
    BY <1>2 DEF CAS, MemStep
  <2>2. Stable /\ WordInv' /\ mem' \in [Words -> Word]
    BY <2>1, MemEffect DEF descVars
  <2>3. QED
    BY <2>2 DEF Quiet, descVars
<1>3. QED
  BY <1>1, <1>2

\* A quiet step keeps the invariant if it keeps the stacks in order.
LEMMA QuietDone ==
  ASSUME BaseInv, Quiet, \A d \in Descs : status[d] = "finished" => result'[d] = result[d],
         result' \in [Descs -> {"none", "true", "false"}],
         StackInv', stack' \in [Threads -> Seq(Frame)]
  PROVE  BaseInv'
<1>1. DescInv'
  BY DEF BaseInv, DescInv, Undecided, Quiet
<1>2. TypeOK'
  BY DEF BaseInv, TypeOK, Quiet
<1>3. QED
  BY <1>1, <1>2 DEF BaseInv, Quiet

\* A quiet step with which the innermost call goes on keeps the invariant.
LEMMA QuietContinue ==
  ASSUME BaseInv, Quiet, NEW t \in Threads, stack[t] # <<>>, result' = result,
         NEW g \in Frame, FrameOK(g)', Follows(g, Top(t)), Continue(t, g)
  PROVE  BaseInv'
<1>1. StackInv' /\ stack' \in [Threads -> Seq(Frame)]
  BY ContinueStep DEF BaseInv, Quiet
<1>2. QED
  BY <1>1, QuietDone DEF BaseInv, TypeOK

\* A call of VolatileMwCAS on a descriptor in use.
LEMMA CallIs ==
  ASSUME NEW d \in Descs
  PROVE  /\ Call(d) \in Frame /\ Call(d).pc = "enter" /\ Call(d).desc = d /\ Call(d).i = 0
         /\ Call(d).decision = "succeeded"
         /\ status[d] # "finished" => CallFrameOK(Call(d)) /\ FrameOK(Call(d))
<1>1. Call(d) \in Frame
  BY DEF Call, Frame, Labels, CallPCs
<1>2. /\ Call(d).pc = "enter" /\ Call(d).desc = d /\ Call(d).i = 0 /\ Call(d).decision = "succeeded"
  BY DEF Call
<1>3. status[d] # "finished" => CallFrameOK(Call(d))
  BY <1>2 DEF CallFrameOK, InstallPCs, HelpPCs
<1>4. QED
  BY <1>1, <1>2, <1>3 DEF FrameOK, CallPCs

\* A quiet step that calls VolatileMwCAS on a descriptor in use, to help, keeps
\* the invariant.
LEMMA QuietHelp ==
  ASSUME BaseInv, Quiet, NEW t \in Threads, stack[t] # <<>>, result' = result,
         NEW g \in Frame, FrameOK(g)', Follows(g, Top(t)),
         NEW d \in Descs, status[d] # "finished", Help(t, g, d)
  PROVE  BaseInv'
<1>1. Call(d) \in Frame /\ FrameOK(Call(d))
  BY CallIs
<1>2. FrameOK(Call(d))'
  <2>1. PICK c \in Frame : c = Call(d)
    BY <1>1
  <2>2. FrameOK(c)'
    BY <1>1, <2>1 DEF Quiet, Stable
  <2>3. Call(d)' = Call(d)
    BY DEF Call
  <2>4. QED
    BY <2>1, <2>2, <2>3
<1>3. stack' = [stack EXCEPT ![t] = <<Call(d), g>> \o Tail(stack[t])]
  BY DEF Help, BaseInv, TypeOK
<1>4. StackInv' /\ stack' \in [Threads -> Seq(Frame)]
  BY <1>1, <1>2, <1>3, HelpStep DEF BaseInv, Quiet
<1>5. QED
  BY <1>4, QuietDone DEF BaseInv, TypeOK

\* A quiet step with which a call of VolatileMwCAS returns keeps the invariant.
LEMMA QuietReturn ==
  ASSUME BaseInv, Quiet, NEW t \in Threads, stack[t] # <<>>, Return(t),
         Top(t).pc \in CallPCs, Top(t).desc \in Descs, status[Top(t).desc] # "finished"
  PROVE  BaseInv'
<1>1. /\ StackInv' /\ stack' \in [Threads -> Seq(Frame)]
      /\ result' \in [Descs -> {"none", "true", "false"}]
      /\ \/ result' = result
         \/ LET d == Top(t).desc IN
            /\ d \in Descs /\ result[d] = "none"
            /\ result' = [result EXCEPT ![d] = IF status[d] = "succeeded" THEN "true" ELSE "false"]
  BY ReturnStep DEF BaseInv, Quiet
<1>2. ASSUME NEW d \in Descs, status[d] = "finished" PROVE result'[d] = result[d]
  BY <1>1, <1>2 DEF BaseInv, TypeOK
<1>3. QED
  BY <1>1, <1>2, QuietDone

-----------------------------------------------------------------------------
(***************************************************************************)
(* The steps of a call keep the invariant.                                 *)
(***************************************************************************)

\* The innermost call is as it should be.
LEMMA TopIs ==
  ASSUME BaseInv, NEW t \in Threads, NEW l, At(t, l)
  PROVE  stack[t] # <<>> /\ Top(t) \in Frame /\ FrameOK(Top(t)) /\ Top(t).pc = l
<1>1. stack[t] \in Seq(Frame) /\ stack[t] # <<>>
  BY DEF At, BaseInv, TypeOK
<1>2. Top(t) = stack[t][1] /\ 1 \in 1 .. Len(stack[t]) /\ Top(t) \in Frame
  BY <1>1, PopTop DEF Top
<1>3. QED
  BY <1>2 DEF At, BaseInv, StackInv

\* The innermost call, when it is one of VolatileMwCAS, works on a descriptor
\* in use.
LEMMA CallTop ==
  ASSUME BaseInv, NEW t \in Threads, NEW l \in CallPCs, At(t, l)
  PROVE  \E f \in Frame :
         /\ f = Top(t) /\ stack[t] # <<>> /\ f.pc = l /\ FrameOK(f) /\ CallFrameOK(f)
         /\ f.desc \in Descs /\ status[f.desc] # "finished" /\ words[f.desc] \in Ops[f.desc]
         /\ Len(words[f.desc]) \in Nat
         /\ l \in InstallPCs \cup {"final"} =>
              /\ IsTarget(f.desc, f.i) /\ f.i \in 1 .. Len(words[f.desc])
              /\ Addr(f.desc, f.i) \in Words /\ Has(f.desc, Addr(f.desc, f.i))
              /\ Entry(f) = words[f.desc][f.i] /\ Entry(f).addr = Addr(f.desc, f.i)
              /\ EntryFor(words[f.desc], Addr(f.desc, f.i)) = Entry(f)
              /\ Entry(f).old \in Values /\ Entry(f).new \in Values
<1>1. PICK f \in Frame : f = Top(t)
  BY TopIs
<1>2. stack[t] # <<>> /\ FrameOK(f) /\ f.pc = l
  BY <1>1, TopIs
<1>3. CallFrameOK(f)
  BY <1>2 DEF FrameOK, ReadPCs, CallPCs, InstallPCs
<1>4. f.desc \in Descs /\ status[f.desc] # "finished"
  BY <1>3 DEF CallFrameOK
<1>5. words[f.desc] \in Ops[f.desc] /\ Len(words[f.desc]) \in Nat
  BY <1>4, InUse
<1>6. ASSUME l \in InstallPCs \cup {"final"}
      PROVE  /\ IsTarget(f.desc, f.i) /\ f.i \in 1 .. Len(words[f.desc])
             /\ Addr(f.desc, f.i) \in Words /\ Has(f.desc, Addr(f.desc, f.i))
             /\ Entry(f) = words[f.desc][f.i] /\ Entry(f).addr = Addr(f.desc, f.i)
             /\ EntryFor(words[f.desc], Addr(f.desc, f.i)) = Entry(f)
             /\ Entry(f).old \in Values /\ Entry(f).new \in Values
  <2>1. IsTarget(f.desc, f.i) /\ f.i \in 1 .. Len(words[f.desc])
    BY <1>2, <1>3, <1>6 DEF CallFrameOK, IsTarget
  <2>2. QED
    BY <1>4, <2>1, InUse DEF Entry, Addr
<1>7. QED
  BY <1>1, <1>2, <1>3, <1>4, <1>5, <1>6

\* The innermost call, when it is one of GetValue, works on a word.
LEMMA ReadTop ==
  ASSUME BaseInv, NEW t \in Threads, NEW l \in ReadPCs, At(t, l)
  PROVE  \E f \in Frame : /\ f = Top(t) /\ stack[t] # <<>> /\ f.pc = l /\ FrameOK(f)
                          /\ ReadFrameOK(f) /\ f.desc \in Words
<1>1. PICK f \in Frame : f = Top(t)
  BY TopIs
<1>2. stack[t] # <<>> /\ FrameOK(f) /\ f.pc = l
  BY <1>1, TopIs
<1>3. ReadFrameOK(f)
  BY <1>2 DEF FrameOK, ReadPCs, CallPCs, InstallPCs
<1>4. QED
  BY <1>1, <1>2, <1>3 DEF ReadFrameOK

\* The call starts anew with the words that it reads.
LEMMA FreshIs ==
  ASSUME NEW f \in Frame, NEW l \in Labels
  PROVE  LET g == Fresh(f, l) IN
         /\ g \in Frame /\ g.pc = l /\ g.desc = f.desc /\ g.i = f.i /\ g.decision = f.decision
         /\ \A j \in Nat : /\ [g EXCEPT !.i = j] \in Frame /\ [g EXCEPT !.i = j].pc = l
                           /\ [g EXCEPT !.i = j].desc = f.desc /\ [g EXCEPT !.i = j].i = j
                           /\ [g EXCEPT !.i = j].decision = f.decision
  BY DEF Fresh, Frame

\* After a step, a call in the install loop is as it should be if its word is a
\* target and the words before it are installed.
LEMMA InstallFrame ==
  ASSUME NEW g \in Frame, g.pc = "install", g.desc \in Descs, status'[g.desc] # "finished",
         IsTarget(g.desc, g.i)', g.decision = "succeeded",
         Undecided(g.desc)' => Prefix(g.desc, g.i)'
  PROVE  FrameOK(g)'
<1>1. CallFrameOK(g)'
  BY DEF CallFrameOK, InstallPCs, HelpPCs
<1>2. QED
  BY <1>1 DEF FrameOK, CallPCs, InstallPCs

\* After a step, a call that is to decide success is as it should be if all the
\* words are installed, and one that is to decide failure if a word was found
\* with another value.
LEMMA DecideFrame ==
  ASSUME NEW g \in Frame, g.pc = "decide", g.desc \in Descs, status'[g.desc] # "finished",
         g.decision = "succeeded" /\ Undecided(g.desc)' => Prefix(g.desc, Len(words[g.desc]) + 1)',
         g.decision = "failed" /\ Undecided(g.desc)' => outcome'[g.desc] = "doomed"
  PROVE  FrameOK(g)'
<1>1. CallFrameOK(g)'
  BY DEF CallFrameOK, InstallPCs, HelpPCs
<1>2. QED
  BY <1>1 DEF FrameOK, CallPCs, InstallPCs

\* The install loop goes on when its word is installed: at the end, all words
\* are.
LEMMA AdvanceInstall ==
  ASSUME BaseInv, Quiet, NEW t \in Threads, stack[t] # <<>>, result' = result,
         NEW f \in Frame, f = Top(t), f.pc \in InstallPCs \cup {"enter"}, CallFrameOK(f),
         Undecided(f.desc) => Prefix(f.desc, f.i + 1)',
         Advance(t, "install", "decide")
  PROVE  BaseInv'
<1> DEFINE d == f.desc
           n == Len(words[d])
<1>1. /\ d \in Descs /\ status[d] # "finished" /\ words[d] \in Ops[d] /\ n \in Nat
      /\ f.decision = "succeeded" /\ f.i \in 0 .. n
  BY InUse DEF CallFrameOK, IsTarget
<1>2. UNCHANGED <<status, words, outcome>>
  BY DEF Quiet
<1>3. PICK j \in Nat : /\ j = TargetAfter(d, f.i) /\ j \in f.i + 1 .. n + 1
                       /\ j <= n => IsTarget(d, j)
                       /\ \A k \in f.i + 1 .. j - 1 : ~IsTarget(d, k)
  BY <1>1, TargetAfterIs
<1>4. Undecided(d) => Prefix(d, j)'
  <2> SUFFICES ASSUME Undecided(d), NEW k \in 1 .. j - 1, IsTarget(d, k)'
               PROVE  mem[Addr(d, k)]' = MwCASPtr(d)
    BY DEF Prefix
  <2>1. IsTarget(d, k)
    BY <1>2 DEF IsTarget
  <2>2. k \in 1 .. f.i
    BY <1>1, <1>3, <2>1
  <2>3. k \in 1 .. (f.i + 1) - 1
    BY <1>1, <2>2
  <2>4. QED
    BY <2>3 DEF Prefix
<1>11. PICK l \in {"decide", "install"} : l = IF j > n THEN "decide" ELSE "install"
  OBVIOUS
<1>5. PICK g \in Frame : /\ g = [Fresh(f, l) EXCEPT !.i = j]
                        /\ g.pc = l /\ g.desc = d /\ g.i = j /\ g.decision = "succeeded"
  <2>1. l \in Labels
    BY DEF Labels, CallPCs, InstallPCs
  <2> DEFINE h == [Fresh(f, l) EXCEPT !.i = j]
  <2>2. h \in Frame /\ h.pc = l /\ h.desc = d /\ h.i = j /\ h.decision = f.decision
    BY <2>1, FreshIs
  <2> HIDE DEF h
  <2>3. \E g \in Frame : g = h /\ g.pc = l /\ g.desc = d /\ g.i = j /\ g.decision = "succeeded"
    BY <1>1, <2>2
  <2>4. QED
    BY <2>3 DEF h
<1>6. Continue(t, g)
  BY <1>3, <1>5, <1>11 DEF Advance
<1>10. g \in Frame /\ g.desc \in Descs /\ status'[g.desc] # "finished" /\ g.decision # "failed"
  BY <1>1, <1>2, <1>5
<1>7. FrameOK(g)'
  <2>1. CASE j <= n
    <3>1. g.pc = "install"
      BY <1>1, <1>5, <1>11, <2>1
    <3>2. IsTarget(g.desc, g.i)'
      BY <1>2, <1>3, <1>5, <2>1 DEF IsTarget
    <3>3. Undecided(g.desc)' => Prefix(g.desc, g.i)'
      BY <1>2, <1>4, <1>5 DEF Undecided
    <3>4. QED
      BY <1>5, <1>10, <3>1, <3>2, <3>3, InstallFrame
  <2>2. CASE j > n
    <3>1. g.pc = "decide" /\ j = n + 1
      BY <1>1, <1>3, <1>5, <1>11, <2>2
    <3>2. Undecided(d)' => Prefix(d, j)'
      BY <1>2, <1>4 DEF Undecided
    <3>3. Undecided(d)' => Prefix(d, Len(words[d]) + 1)'
      BY <1>2, <3>1, <3>2 DEF Prefix
    <3>4. Undecided(g.desc)' => Prefix(g.desc, Len(words[g.desc]) + 1)'
      BY <1>5, <3>3
    <3>5. QED
      BY <1>10, <3>1, <3>4, DecideFrame
  <2>3. QED
    BY <1>1, <1>3, <2>1, <2>2
<1>8. Follows(g, Top(t))
  <2>1. g.pc \in CallPCs /\ f.pc \in CallPCs
    BY <1>5 DEF CallPCs, InstallPCs
  <2>2. QED
    BY <1>5, <2>1 DEF Follows
<1>9. QED
  BY <1>5, <1>6, <1>7, <1>8, QuietContinue

\* Reading the status on entry keeps the invariant.
LEMMA EnterStep ==
  ASSUME BaseInv, NEW t \in Threads, Enter(t)
  PROVE  BaseInv'
<1>1. At(t, "enter") /\ UNCHANGED <<mem, descVars, reads, outcome>>
  BY DEF Enter
<1>2. PICK f \in Frame : /\ f = Top(t) /\ stack[t] # <<>> /\ f.pc = "enter" /\ CallFrameOK(f)
                         /\ f.desc \in Descs /\ status[f.desc] # "finished"
  BY <1>1, CallTop DEF CallPCs
<1>3. Quiet
  BY <1>1, QuietIfSteady
<1>4. CASE Advance(t, "install", "decide") /\ UNCHANGED result
  <2>1. f.i = 0
    BY <1>2 DEF CallFrameOK
  <2>2. Prefix(f.desc, f.i + 1)'
    BY <2>1 DEF Prefix
  <2>3. QED
    BY <1>2, <1>3, <1>4, <2>2, AdvanceInstall
<1>5. CASE Return(t)
  BY <1>2, <1>3, <1>5, QuietReturn DEF CallPCs
<1>6. QED
  BY <1>4, <1>5 DEF Enter


\* A call that stays at its word, in the install loop, is as it should be after
\* a quiet step if it knows what it has to know where it is now.
LEMMA InstallGoesOn ==
  ASSUME BaseInv, Quiet,
         NEW f \in Frame, f.pc \in InstallPCs, CallFrameOK(f),
         NEW g \in Frame, g.pc \in InstallPCs, g.desc = f.desc, g.i = f.i, g.decision = f.decision,
         g.pc \in {"cond_status", "cond_swap"} /\ Undecided(f.desc) =>
            mem'[Addr(f.desc, f.i)] \in {CondCASPtr(f.desc), MwCASPtr(f.desc)},
         g.pc = "cond_swap" => MaySwap(f.desc, Addr(f.desc, f.i), g.new),
         g.pc \in HelpPCs => g.seen = CondCASPtr(g.seen.of) /\ Has(g.seen.of, Addr(f.desc, f.i)),
         g.pc = "help_swap" => MaySwap(g.seen.of, Addr(f.desc, f.i), g.new)
  PROVE  FrameOK(g)' /\ Follows(g, f)
<1>1. CallFrameOK(f)'
  <2>1. FrameOK(f)
    BY DEF FrameOK, CallPCs
  <2>2. FrameOK(f)'
    BY <2>1 DEF Quiet, Stable
  <2>3. QED
    BY <2>2 DEF FrameOK, ReadPCs, InstallPCs
<1>2. \A c, b, x, k : /\ Has(c, b) => Has(c, b)'
                      /\ Undecided(c)' => Undecided(c)
                      /\ MaySwap(c, b, x) => MaySwap(c, b, x)'
                      /\ Addr(c, k)' = Addr(c, k)
  <2>1. UNCHANGED <<status, words>>
    BY DEF Quiet
  <2>2. \A c, b, k : (Has(c, b)' <=> Has(c, b)) /\ (Undecided(c)' <=> Undecided(c)) /\ Addr(c, k)' = Addr(c, k)
    BY <2>1 DEF Has, Undecided, Addr
  <2>3. ASSUME NEW c, NEW b, NEW x, MaySwap(c, b, x) PROVE MaySwap(c, b, x)'
    <3>1. EntryFor(words[c], b)' = EntryFor(words[c], b)
      BY <2>1 DEF EntryFor
    <3>2. QED
      BY <2>2, <2>3, <3>1 DEF MaySwap
  <2>4. QED
    BY <2>2, <2>3
<1>3. /\ g.desc \in Descs /\ status'[g.desc] # "finished" /\ IsTarget(g.desc, g.i)'
      /\ g.decision = "succeeded" /\ (Undecided(g.desc)' => Prefix(g.desc, g.i)')
  BY <1>1 DEF CallFrameOK
<1>4. /\ g.pc \in {"cond_status", "cond_swap"} /\ Undecided(g.desc)' =>
           mem[Addr(g.desc, g.i)]' \in {CondCASPtr(g.desc), MwCASPtr(g.desc)}
      /\ g.pc = "cond_swap" => MaySwap(g.desc, Addr(g.desc, g.i), g.new)'
  BY <1>2
<1>5. /\ g.pc \in HelpPCs => g.seen = CondCASPtr(g.seen.of) /\ Has(g.seen.of, Addr(g.desc, g.i))'
      /\ g.pc = "help_swap" => MaySwap(g.seen.of, Addr(g.desc, g.i), g.new)'
  BY <1>2
<1>6. CallFrameOK(g)'
  BY <1>3, <1>4, <1>5 DEF CallFrameOK, InstallPCs
<1>7. g.pc \in CallPCs /\ f.pc \in CallPCs
  BY DEF CallPCs
<1>8. QED
  BY <1>6, <1>7 DEF FrameOK, Follows

\* What is chosen to replace a word descriptor may replace it.
LEMMA ChooseOK ==
  ASSUME BaseInv, NEW d, NEW a, Has(d, a)
  PROVE  Choose(d, a) \in Word /\ MaySwap(d, a, Choose(d, a))
<1>1. d \in Descs /\ EntryFor(words[d], a).old \in Values
  BY HasTarget
<1>2. QED
  BY <1>1, WordsMade DEF Choose, MaySwap, Undecided

\* Replacing a word descriptor is quiet.
LEMMA QuietSwap ==
  ASSUME BaseInv, NEW d, NEW a, NEW w \in Word, MaySwap(d, a, w), CAS(a, w, CondCASPtr(d)),
         UNCHANGED <<descVars, outcome, reads>>
  PROVE  /\ Quiet
         /\ Undecided(d) => w = MwCASPtr(d)
         /\ Undecided(d) /\ mem[a] \in {CondCASPtr(d), MwCASPtr(d)} => mem'[a] = MwCASPtr(d)
<1>1. d \in Descs /\ a \in Words /\ Has(d, a)
  BY DEF MaySwap, Has
<1>2. w.kind # "value" => w = MwCASPtr(d) /\ w.of = d
  BY WordFields DEF MaySwap
<1>3. ASSUME NEW c \in Descs, Undecided(c)
      PROVE  /\ CondCASPtr(d) # MwCASPtr(c)
             /\ CondCASPtr(d) = CondCASPtr(c) => Refers(w, c)
             /\ Refers(w, c) => Refers(CondCASPtr(d), c)
  <2>1. CondCASPtr(d) # MwCASPtr(c) /\ (CondCASPtr(d) = CondCASPtr(c) => c = d)
    BY WordFields
  <2>2. w = MwCASPtr(d) \/ (~Undecided(d) /\ w.kind = "value")
    BY WordFields DEF MaySwap
  <2>3. Refers(w, c) => w = MwCASPtr(d) /\ c = d
    BY <2>2, WordFields DEF Refers
  <2>4. QED
    BY <1>3, <2>1, <2>2, <2>3 DEF Refers
<1>4. Quiet
  BY <1>1, <1>2, <1>3, QuietIfCAS
<1>5. Undecided(d) => w = MwCASPtr(d)
  BY DEF MaySwap
<1>6. mem \in [Words -> Word]
  BY DEF BaseInv, TypeOK
<1>7. Undecided(d) /\ mem[a] \in {CondCASPtr(d), MwCASPtr(d)} => mem'[a] = MwCASPtr(d)
  BY <1>1, <1>5, <1>6 DEF CAS
<1>8. QED
  BY <1>4, <1>5, <1>7

\* The words up to entry i are installed if those before it are, and its own.
LEMMA PrefixGrows ==
  ASSUME BaseInv, Quiet, NEW f \in Frame, f.pc \in InstallPCs, CallFrameOK(f), Undecided(f.desc),
         mem'[Addr(f.desc, f.i)] = MwCASPtr(f.desc)
  PROVE  Prefix(f.desc, f.i + 1)'
<1>1. FrameOK(f)
  BY DEF FrameOK, CallPCs
<1>2. FrameOK(f)'
  BY <1>1 DEF Quiet, Stable
<1>3. CallFrameOK(f)'
  BY <1>2 DEF FrameOK, ReadPCs, InstallPCs
<1>4. Undecided(f.desc)' /\ Addr(f.desc, f.i)' = Addr(f.desc, f.i)
  BY DEF Quiet, Undecided, Addr
<1>5. Prefix(f.desc, f.i)' /\ f.i \in Nat
  BY <1>3, <1>4 DEF CallFrameOK, Frame
<1>6. ASSUME NEW k \in 1 .. (f.i + 1) - 1, IsTarget(f.desc, k)'
      PROVE  mem[Addr(f.desc, k)]' = MwCASPtr(f.desc)
  <2>1. CASE k = f.i
    BY <2>1, <1>4
  <2>2. CASE k # f.i
    <3>1. k \in 1 .. f.i - 1
      BY <1>5, <2>2
    <3>2. QED
      BY <1>5, <1>6, <3>1 DEF Prefix
  <2>3. QED
    BY <2>1, <2>2
<1>7. QED
  BY <1>6 DEF Prefix

\* The call with other local variables is still a call.
LEMMA FrameWith ==
  ASSUME NEW f \in Frame
  PROVE  /\ \A l \in Labels : [f EXCEPT !.pc = l] \in Frame
         /\ \A l \in Labels, w \in Word : [f EXCEPT !.pc = l, !.seen = w] \in Frame
         /\ \A l \in Labels, w \in Word : [f EXCEPT !.pc = l, !.new = w] \in Frame
         /\ \A l \in Labels, b \in BOOLEAN : [f EXCEPT !.pc = l, !.desired = b] \in Frame
         /\ \A l \in Labels, s \in {"succeeded", "failed"} : [f EXCEPT !.pc = l, !.decision = s] \in Frame
         /\ \A l \in Labels, i \in Nat, s \in {"succeeded", "failed"} :
              [f EXCEPT !.pc = l, !.i = i, !.decision = s] \in Frame
  BY DEF Frame

\* The labels of a call of VolatileMwCAS.
LEMMA LabelsAre ==
  /\ InstallPCs \subseteq CallPCs /\ HelpPCs \subseteq InstallPCs /\ CallPCs \subseteq Labels
  /\ ReadPCs \subseteq Labels /\ {"enter", "decide", "final"} \subseteq CallPCs
  /\ {"install", "cond_status", "cond_swap"} \subseteq InstallPCs
  /\ \A l \in HelpPCs : l \notin {"install", "cond_status", "cond_swap"}
  /\ {"read", "read_status", "read_swap"} \subseteq ReadPCs
  /\ \A l \in ReadPCs : l \notin CallPCs
  /\ {"help_status", "help_check", "help_choose", "help_swap"} \subseteq HelpPCs
  BY DEF InstallPCs, CallPCs, HelpPCs, Labels, ReadPCs

\* The first CAS of CondCAS puts the word descriptor of the call in place of the
\* old value, which is quiet.
LEMMA QuietInstall ==
  ASSUME BaseInv, NEW f \in Frame, f.pc = "install", CallFrameOK(f),
         NEW w, w.kind = "value", CAS(Addr(f.desc, f.i), CondCASPtr(f.desc), w),
         UNCHANGED <<descVars, outcome, reads>>
  PROVE  Quiet
<1> DEFINE d == f.desc
           a == Addr(d, f.i)
<1>1. d \in Descs /\ status[d] # "finished" /\ IsTarget(d, f.i) /\ (Undecided(d) => Prefix(d, f.i))
  BY DEF CallFrameOK, InstallPCs
<1>2. /\ f.i \in 1 .. Len(words[d]) /\ a \in Words /\ Has(d, a)
      /\ \A j \in 1 .. Len(words[d]) : Addr(d, j) = a => j = f.i
  BY <1>1, InUse DEF IsTarget
<1>3. CondCASPtr(d) \in Word /\ CondCASPtr(d).of = d
  BY <1>1, WordsMade, WordFields
<1>4. ASSUME NEW c \in Descs, Undecided(c)
      PROVE  /\ w # MwCASPtr(c) /\ w # CondCASPtr(c)
             /\ Refers(CondCASPtr(d), c) => \A k \in 1 .. Len(words[c]) : Addr(c, k) = a => Prefix(c, k)
  <2>1. w # MwCASPtr(c) /\ w # CondCASPtr(c)
    BY WordFields
  <2>2. Refers(CondCASPtr(d), c) => c = d
    BY WordFields DEF Refers
  <2>3. QED
    BY <1>1, <1>2, <1>4, <2>1, <2>2
<1>5. QED
  BY <1>2, <1>3, <1>4, QuietIfCAS

\* A word that points to an operation points to one that has the word.
LEMMA PointedTo ==
  ASSUME BaseInv, NEW a \in Words, mem[a].kind # "value"
  PROVE  /\ mem[a] \in Word /\ Has(mem[a].of, a) /\ mem[a].of \in Descs /\ status[mem[a].of] # "finished"
         /\ mem[a].kind = "cond" => mem[a] = CondCASPtr(mem[a].of)
         /\ mem[a].kind = "mwcas" => mem[a] = MwCASPtr(mem[a].of)
<1>1. mem[a] \in Word
  BY DEF BaseInv, TypeOK
<1>2. Has(mem[a].of, a)
  BY DEF BaseInv, WordInv
<1>3. QED
  BY <1>1, <1>2, WordKinds DEF Has

\* Dooming an operation because a word has another value keeps the invariant.
LEMMA DoomStep ==
  ASSUME BaseInv, NEW t \in Threads, At(t, "install"),
         Continue(t, [Top(t) EXCEPT !.pc = "decide", !.decision = "failed"]),
         outcome' = IF outcome[Top(t).desc] = "pending" THEN [outcome EXCEPT ![Top(t).desc] = "doomed"]
                    ELSE outcome,
         UNCHANGED <<mem, descVars, reads, result>>
  PROVE  BaseInv'
<1>1. PICK f \in Frame : /\ f = Top(t) /\ stack[t] # <<>> /\ f.pc = "install" /\ CallFrameOK(f)
                         /\ f.desc \in Descs /\ status[f.desc] # "finished"
  BY CallTop, LabelsAre
<1>2. UNCHANGED <<mem, status, words, stop, reads, result>>
  BY DEF descVars
<1>3. /\ status \in [Descs -> {"finished", "undecided", "succeeded", "failed"}]
      /\ outcome \in [Descs -> {"idle", "pending", "doomed", "succeeded", "failed"}]
  BY DEF BaseInv, TypeOK
<1>4. /\ outcome' \in [Descs -> {"idle", "pending", "doomed", "succeeded", "failed"}]
      /\ \A c \in Descs : outcome'[c] # outcome[c] => outcome[c] = "pending" /\ outcome'[c] = "doomed"
      /\ outcome'[f.desc] # "pending"
  BY <1>1, <1>3
<1>5. Stable /\ WordInv'
  <2>1. \A c \in Descs : status'[c] # status[c] => Undecided(c) /\ status'[c] \in {"succeeded", "failed"}
    BY <1>2
  <2>2. \A c \in Descs : Undecided(c)' /\ outcome[c] = "doomed" => outcome'[c] = "doomed"
    BY <1>4
  <2>3. status' \in [Descs -> {"finished", "undecided", "succeeded", "failed"}] /\ UNCHANGED <<mem, words>>
    BY <1>2, <1>3
  <2>4. QED
    BY <2>1, <2>2, <2>3, StatusEffect
<1>6. DescInv'
  <2>1. DescInv
    BY DEF BaseInv
  <2>2. ASSUME NEW c \in Descs
        PROVE  /\ status'[c] = "finished" <=> outcome'[c] = "idle"
               /\ status'[c] = "finished" => words'[c] = <<>> /\ result'[c] = "none"
               /\ status'[c] # "finished" => words'[c] \in Ops[c]
               /\ status'[c] \in {"succeeded", "failed"} => outcome'[c] = status'[c]
               /\ Undecided(c)' => outcome'[c] \in {"pending", "doomed"}
    BY <1>2, <1>4, <2>1 DEF DescInv, Undecided
  <2>3. QED
    BY <2>2 DEF DescInv
<1>7. PICK g \in Frame : g = [f EXCEPT !.pc = "decide", !.decision = "failed"]
  BY FrameWith, LabelsAre
<1>8. g.pc = "decide" /\ g.desc = f.desc /\ g.decision = "failed" /\ g.desc \in Descs
  BY <1>1, <1>7 DEF Frame
<1>9. FrameOK(g)'
  <2>1. Undecided(f.desc)' => outcome'[f.desc] = "doomed"
    BY <1>1, <1>4, <1>6 DEF DescInv
  <2>2. status'[g.desc] # "finished"
    BY <1>1, <1>2, <1>8
  <2>3. Undecided(g.desc)' => outcome'[g.desc] = "doomed"
    BY <1>8, <2>1
  <2>4. QED
    BY <1>8, <2>2, <2>3, DecideFrame
<1>10. Follows(g, Top(t))
  BY <1>1, <1>8, LabelsAre DEF Follows
<1>11. StackInv' /\ stack' \in [Threads -> Seq(Frame)]
  BY <1>1, <1>2, <1>5, <1>7, <1>9, <1>10, ContinueStep DEF BaseInv
<1>12. TypeOK'
  BY <1>2, <1>4, <1>11 DEF BaseInv, TypeOK
<1>13. QED
  BY <1>5, <1>6, <1>11, <1>12 DEF BaseInv

\* The install loop keeps the invariant.
LEMMA InstallStep ==
  ASSUME BaseInv, NEW t \in Threads, Install(t)
  PROVE  BaseInv'
<1>1. At(t, "install") /\ UNCHANGED <<descVars, reads, result>>
  BY DEF Install
<1>2. PICK f \in Frame : /\ f = Top(t) /\ stack[t] # <<>> /\ f.pc = "install" /\ FrameOK(f) /\ CallFrameOK(f)
                         /\ f.desc \in Descs /\ status[f.desc] # "finished"
                         /\ Addr(f.desc, f.i) \in Words /\ Entry(f).addr = Addr(f.desc, f.i)
  BY <1>1, CallTop, LabelsAre
<1> DEFINE d == f.desc
           a == Addr(d, f.i)
<1>3. f.pc \in InstallPCs
  BY <1>2, LabelsAre
<1>4. mem[a] \in Word
  BY <1>2 DEF BaseInv, TypeOK
<1>5. CASE /\ mem[a] = Value(Entry(f).old) /\ CAS(a, CondCASPtr(d), mem[a])
           /\ Jump(t, "cond_status") /\ UNCHANGED outcome
  <2>1. Quiet
    <3>1. PICK w : w = mem[a]
      OBVIOUS
    <3>2. w.kind = "value" /\ CAS(a, CondCASPtr(d), w)
      BY <1>5, <3>1, WordFields
    <3>3. QED
      BY <1>1, <1>2, <1>5, <3>2, QuietInstall
  <2>2. PICK g \in Frame : /\ g = Fresh(f, "cond_status") /\ g.pc = "cond_status" /\ g.desc = f.desc
                           /\ g.i = f.i /\ g.decision = f.decision
    <3>1. "cond_status" \in Labels
      BY LabelsAre
    <3>2. QED
      BY <3>1, FreshIs
  <2>3. mem'[a] = CondCASPtr(d)
    BY <1>2, <1>5 DEF CAS, BaseInv, TypeOK
  <2>4. FrameOK(g)' /\ Follows(g, f)
    <3>1. g.pc \in InstallPCs /\ g.pc \notin HelpPCs /\ g.pc # "cond_swap" /\ g.pc # "help_swap"
      BY <2>2, LabelsAre
    <3>2. QED
      BY <1>2, <1>3, <2>1, <2>2, <2>3, <3>1, InstallGoesOn
  <2>5. Continue(t, g)
    BY <1>2, <1>5, <2>2 DEF Jump
  <2>6. QED
    BY <1>1, <1>2, <2>1, <2>4, <2>5, QuietContinue
<1>6. CASE /\ mem[a].kind = "cond"
           /\ Continue(t, [f EXCEPT !.pc = "help_status", !.seen = mem[a]]) /\ UNCHANGED <<mem, outcome>>
  <2>1. Quiet
    BY <1>1, <1>6, QuietIfSteady
  <2>2. Has(mem[a].of, a) /\ mem[a] = CondCASPtr(mem[a].of)
    BY <1>2, <1>6, PointedTo
  <2>3. PICK g \in Frame : g = [f EXCEPT !.pc = "help_status", !.seen = mem[a]]
    BY <1>4, FrameWith, LabelsAre
  <2>4. g.pc = "help_status" /\ g.desc = f.desc /\ g.i = f.i /\ g.decision = f.decision /\ g.seen = mem[a]
    BY <2>3 DEF Frame
  <2>5. FrameOK(g)' /\ Follows(g, f)
    <3>1. /\ g.pc \in InstallPCs /\ g.pc \notin {"cond_status", "cond_swap"} /\ g.pc # "help_swap"
          /\ g.seen = CondCASPtr(g.seen.of) /\ Has(g.seen.of, Addr(f.desc, f.i))
      BY <2>2, <2>4, LabelsAre
    <3>2. QED
      BY <1>2, <1>3, <2>1, <2>4, <3>1, InstallGoesOn
  <2>6. QED
    BY <1>1, <1>2, <1>6, <2>1, <2>3, <2>5, QuietContinue
<1>7. CASE mem[a] = MwCASPtr(d) /\ Advance(t, "install", "decide") /\ UNCHANGED <<mem, outcome>>
  <2>1. Quiet
    BY <1>1, <1>7, QuietIfSteady
  <2>2. Undecided(d) => Prefix(d, f.i + 1)'
    BY <1>2, <1>3, <1>7, <2>1, PrefixGrows
  <2>3. QED
    BY <1>1, <1>2, <1>3, <1>7, <2>1, <2>2, AdvanceInstall
<1>8. CASE Foreign(mem[a], d) /\ Help(t, f, mem[a].of) /\ UNCHANGED <<mem, outcome>>
  <2>1. Quiet
    BY <1>1, <1>8, QuietIfSteady
  <2>2. mem[a].of \in Descs /\ status[mem[a].of] # "finished"
    BY <1>2, <1>8, PointedTo DEF Foreign
  <2>3. PICK c \in Descs : c = mem[a].of
    BY <2>2
  <2>4. FrameOK(f)' /\ Follows(f, Top(t))
    BY <1>2, <2>1 DEF Quiet, Stable, Follows
  <2>5. QED
    BY <1>1, <1>2, <1>8, <2>1, <2>2, <2>3, <2>4, QuietHelp
<1>9. CASE /\ Continue(t, [f EXCEPT !.pc = "decide", !.decision = "failed"])
           /\ outcome' = IF outcome[d] = "pending" THEN [outcome EXCEPT ![d] = "doomed"] ELSE outcome
           /\ UNCHANGED mem
  BY <1>1, <1>2, <1>9, DoomStep
<1>10. QED
  BY <1>2, <1>5, <1>6, <1>7, <1>8, <1>9 DEF Install

\* Reading the status after the word descriptor is in keeps the invariant.
LEMMA CondStatusStep ==
  ASSUME BaseInv, NEW t \in Threads, CondStatus(t)
  PROVE  BaseInv'
<1>1. At(t, "cond_status") /\ UNCHANGED <<mem, descVars, reads, outcome, result>>
  BY DEF CondStatus
<1>2. PICK f \in Frame : /\ f = Top(t) /\ stack[t] # <<>> /\ f.pc = "cond_status" /\ CallFrameOK(f)
                         /\ Has(f.desc, Addr(f.desc, f.i)) /\ Entry(f).addr = Addr(f.desc, f.i)
  BY <1>1, CallTop, LabelsAre
<1>3. Quiet
  BY <1>1, QuietIfSteady
<1>4. PICK w \in Word : w = Choose(f.desc, Addr(f.desc, f.i)) /\ MaySwap(f.desc, Addr(f.desc, f.i), w)
  BY <1>2, ChooseOK
<1>5. PICK g \in Frame : g = [f EXCEPT !.pc = "cond_swap", !.new = w]
  BY FrameWith, LabelsAre
<1>6. g.pc = "cond_swap" /\ g.desc = f.desc /\ g.i = f.i /\ g.decision = f.decision /\ g.new = w
  BY <1>5 DEF Frame
<1>7. Undecided(f.desc) => mem'[Addr(f.desc, f.i)] \in {CondCASPtr(f.desc), MwCASPtr(f.desc)}
  BY <1>1, <1>2 DEF CallFrameOK
<1>8. FrameOK(g)' /\ Follows(g, f)
  <2>1. f.pc \in InstallPCs /\ g.pc \in InstallPCs /\ g.pc \notin HelpPCs /\ g.pc # "help_swap"
    BY <1>2, <1>6, LabelsAre
  <2>2. QED
    BY <1>2, <1>3, <1>4, <1>6, <1>7, <2>1, InstallGoesOn
<1>9. Continue(t, g)
  BY <1>2, <1>4, <1>5 DEF CondStatus
<1>10. QED
  BY <1>1, <1>2, <1>3, <1>8, <1>9, QuietContinue

\* The second CAS of CondCAS keeps the invariant.
LEMMA CondSwapStep ==
  ASSUME BaseInv, NEW t \in Threads, CondSwap(t)
  PROVE  BaseInv'
<1>1. At(t, "cond_swap") /\ UNCHANGED <<descVars, reads, outcome, result>> /\ Advance(t, "install", "decide")
  BY DEF CondSwap
<1>2. PICK f \in Frame : /\ f = Top(t) /\ stack[t] # <<>> /\ f.pc = "cond_swap" /\ CallFrameOK(f)
                         /\ Entry(f).addr = Addr(f.desc, f.i)
  BY <1>1, CallTop, LabelsAre
<1> DEFINE d == f.desc
           a == Addr(d, f.i)
<1>3. f.pc \in InstallPCs /\ MaySwap(d, a, f.new) /\ CAS(a, f.new, CondCASPtr(d))
  BY <1>2, LabelsAre DEF CallFrameOK, CondSwap
<1>4. f.new \in Word
  BY <1>3, HasTarget, WordsMade DEF MaySwap
<1>5. Quiet /\ (Undecided(d) => mem'[a] = MwCASPtr(d))
  BY <1>1, <1>2, <1>3, <1>4, QuietSwap DEF CallFrameOK
<1>6. Undecided(d) => Prefix(d, f.i + 1)'
  BY <1>2, <1>3, <1>5, PrefixGrows
<1>7. QED
  BY <1>1, <1>2, <1>3, <1>5, <1>6, AdvanceInstall

\* A call in CondCAS that met a word descriptor goes on as g, and the word stays.
LEMMA HelpGoesOn ==
  ASSUME BaseInv, UNCHANGED <<mem, descVars, reads, outcome, result>>,
         NEW t \in Threads, stack[t] # <<>>, NEW f \in Frame, f = Top(t), f.pc \in HelpPCs, CallFrameOK(f),
         NEW g \in Frame, g.pc \in HelpPCs \cup {"install"},
         g.desc = f.desc, g.i = f.i, g.decision = f.decision,
         g.pc \in HelpPCs => g.seen = f.seen,
         g.pc = "help_swap" => MaySwap(f.seen.of, Addr(f.desc, f.i), g.new),
         Continue(t, g)
  PROVE  BaseInv'
<1>1. Quiet
  BY QuietIfSteady
<1>2. f.seen = CondCASPtr(f.seen.of) /\ Has(f.seen.of, Addr(f.desc, f.i))
  BY DEF CallFrameOK
<1>3. FrameOK(g)' /\ Follows(g, f)
  <2>1. /\ f.pc \in InstallPCs /\ g.pc \in InstallPCs /\ g.pc \notin {"cond_status", "cond_swap"}
        /\ g.pc \in HelpPCs => g.seen = CondCASPtr(g.seen.of) /\ Has(g.seen.of, Addr(f.desc, f.i))
        /\ g.pc = "help_swap" => MaySwap(g.seen.of, Addr(f.desc, f.i), g.new)
    BY <1>2, LabelsAre
  <2>2. QED
    BY <1>1, <2>1, InstallGoesOn
<1>4. QED
  BY <1>1, <1>3, QuietContinue

\* Reading the status of a word descriptor that was met keeps the invariant.
LEMMA HelpStatusStep ==
  ASSUME BaseInv, NEW t \in Threads, HelpStatus(t)
  PROVE  BaseInv'
<1>1. At(t, "help_status") /\ UNCHANGED <<mem, descVars, reads, outcome, result>>
  BY DEF HelpStatus
<1>2. PICK f \in Frame : f = Top(t) /\ stack[t] # <<>> /\ f.pc = "help_status" /\ CallFrameOK(f)
  BY <1>1, CallTop, LabelsAre
<1>3. PICK b \in BOOLEAN : b = (status[f.seen.of] = "undecided")
  OBVIOUS
<1>4. PICK g \in Frame : g = [f EXCEPT !.pc = "help_check", !.desired = b]
  BY FrameWith, LabelsAre
<1>5. g.pc = "help_check" /\ g.desc = f.desc /\ g.i = f.i /\ g.decision = f.decision /\ g.seen = f.seen
  BY <1>4 DEF Frame
<1>6. Continue(t, g)
  BY <1>2, <1>3, <1>4 DEF HelpStatus
<1>7. f.pc \in HelpPCs /\ g.pc \in HelpPCs
  BY <1>2, <1>5, LabelsAre
<1>8. QED
  BY <1>1, <1>2, <1>5, <1>6, <1>7, HelpGoesOn

\* Looking whether the word descriptor is still there keeps the invariant.
LEMMA HelpCheckStep ==
  ASSUME BaseInv, NEW t \in Threads, HelpCheck(t)
  PROVE  BaseInv'
<1>1. At(t, "help_check") /\ UNCHANGED <<mem, descVars, reads, outcome, result>>
  BY DEF HelpCheck
<1>2. PICK f \in Frame : f = Top(t) /\ stack[t] # <<>> /\ f.pc = "help_check" /\ CallFrameOK(f)
  BY <1>1, CallTop, LabelsAre
<1>3. f.pc \in HelpPCs /\ "install" \notin HelpPCs
  BY <1>2, LabelsAre
<1>4. CASE Jump(t, "install")
  <2>1. "install" \in Labels
    BY LabelsAre
  <2>2. PICK g \in Frame : /\ g = Fresh(f, "install") /\ g.pc = "install" /\ g.desc = f.desc
                           /\ g.i = f.i /\ g.decision = f.decision
    BY <2>1, FreshIs
  <2>3. Continue(t, g)
    BY <1>2, <1>4, <2>2 DEF Jump
  <2>4. QED
    BY <1>1, <1>2, <1>3, <2>2, <2>3, HelpGoesOn
<1>5. CASE Continue(t, [f EXCEPT !.pc = "help_choose"])
  <2>1. PICK g \in Frame : g = [f EXCEPT !.pc = "help_choose"]
    BY FrameWith, LabelsAre
  <2>2. g.pc = "help_choose" /\ g.desc = f.desc /\ g.i = f.i /\ g.decision = f.decision /\ g.seen = f.seen
    BY <2>1 DEF Frame
  <2>3. g.pc \in HelpPCs
    BY <2>2, LabelsAre
  <2>4. QED
    BY <1>1, <1>2, <1>3, <1>5, <2>1, <2>2, <2>3, HelpGoesOn
<1>6. QED
  BY <1>2, <1>4, <1>5 DEF HelpCheck

\* Reading the status again, for the swap, keeps the invariant.
LEMMA HelpChooseStep ==
  ASSUME BaseInv, NEW t \in Threads, HelpChoose(t)
  PROVE  BaseInv'
<1>1. At(t, "help_choose") /\ UNCHANGED <<mem, descVars, reads, outcome, result>>
  BY DEF HelpChoose
<1>2. PICK f \in Frame : /\ f = Top(t) /\ stack[t] # <<>> /\ f.pc = "help_choose" /\ CallFrameOK(f)
                         /\ Entry(f).addr = Addr(f.desc, f.i)
  BY <1>1, CallTop, LabelsAre
<1>3. f.pc \in HelpPCs /\ Has(f.seen.of, Addr(f.desc, f.i))
  BY <1>2, LabelsAre DEF CallFrameOK
<1>4. PICK w \in Word : w = Choose(f.seen.of, Addr(f.desc, f.i)) /\ MaySwap(f.seen.of, Addr(f.desc, f.i), w)
  BY <1>3, ChooseOK
<1>5. PICK g \in Frame : g = [f EXCEPT !.pc = "help_swap", !.new = w]
  BY FrameWith, LabelsAre
<1>6. /\ g.pc = "help_swap" /\ g.desc = f.desc /\ g.i = f.i /\ g.decision = f.decision
      /\ g.seen = f.seen /\ g.new = w
  BY <1>5 DEF Frame
<1>7. Continue(t, g)
  BY <1>2, <1>4, <1>5 DEF HelpChoose
<1>8. g.pc \in HelpPCs
  BY <1>6, LabelsAre
<1>9. QED
  BY <1>1, <1>2, <1>3, <1>4, <1>6, <1>7, <1>8, HelpGoesOn

\* Replacing the word descriptor of another call keeps the invariant.
LEMMA HelpSwapStep ==
  ASSUME BaseInv, NEW t \in Threads, HelpSwap(t)
  PROVE  BaseInv'
<1>1. At(t, "help_swap") /\ UNCHANGED <<descVars, reads, outcome, result>>
  BY DEF HelpSwap
<1>2. PICK f \in Frame : /\ f = Top(t) /\ stack[t] # <<>> /\ f.pc = "help_swap" /\ CallFrameOK(f)
                         /\ Entry(f).addr = Addr(f.desc, f.i)
  BY <1>1, CallTop, LabelsAre
<1> DEFINE d == f.desc
           a == Addr(d, f.i)
<1>3. /\ f.pc \in InstallPCs /\ MaySwap(f.seen.of, a, f.new) /\ f.seen = CondCASPtr(f.seen.of)
      /\ Has(f.seen.of, a)
  BY <1>2, LabelsAre DEF CallFrameOK
<1>4. PICK c \in Descs : c = f.seen.of /\ status[c] # "finished"
  BY <1>3 DEF Has
<1>5. f.new \in Word
  BY <1>3, HasTarget, WordsMade DEF MaySwap
<1>6. CAS(a, f.new, CondCASPtr(c))
  BY <1>2, <1>3, <1>4 DEF HelpSwap
<1>7. Quiet /\ (Undecided(c) /\ mem[a] = CondCASPtr(c) => mem'[a] = MwCASPtr(c))
  BY <1>1, <1>3, <1>4, <1>5, <1>6, QuietSwap
<1>8. PICK g \in Frame : /\ g = Fresh(f, "install") /\ g.pc = "install" /\ g.desc = f.desc
                         /\ g.i = f.i /\ g.decision = f.decision
  <2>1. "install" \in Labels
    BY LabelsAre
  <2>2. QED
    BY <2>1, FreshIs
<1>9. FrameOK(g)' /\ Follows(g, f)
  <2>1. g.pc \in InstallPCs /\ g.pc \notin HelpPCs /\ g.pc \notin {"cond_status", "cond_swap", "help_swap"}
    BY <1>8, LabelsAre
  <2>2. QED
    BY <1>2, <1>3, <1>7, <1>8, <2>1, InstallGoesOn
<1>10. CASE mem[a] = f.seen /\ f.seen.of = d /\ Advance(t, "install", "decide")
  <2>1. Undecided(d) => Prefix(d, f.i + 1)'
    BY <1>2, <1>3, <1>4, <1>7, <1>10, PrefixGrows
  <2>2. QED
    BY <1>1, <1>2, <1>3, <1>7, <1>10, <2>1, AdvanceInstall
<1>11. CASE Help(t, Fresh(f, "install"), f.seen.of)
  BY <1>1, <1>2, <1>4, <1>7, <1>8, <1>9, <1>11, QuietHelp
<1>12. CASE Jump(t, "install")
  <2>1. Continue(t, g)
    BY <1>2, <1>8, <1>12 DEF Jump
  <2>2. QED
    BY <1>1, <1>2, <1>7, <1>9, <2>1, QuietContinue
<1>13. QED
  BY <1>2, <1>10, <1>11, <1>12 DEF HelpSwap

\* Stopping early keeps the invariant.
LEMMA StopStep ==
  ASSUME BaseInv, NEW t \in Threads, Stop(t)
  PROVE  BaseInv'
<1>1. UNCHANGED <<mem, descVars, reads, outcome, result>> /\ stack' = [stack EXCEPT ![t] = <<>>]
  BY DEF Stop
<1>2. Quiet
  BY <1>1, QuietIfSteady
<1>3. StackInv' /\ stack' \in [Threads -> Seq(Frame)]
  BY <1>1, <1>2, EndStep DEF BaseInv, Quiet
<1>4. QED
  BY <1>1, <1>2, <1>3, QuietDone DEF BaseInv, TypeOK

\* What the CAS of the status does to the descriptors.
LEMMA DecideEffect ==
  ASSUME BaseInv, NEW d \in Descs, status[d] # "finished", NEW s \in {"succeeded", "failed"},
         Undecided(d) \/ s = status[d],
         status' = [status EXCEPT ![d] = s], outcome' = [outcome EXCEPT ![d] = s],
         UNCHANGED <<mem, words, stop, reads, result>>
  PROVE  /\ Stable /\ WordInv' /\ DescInv' /\ status'[d] = s
         /\ status' \in [Descs -> {"finished", "undecided", "succeeded", "failed"}]
         /\ outcome' \in [Descs -> {"idle", "pending", "doomed", "succeeded", "failed"}]
<1>1. /\ status' \in [Descs -> {"finished", "undecided", "succeeded", "failed"}]
      /\ outcome' \in [Descs -> {"idle", "pending", "doomed", "succeeded", "failed"}]
      /\ status'[d] = s /\ outcome'[d] = s
      /\ \A c \in Descs \ {d} : status'[c] = status[c] /\ outcome'[c] = outcome[c]
  BY DEF BaseInv, TypeOK
<1>2. \A c \in Descs : status'[c] # status[c] => Undecided(c) /\ status'[c] \in {"succeeded", "failed"}
  BY <1>1
<1>3. \A c \in Descs : Undecided(c)' /\ outcome[c] = "doomed" => outcome'[c] = "doomed"
  BY <1>1 DEF Undecided
<1>4. Stable /\ WordInv'
  BY <1>1, <1>2, <1>3, StatusEffect
<1>5. ASSUME NEW c \in Descs
      PROVE  /\ status'[c] = "finished" <=> outcome'[c] = "idle"
             /\ status'[c] = "finished" => words'[c] = <<>> /\ result'[c] = "none"
             /\ status'[c] # "finished" => words'[c] \in Ops[c]
             /\ status'[c] \in {"succeeded", "failed"} => outcome'[c] = status'[c]
             /\ Undecided(c)' => outcome'[c] \in {"pending", "doomed"}
  <2>1. CASE c = d
    BY <1>1, <2>1 DEF BaseInv, DescInv, Undecided
  <2>2. CASE c # d
    BY <1>1, <2>2 DEF BaseInv, DescInv, Undecided
  <2>3. QED
    BY <2>1, <2>2
<1>6. QED
  BY <1>1, <1>4, <1>5 DEF DescInv

\* An operation in use has a first target.
LEMMA FirstTarget ==
  ASSUME BaseInv, NEW d \in Descs, status[d] # "finished"
  PROVE  TargetAfter(d, 0) \in Nat /\ IsTarget(d, TargetAfter(d, 0))
<1>1. Len(words[d]) \in Nat /\ \E k \in 1 .. Len(words[d]) : IsTarget(d, k)
  BY InUse
<1>2. PICK j \in Nat : /\ j = TargetAfter(d, 0) /\ j \in 0 + 1 .. Len(words[d]) + 1
                       /\ j <= Len(words[d]) => IsTarget(d, j)
                       /\ \A k \in 0 + 1 .. j - 1 : ~IsTarget(d, k)
  BY <1>1, TargetAfterIs
<1>3. j <= Len(words[d])
  BY <1>1, <1>2
<1>4. QED
  BY <1>2, <1>3

\* A call in phase 2 is as it should be after a step if its word is a target and
\* it knows the outcome.
LEMMA FinalFrame ==
  ASSUME NEW g \in Frame, g.pc = "final", g.desc \in Descs, IsTarget(g.desc, g.i)',
         status'[g.desc] \in {"succeeded", "failed"}, g.decision = status'[g.desc]
  PROVE  FrameOK(g)'
<1>1. CallFrameOK(g)'
  BY DEF CallFrameOK, InstallPCs, HelpPCs, Undecided
<1>2. QED
  BY <1>1 DEF FrameOK, CallPCs, InstallPCs

\* The CAS of the status keeps the invariant.
LEMMA DecideStep ==
  ASSUME BaseInv, NEW t \in Threads, Decide(t)
  PROVE  BaseInv'
<1>1. At(t, "decide") /\ UNCHANGED <<mem, words, stop, reads, result>>
  BY DEF Decide
<1>2. PICK f \in Frame : /\ f = Top(t) /\ stack[t] # <<>> /\ f.pc = "decide" /\ CallFrameOK(f)
                         /\ f.desc \in Descs /\ status[f.desc] # "finished"
  BY <1>1, CallTop, LabelsAre
<1> DEFINE d == f.desc
<1>3. PICK s \in {"succeeded", "failed"} : s = IF status[d] = "undecided" THEN f.decision ELSE status[d]
  <2>1. f.decision \in {"succeeded", "failed"}
    BY DEF Frame
  <2>2. status[d] \in {"undecided", "succeeded", "failed"}
    BY <1>2 DEF BaseInv, TypeOK
  <2>3. QED
    BY <2>1, <2>2
<1>4. status' = [status EXCEPT ![d] = s] /\ outcome' = [outcome EXCEPT ![d] = s]
  BY <1>2, <1>3 DEF Decide
<1>5. PICK j \in Nat : j = TargetAfter(d, 0) /\ IsTarget(d, j)
  BY <1>2, FirstTarget
<1>6. PICK g \in Frame : g = [f EXCEPT !.pc = "final", !.i = j, !.decision = s]
  BY FrameWith, LabelsAre
<1>7. Continue(t, g)
  BY <1>2, <1>3, <1>5, <1>6 DEF Decide
<1>8. g.pc = "final" /\ g.desc = d /\ g.i = j /\ g.decision = s
  BY <1>6 DEF Frame
<1>9. /\ Stable /\ WordInv' /\ DescInv' /\ status'[d] = s
      /\ status' \in [Descs -> {"finished", "undecided", "succeeded", "failed"}]
      /\ outcome' \in [Descs -> {"idle", "pending", "doomed", "succeeded", "failed"}]
  BY <1>1, <1>2, <1>3, <1>4, DecideEffect DEF Undecided
<1>10. FrameOK(g)'
  <2>1. IsTarget(g.desc, g.i)'
    BY <1>1, <1>5, <1>8 DEF IsTarget
  <2>2. QED
    BY <1>2, <1>8, <1>9, <2>1, FinalFrame
<1>11. Follows(g, Top(t))
  BY <1>2, <1>8, LabelsAre DEF Follows
<1>12. StackInv' /\ stack' \in [Threads -> Seq(Frame)]
  BY <1>1, <1>2, <1>7, <1>9, <1>10, <1>11, ContinueStep DEF BaseInv
<1>13. TypeOK'
  BY <1>1, <1>9, <1>12 DEF BaseInv, TypeOK
<1>14. QED
  BY <1>9, <1>12, <1>13 DEF BaseInv

\* Replacing a pointer to a decided operation by a value is quiet.
LEMMA QuietFinal ==
  ASSUME BaseInv, NEW d \in Descs, ~Undecided(d), NEW a \in Words, NEW v \in Values,
         CAS(a, Value(v), MwCASPtr(d)), UNCHANGED <<descVars, outcome, reads>>
  PROVE  Quiet
<1>1. Value(v) \in Word /\ Value(v).kind = "value"
  BY WordsMade, WordFields
<1>2. ASSUME NEW c \in Descs, Undecided(c)
      PROVE  MwCASPtr(d) # MwCASPtr(c) /\ MwCASPtr(d) # CondCASPtr(c) /\ ~Refers(Value(v), c)
  BY <1>2, WordFields DEF Refers
<1>3. QED
  BY <1>1, <1>2, QuietIfCAS

\* Writing a final value keeps the invariant.
LEMMA FinalStep ==
  ASSUME BaseInv, NEW t \in Threads, Final(t)
  PROVE  BaseInv'
<1>1. At(t, "final") /\ UNCHANGED <<descVars, reads, outcome>>
  BY DEF Final
<1>2. PICK f \in Frame : /\ f = Top(t) /\ stack[t] # <<>> /\ f.pc = "final" /\ CallFrameOK(f)
                         /\ f.desc \in Descs /\ status[f.desc] # "finished" /\ Len(words[f.desc]) \in Nat
                         /\ f.i \in 1 .. Len(words[f.desc]) /\ Addr(f.desc, f.i) \in Words
                         /\ Entry(f).addr = Addr(f.desc, f.i)
                         /\ Entry(f).old \in Values /\ Entry(f).new \in Values
  BY <1>1, CallTop, LabelsAre
<1> DEFINE d == f.desc
<1>3. ~Undecided(d) /\ f.decision = status[d]
  BY <1>2 DEF CallFrameOK
<1>4. PICK v \in Values : v = IF f.decision = "succeeded" THEN Entry(f).new ELSE Entry(f).old
  BY <1>2
<1>5. CAS(Addr(d, f.i), Value(v), MwCASPtr(d))
  BY <1>2, <1>4 DEF Final
<1>6. Quiet
  BY <1>1, <1>2, <1>3, <1>5, QuietFinal
<1>7. CASE Return(t)
  BY <1>2, <1>6, <1>7, LabelsAre, QuietReturn
<1>8. CASE ~LastTarget(t) /\ Advance(t, "final", "none") /\ UNCHANGED result
  <2>1. PICK j \in Nat : j = TargetAfter(d, f.i) /\ (j <= Len(words[d]) => IsTarget(d, j))
    BY <1>2, TargetAfterIs
  <2>2. j <= Len(words[d]) /\ IsTarget(d, j)
    BY <1>2, <1>8, <2>1 DEF LastTarget
  <2>3. PICK h \in Frame : h = Fresh(f, "final") /\ [h EXCEPT !.i = j] \in Frame /\ [h EXCEPT !.i = j].pc = "final"
                           /\ [h EXCEPT !.i = j].desc = d /\ [h EXCEPT !.i = j].i = j
                           /\ [h EXCEPT !.i = j].decision = f.decision
    <3>1. "final" \in Labels
      BY LabelsAre
    <3>2. QED
      BY <3>1, FreshIs
  <2>4. PICK g \in Frame : /\ g = [h EXCEPT !.i = j] /\ g.pc = "final" /\ g.desc = d /\ g.i = j
                           /\ g.decision = f.decision
    BY <2>3
  <2>5. Continue(t, g)
    BY <1>2, <1>8, <2>1, <2>2, <2>3, <2>4 DEF Advance
  <2>6. FrameOK(g)'
    <3>1. IsTarget(g.desc, g.i)' /\ status'[g.desc] = status[d]
      BY <1>6, <2>2, <2>4 DEF IsTarget, Quiet
    <3>2. status[d] \in {"succeeded", "failed"}
      BY <1>2, <1>3 DEF BaseInv, TypeOK, Undecided
    <3>3. QED
      BY <1>2, <1>3, <2>4, <3>1, <3>2, FinalFrame
  <2>7. Follows(g, Top(t))
    BY <1>2, <2>4 DEF Follows
  <2>8. QED
    BY <1>2, <1>6, <1>8, <2>5, <2>6, <2>7, QuietContinue
<1>9. QED
  BY <1>7, <1>8 DEF Final

\* A descriptor that was not in use gets an operation: nothing refers to it yet.
LEMMA BeginEffect ==
  ASSUME BaseInv, NEW d \in Descs, status[d] = "finished", NEW op \in Ops[d],
         words' = [words EXCEPT ![d] = op], status' = [status EXCEPT ![d] = "undecided"],
         outcome' = [outcome EXCEPT ![d] = "pending"], UNCHANGED <<mem, result>>
  PROVE  /\ Stable /\ WordInv' /\ DescInv'
         /\ words' \in [Descs -> Seq(EntryType)] /\ status'[d] # "finished"
         /\ status' \in [Descs -> {"finished", "undecided", "succeeded", "failed"}]
         /\ outcome' \in [Descs -> {"idle", "pending", "doomed", "succeeded", "failed"}]
<1>1. /\ words' \in [Descs -> Seq(EntryType)]
      /\ status' \in [Descs -> {"finished", "undecided", "succeeded", "failed"}]
      /\ outcome' \in [Descs -> {"idle", "pending", "doomed", "succeeded", "failed"}]
      /\ status'[d] = "undecided" /\ outcome'[d] = "pending" /\ words'[d] = op
      /\ \A c \in Descs \ {d} : status'[c] = status[c] /\ outcome'[c] = outcome[c] /\ words'[c] = words[c]
  BY OpsAre DEF BaseInv, TypeOK
<1>2. \A c, b, x, k :
        /\ Has(c, b) => Has(c, b)'
        /\ MaySwap(c, b, x) => MaySwap(c, b, x)'
  <2> SUFFICES ASSUME NEW c, NEW b, NEW x, Has(c, b)
               PROVE  Has(c, b)' /\ (MaySwap(c, b, x) => MaySwap(c, b, x)')
    BY DEF MaySwap
  <2>1. c \in Descs \ {d}
    BY DEF Has
  <2>2. QED
    BY <1>1, <2>1 DEF Has, MaySwap, Undecided, EntryFor
<1>3. \A c \in Descs \ {d} : \A k :
        /\ Undecided(c)' <=> Undecided(c)
        /\ IsTarget(c, k)' <=> IsTarget(c, k)
        /\ Addr(c, k)' = Addr(c, k)
        /\ Prefix(c, k)' <=> Prefix(c, k)
  BY <1>1 DEF Undecided, IsTarget, Addr, Prefix
<1>4. WordInv'
  <2>1. ASSUME NEW b \in Words, mem'[b].kind # "value" PROVE Has(mem[b].of, b)'
    BY <1>2, <2>1 DEF BaseInv, WordInv
  <2>2. ASSUME NEW c \in Descs, Undecided(c)', NEW k \in 1 .. Len(words[c])', IsTarget(c, k)',
               Refers(mem[Addr(c, k)], c)'
        PROVE  Prefix(c, k)'
    <3>1. CASE c # d
      <4>1. Undecided(c) /\ k \in 1 .. Len(words[c]) /\ IsTarget(c, k) /\ Refers(mem[Addr(c, k)], c)
        BY <1>1, <1>3, <2>2, <3>1 DEF Refers
      <4>2. QED
        BY <1>3, <3>1, <4>1 DEF BaseInv, WordInv
    <3>2. CASE c = d
      <4>1. op[k].addr \in Words
        BY <1>1, <2>2, <3>2, OpsAre DEF IsTarget, EntryType
      <4>2. mem[op[k].addr].kind # "value" /\ mem[op[k].addr].of = d
        BY <1>1, <2>2, <3>2, WordFields DEF Refers, Addr
      <4>3. Has(d, op[k].addr)
        BY <4>1, <4>2 DEF BaseInv, WordInv
      <4>4. QED
        BY <4>3 DEF Has
    <3>3. QED
      BY <3>1, <3>2
  <2>3. QED
    BY <2>1, <2>2 DEF WordInv
<1>5. ASSUME NEW f \in Frame, ReadFrameOK(f)
      PROVE  ReadFrameOK(f)'
  BY <1>2, <1>5 DEF ReadFrameOK
<1>6. ASSUME NEW f \in Frame, CallFrameOK(f)
      PROVE  CallFrameOK(f)'
  <2>1. f.desc \in Descs \ {d}
    BY <1>6 DEF CallFrameOK
  <2>2. status'[f.desc] = status[f.desc] /\ outcome'[f.desc] = outcome[f.desc] /\ words'[f.desc] = words[f.desc]
    BY <1>1, <2>1
  <2>3. /\ Undecided(f.desc)' <=> Undecided(f.desc)
        /\ IsTarget(f.desc, f.i)' <=> IsTarget(f.desc, f.i)
        /\ Addr(f.desc, f.i)' = Addr(f.desc, f.i)
        /\ Prefix(f.desc, f.i)' <=> Prefix(f.desc, f.i)
        /\ Prefix(f.desc, Len(words[f.desc]) + 1)' <=> Prefix(f.desc, Len(words[f.desc]) + 1)
    BY <1>3, <2>1, <2>2 DEF Prefix
  <2>4. /\ f.pc = "cond_swap" => MaySwap(f.desc, Addr(f.desc, f.i), f.new)'
        /\ f.pc \in HelpPCs => f.seen = CondCASPtr(f.seen.of) /\ Has(f.seen.of, Addr(f.desc, f.i))'
        /\ f.pc = "help_swap" => MaySwap(f.seen.of, Addr(f.desc, f.i), f.new)'
    BY <1>2, <1>6, <2>3 DEF CallFrameOK
  <2>5. QED
    BY <1>6, <2>1, <2>2, <2>3, <2>4 DEF CallFrameOK
<1>7. Stable
  BY <1>5, <1>6 DEF Stable, FrameOK
<1>8. ASSUME NEW c \in Descs
      PROVE  /\ status'[c] = "finished" <=> outcome'[c] = "idle"
             /\ status'[c] = "finished" => words'[c] = <<>> /\ result'[c] = "none"
             /\ status'[c] # "finished" => words'[c] \in Ops[c]
             /\ status'[c] \in {"succeeded", "failed"} => outcome'[c] = status'[c]
             /\ Undecided(c)' => outcome'[c] \in {"pending", "doomed"}
  <2>1. CASE c = d
    BY <1>1, <2>1
  <2>2. CASE c # d
    BY <1>1, <2>2 DEF BaseInv, DescInv, Undecided
  <2>3. QED
    BY <2>1, <2>2
<1>9. QED
  BY <1>1, <1>4, <1>7, <1>8 DEF DescInv

\* Starting an operation keeps the invariant.
LEMMA BeginStep ==
  ASSUME BaseInv, NEW t \in Threads, NEW d \in Descs, Begin(t, d)
  PROVE  BaseInv'
<1>1. /\ Owner[d] = t /\ outcome[d] = "idle"
      /\ status' = [status EXCEPT ![d] = "undecided"] /\ outcome' = [outcome EXCEPT ![d] = "pending"]
      /\ stack' = [stack EXCEPT ![t] = <<Call(d)>>] /\ UNCHANGED <<mem, reads, result>>
  BY DEF Begin
<1>2. PICK op \in Ops[d], s \in Injects[d] : words' = [words EXCEPT ![d] = op] /\ stop' = [stop EXCEPT ![d] = s]
  BY DEF Begin
<1>3. status[d] = "finished" /\ result[d] = "none"
  BY <1>1 DEF BaseInv, DescInv
<1>4. /\ Stable /\ WordInv' /\ DescInv'
      /\ words' \in [Descs -> Seq(EntryType)] /\ status'[d] # "finished"
      /\ status' \in [Descs -> {"finished", "undecided", "succeeded", "failed"}]
      /\ outcome' \in [Descs -> {"idle", "pending", "doomed", "succeeded", "failed"}]
  BY <1>1, <1>2, <1>3, BeginEffect
<1>5. stop' \in [Descs -> {"no", "undecided", "decided"}]
  BY <1>2, VolatileAssumption DEF BaseInv, TypeOK
<1>6. PICK g \in Frame : /\ g = Call(d) /\ g.pc = "enter" /\ g.desc = d /\ g.i = 0
                         /\ g.decision = "succeeded"
  BY CallIs
<1>7. FrameOK(g)'
  <2>1. CallFrameOK(g)'
    BY <1>4, <1>6 DEF CallFrameOK, InstallPCs, HelpPCs
  <2>2. QED
    BY <1>6, <2>1, LabelsAre DEF FrameOK
<1>8. StackInv' /\ stack' \in [Threads -> Seq(Frame)]
  BY <1>1, <1>3, <1>4, <1>6, <1>7, StartStep DEF BaseInv
<1>9. TypeOK'
  BY <1>1, <1>4, <1>5, <1>8 DEF BaseInv, TypeOK
<1>10. QED
  BY <1>4, <1>8, <1>9 DEF BaseInv

\* A call of GetValue.
LEMMA ReadCallIs ==
  ASSUME NEW a \in Words
  PROVE  ReadCall(a) \in Frame /\ ReadCall(a).pc = "read" /\ ReadCall(a).desc = a
  BY DEF ReadCall, Call, Frame, Labels, CallPCs, ReadPCs

\* Starting a read keeps the invariant.
LEMMA BeginReadStep ==
  ASSUME BaseInv, NEW t \in Threads, NEW a \in Words, BeginRead(t, a)
  PROVE  BaseInv'
<1>1. /\ reads[t] > 0 /\ reads' = [reads EXCEPT ![t] = @ - 1]
      /\ stack' = [stack EXCEPT ![t] = <<ReadCall(a)>>] /\ UNCHANGED <<mem, descVars, outcome, result>>
  BY DEF BeginRead
<1>2. reads' \in [Threads -> Nat]
  BY <1>1 DEF BaseInv, TypeOK
<1>3. UNCHANGED <<mem, status, words, stop, outcome, result>>
  BY <1>1 DEF descVars
<1>4. Stable /\ WordInv'
  <2>1. status' \in [Descs -> {"finished", "undecided", "succeeded", "failed"}]
    BY <1>3 DEF BaseInv, TypeOK
  <2>2. QED
    BY <1>3, <2>1, StatusEffect
<1>5. DescInv'
  BY <1>3 DEF BaseInv, DescInv, Undecided
<1>6. PICK g \in Frame : g = ReadCall(a) /\ g.pc = "read" /\ g.desc = a
  BY ReadCallIs
<1>7. FrameOK(g)' /\ g.pc \notin CallPCs
  <2>1. ReadFrameOK(g)'
    BY <1>6 DEF ReadFrameOK
  <2>2. QED
    BY <1>6, <2>1, LabelsAre DEF FrameOK
<1>8. StackInv' /\ stack' \in [Threads -> Seq(Frame)]
  BY <1>1, <1>3, <1>4, <1>6, <1>7, StartStep DEF BaseInv
<1>9. TypeOK'
  BY <1>2, <1>3, <1>8 DEF BaseInv, TypeOK
<1>10. QED
  BY <1>4, <1>5, <1>8, <1>9 DEF BaseInv

\* A call of GetValue is as it should be after a quiet step if it knows what it
\* has to know where it is now.
LEMMA ReadGoesOn ==
  ASSUME BaseInv, Quiet, NEW f \in Frame, f.pc \in ReadPCs, f.desc \in Words,
         NEW g \in Frame, g.pc \in ReadPCs, g.desc = f.desc,
         g.pc # "read" => g.seen = CondCASPtr(g.seen.of) /\ Has(g.seen.of, f.desc),
         g.pc = "read_swap" => MaySwap(g.seen.of, f.desc, g.new)
  PROVE  FrameOK(g)' /\ Follows(g, f)
<1>1. \A c, b, x : /\ Has(c, b) => Has(c, b)'
                   /\ MaySwap(c, b, x) => MaySwap(c, b, x)'
  BY DEF Quiet, Has, Undecided, MaySwap, EntryFor
<1>2. ReadFrameOK(g)'
  BY <1>1 DEF ReadFrameOK
<1>3. QED
  BY <1>2, LabelsAre DEF FrameOK, Follows

\* Reading a word keeps the invariant.
LEMMA ReadStep ==
  ASSUME BaseInv, NEW t \in Threads, Read(t)
  PROVE  BaseInv'
<1>1. At(t, "read") /\ UNCHANGED <<mem, descVars, reads, outcome, result>>
  BY DEF Read
<1>2. PICK f \in Frame : /\ f = Top(t) /\ stack[t] # <<>> /\ f.pc = "read" /\ FrameOK(f)
                         /\ f.desc \in Words
  BY <1>1, ReadTop, LabelsAre
<1>3. Quiet
  BY <1>1, QuietIfSteady
<1> DEFINE w == mem[f.desc]
<1>4. CASE w.kind = "cond" /\ Continue(t, [f EXCEPT !.pc = "read_status", !.seen = w])
  <2>1. w \in Word /\ w = CondCASPtr(w.of) /\ Has(w.of, f.desc)
    BY <1>2, <1>4, PointedTo
  <2>2. PICK g \in Frame : g = [f EXCEPT !.pc = "read_status", !.seen = w]
    BY <2>1, FrameWith, LabelsAre
  <2>3. g.pc = "read_status" /\ g.desc = f.desc /\ g.seen = w
    BY <2>2 DEF Frame
  <2>4. FrameOK(g)' /\ Follows(g, f)
    <3>1. f.pc \in ReadPCs /\ g.pc \in ReadPCs /\ g.pc # "read_swap"
      BY <1>2, <2>3, LabelsAre
    <3>2. QED
      BY <1>2, <1>3, <2>1, <2>3, <3>1, ReadGoesOn
  <2>5. QED
    BY <1>1, <1>2, <1>3, <1>4, <2>2, <2>4, QuietContinue
<1>5. CASE w.kind = "mwcas" /\ Help(t, f, w.of)
  <2>1. PICK c \in Descs : c = w.of /\ status[c] # "finished"
    BY <1>2, <1>5, PointedTo
  <2>2. FrameOK(f)' /\ Follows(f, Top(t))
    BY <1>2, <1>3 DEF Quiet, Stable, Follows
  <2>3. QED
    BY <1>1, <1>2, <1>3, <1>5, <2>1, <2>2, QuietHelp
<1>6. CASE stack' = [stack EXCEPT ![t] = <<>>]
  <2>1. StackInv' /\ stack' \in [Threads -> Seq(Frame)]
    BY <1>1, <1>3, <1>6, EndStep DEF BaseInv, Quiet
  <2>2. QED
    BY <1>1, <1>3, <2>1, QuietDone DEF BaseInv, TypeOK
<1>7. QED
  BY <1>2, <1>4, <1>5, <1>6 DEF Read

\* Reading the status of the word descriptor that a read met keeps the invariant.
LEMMA ReadStatusStep ==
  ASSUME BaseInv, NEW t \in Threads, ReadStatus(t)
  PROVE  BaseInv'
<1>1. At(t, "read_status") /\ UNCHANGED <<mem, descVars, reads, outcome, result>>
  BY DEF ReadStatus
<1>2. PICK f \in Frame : /\ f = Top(t) /\ stack[t] # <<>> /\ f.pc = "read_status"
                         /\ ReadFrameOK(f) /\ f.desc \in Words
  BY <1>1, ReadTop, LabelsAre
<1>3. Quiet
  BY <1>1, QuietIfSteady
<1>4. f.seen = CondCASPtr(f.seen.of) /\ Has(f.seen.of, f.desc)
  BY <1>2 DEF ReadFrameOK
<1>5. PICK w \in Word : w = Choose(f.seen.of, f.desc) /\ MaySwap(f.seen.of, f.desc, w)
  BY <1>4, ChooseOK
<1>6. PICK g \in Frame : g = [f EXCEPT !.pc = "read_swap", !.new = w]
  BY FrameWith, LabelsAre
<1>7. g.pc = "read_swap" /\ g.desc = f.desc /\ g.seen = f.seen /\ g.new = w
  BY <1>6 DEF Frame
<1>8. FrameOK(g)' /\ Follows(g, f)
  <2>1. f.pc \in ReadPCs /\ g.pc \in ReadPCs
    BY <1>2, <1>7, LabelsAre
  <2>2. QED
    BY <1>2, <1>3, <1>4, <1>5, <1>7, <2>1, ReadGoesOn
<1>9. Continue(t, g)
  BY <1>2, <1>5, <1>6 DEF ReadStatus
<1>10. QED
  BY <1>1, <1>2, <1>3, <1>8, <1>9, QuietContinue

\* Replacing that word descriptor keeps the invariant.
LEMMA ReadSwapStep ==
  ASSUME BaseInv, NEW t \in Threads, ReadSwap(t)
  PROVE  BaseInv'
<1>1. At(t, "read_swap") /\ UNCHANGED <<descVars, reads, outcome, result>>
  BY DEF ReadSwap
<1>2. PICK f \in Frame : /\ f = Top(t) /\ stack[t] # <<>> /\ f.pc = "read_swap"
                         /\ ReadFrameOK(f) /\ f.desc \in Words
  BY <1>1, ReadTop, LabelsAre
<1>3. f.seen = CondCASPtr(f.seen.of) /\ MaySwap(f.seen.of, f.desc, f.new)
  BY <1>2 DEF ReadFrameOK
<1>4. f.new \in Word
  BY <1>3, HasTarget, WordsMade DEF MaySwap
<1>5. CAS(f.desc, f.new, CondCASPtr(f.seen.of))
  BY <1>2, <1>3 DEF ReadSwap
<1>6. Quiet
  BY <1>1, <1>3, <1>4, <1>5, QuietSwap
<1>7. PICK g \in Frame : g = Fresh(f, "read") /\ g.pc = "read" /\ g.desc = f.desc
  <2>1. "read" \in Labels
    BY LabelsAre
  <2>2. QED
    BY <2>1, FreshIs
<1>8. FrameOK(g)' /\ Follows(g, f)
  <2>1. f.pc \in ReadPCs /\ g.pc \in ReadPCs /\ g.pc # "read_swap"
    BY <1>2, <1>7, LabelsAre
  <2>2. QED
    BY <1>2, <1>6, <1>7, <2>1, ReadGoesOn
<1>9. Continue(t, g)
  BY <1>2, <1>7 DEF ReadSwap, Jump
<1>10. QED
  BY <1>1, <1>2, <1>6, <1>8, <1>9, QuietContinue

\* The invariant holds at first.
LEMMA BaseInit ==
  ASSUME Init
  PROVE  BaseInv
<1>1. TypeOK
  BY VolatileAssumption, WordsMade DEF Init, TypeOK
<1>2. StackInv
  BY DEF Init, StackInv
<1>3. DescInv
  BY DEF Init, DescInv, Undecided
<1>4. WordInv
  BY WordFields DEF Init, WordInv, Undecided
<1>5. QED
  BY <1>1, <1>2, <1>3, <1>4 DEF BaseInv

\* The invariant is kept when nothing changes.
LEMMA BaseStutter ==
  ASSUME BaseInv, UNCHANGED vars
  PROVE  BaseInv'
<1>1. UNCHANGED <<mem, status, words, stop, stack, reads, outcome, result>>
  BY DEF vars, descVars
<1>2. Quiet
  BY <1>1, QuietIfSteady DEF descVars
<1>3. StackInv'
  <2>1. ASSUME NEW u \in Threads, NEW k \in 1 .. Len(stack[u]) PROVE FrameOK(stack[u][k])'
    <3>1. PICK f \in Frame : f = stack[u][k]
      BY DEF BaseInv, TypeOK
    <3>2. FrameOK(f)
      BY <3>1 DEF BaseInv, StackInv
    <3>3. FrameOK(f)'
      BY <1>2, <3>2 DEF Quiet, Stable
    <3>4. QED
      BY <1>1, <3>1, <3>3
  <2>2. \A u \in Threads : stack'[u] # <<>> => BottomOK(u)'
    BY <1>1 DEF BaseInv, StackInv, BottomOK, Bottom
  <2>3. QED
    BY <1>1, <2>1, <2>2 DEF StackInv
<1>4. QED
  BY <1>1, <1>2, <1>3, QuietDone DEF BaseInv, TypeOK

\* Every step keeps the invariant.
LEMMA BaseNext ==
  ASSUME BaseInv, [Next]_vars
  PROVE  BaseInv'
<1>1. CASE UNCHANGED vars
  BY <1>1, BaseStutter
<1>2. ASSUME NEW t \in Threads, Step(t) PROVE BaseInv'
  BY <1>2, EnterStep, InstallStep, CondStatusStep, CondSwapStep, HelpStatusStep, HelpCheckStep, HelpChooseStep,
     HelpSwapStep, StopStep, DecideStep, FinalStep, ReadStep, ReadStatusStep, ReadSwapStep DEF Step
<1>3. ASSUME NEW t \in Threads, NEW d \in Descs, Begin(t, d) PROVE BaseInv'
  BY <1>3, BeginStep
<1>4. ASSUME NEW t \in Threads, NEW a \in Words, BeginRead(t, a) PROVE BaseInv'
  BY <1>4, BeginReadStep
<1>5. QED
  BY <1>1, <1>2, <1>3, <1>4 DEF Next

\* The invariant holds throughout.
LEMMA BaseAlways == Spec => []BaseInv
<1>1. Init => BaseInv
  BY BaseInit
<1>2. BaseInv /\ [Next]_vars => BaseInv'
  BY BaseNext
<1>3. QED
  BY <1>1, <1>2, PTL DEF Spec

\* VolatileMwCAS keeps its types: in particular words hold values and pointers to
\* descriptors, and the calls that a thread is in are well-formed.
THEOREM TypeCorrect == Spec => []TypeOK
<1>1. BaseInv => TypeOK
  BY DEF BaseInv
<1>2. QED
  BY <1>1, BaseAlways, PTL

-----------------------------------------------------------------------------
(***************************************************************************)
(* Threads do not help in a circle.                                        *)
(***************************************************************************)

\* What every step leaves alone: the entries of operations, that they are
\* decided, and the words that an undecided operation has.
Kept ==
  \A d \in Descs : status[d] # "finished" =>
    /\ words'[d] = words[d]
    /\ Undecided(d)' => /\ Undecided(d)
                        /\ \A b \in Words : mem[b] = MwCASPtr(d) => mem'[b] = MwCASPtr(d)

CallsOK(s) == \A k \in 1 .. Len(s) : FrameOK(s[k])

\* A call that others wait for, and one that waits, are calls on descriptors in
\* use; the word that is waited for is one of theirs.
LEMMA WaitingCalls ==
  ASSUME BaseInv, NEW s \in Seq(Frame), CallsOK(s), Waits(s)
  PROVE  /\ \A k \in 1 .. Len(s) - 1 : /\ s[k].pc \in CallPCs
                                       /\ s[k].desc \in Descs /\ status[s[k].desc] # "finished"
         /\ \A k \in 1 .. Len(s) : s[k].pc \in InstallPCs =>
              /\ s[k].desc \in Descs /\ status[s[k].desc] # "finished"
              /\ IsTarget(s[k].desc, s[k].i) /\ WaitWord(s[k]) \in Words
         /\ \A k \in 2 .. Len(s) - 1 : s[k].pc = "install"
<1>1. ASSUME NEW k \in 1 .. Len(s), s[k].pc \in CallPCs
      PROVE  CallFrameOK(s[k]) /\ s[k].desc \in Descs /\ status[s[k].desc] # "finished"
  <2>1. FrameOK(s[k]) /\ s[k].pc \notin ReadPCs
    BY <1>1, LabelsAre DEF CallsOK
  <2>2. QED
    BY <2>1 DEF FrameOK, CallFrameOK
<1>2. ASSUME NEW k \in 1 .. Len(s) - 1
      PROVE  /\ s[k].pc \in CallPCs /\ s[k].desc \in Descs /\ status[s[k].desc] # "finished"
             /\ k >= 2 => s[k].pc = "install"
  <2>1. k + 1 \in 2 .. Len(s) /\ (k + 1) - 1 = k /\ k \in 1 .. Len(s)
    OBVIOUS
  <2>2. s[k].pc \in CallPCs
    BY <2>1 DEF Waits
  <2>3. k >= 2 => s[k].pc \in {"install", "read"}
    BY <2>1 DEF Waits
  <2>4. QED
    BY <1>1, <2>1, <2>2, <2>3, LabelsAre
<1>3. ASSUME NEW k \in 1 .. Len(s), s[k].pc \in InstallPCs
      PROVE  /\ s[k].desc \in Descs /\ status[s[k].desc] # "finished"
             /\ IsTarget(s[k].desc, s[k].i) /\ WaitWord(s[k]) \in Words
  <2>1. CallFrameOK(s[k]) /\ s[k].desc \in Descs /\ status[s[k].desc] # "finished"
    BY <1>1, <1>3, LabelsAre
  <2>2. IsTarget(s[k].desc, s[k].i)
    BY <1>3, <2>1 DEF CallFrameOK
  <2>3. QED
    BY <2>1, <2>2, InUse DEF IsTarget, WaitWord
<1>4. QED
  BY <1>2, <1>3

\* The calls of a thread stay in order when another thread takes a step.
LEMMA KeptOrder ==
  ASSUME BaseInv, Kept, NEW Below, NEW s \in Seq(Frame), CallsOK(s), HelpOrder(Below, s)
  PROVE  HelpOrder(Below, s)'
<1>1. Waits(s) /\ Rises(Below, s) /\ NoCircle(s)
  BY DEF HelpOrder
<1>2. Len(s) \in Nat
  OBVIOUS
<1>3. \A k \in 1 .. Len(s) - 1 : Undecided(s[k].desc)' => Undecided(s[k].desc)
  BY <1>1, WaitingCalls DEF Kept
<1>4. \A k \in 1 .. Len(s) : k <= Len(s) - 1 \/ s[k].pc \in InstallPCs => WaitWord(s[k])' = WaitWord(s[k])
  <2> SUFFICES ASSUME NEW k \in 1 .. Len(s), k <= Len(s) - 1 \/ s[k].pc \in InstallPCs
               PROVE  WaitWord(s[k])' = WaitWord(s[k])
    OBVIOUS
  <2>1. s[k].desc \in Descs /\ status[s[k].desc] # "finished"
    <3>1. k <= Len(s) - 1 => k \in 1 .. Len(s) - 1
      BY <1>2
    <3>2. QED
      BY <1>1, <3>1, WaitingCalls
  <2>2. QED
    BY <2>1 DEF Kept, WaitWord, Addr
<1>5. Waits(s)'
  <2> SUFFICES ASSUME NEW k \in 2 .. Len(s)
               PROVE  /\ s[k].pc \in {"install", "read"} /\ s[k - 1].pc \in CallPCs
                      /\ s[k].pc = "install" =>
                           /\ s[k].desc # s[k - 1].desc
                           /\ Undecided(s[k - 1].desc)' => mem[WaitWord(s[k])]' = MwCASPtr(s[k - 1].desc)
    BY DEF Waits
  <2>1. k \in 1 .. Len(s) /\ k - 1 \in 1 .. Len(s) - 1
    BY <1>2
  <2>2. /\ s[k].pc \in {"install", "read"} /\ s[k - 1].pc \in CallPCs
        /\ s[k].pc = "install" => s[k].desc # s[k - 1].desc
    BY <1>1 DEF Waits
  <2>3. ASSUME s[k].pc = "install", Undecided(s[k - 1].desc)'
        PROVE  mem[WaitWord(s[k])]' = MwCASPtr(s[k - 1].desc)
    <3>1. s[k - 1].desc \in Descs /\ status[s[k - 1].desc] # "finished"
      BY <1>1, <2>1, WaitingCalls
    <3>2. s[k].pc \in InstallPCs
      BY <2>3, LabelsAre
    <3>3. WaitWord(s[k]) \in Words /\ WaitWord(s[k])' = WaitWord(s[k])
      BY <1>1, <1>4, <2>1, <3>2, WaitingCalls
    <3>4. Undecided(s[k - 1].desc)
      BY <1>3, <2>1, <2>3
    <3>5. mem[WaitWord(s[k])] = MwCASPtr(s[k - 1].desc)
      BY <1>1, <2>3, <3>4 DEF Waits
    <3>6. QED
      BY <2>3, <3>1, <3>3, <3>5 DEF Kept
  <2>4. QED
    BY <2>2, <2>3
<1>6. Rises(Below, s)'
  <2> SUFFICES ASSUME NEW i \in 2 .. Len(s), NEW j \in 2 .. Len(s), i < j, s[j].pc = "install",
                      \A k \in i .. j - 1 : Undecided(s[k].desc)'
               PROVE  <<WaitWord(s[j]), WaitWord(s[i])>>' \in Below
    BY DEF Rises
  <2>1. \A k \in i .. j - 1 : Undecided(s[k].desc)
    <3>1. \A k \in i .. j - 1 : k \in 1 .. Len(s) - 1
      BY <1>2
    <3>2. QED
      BY <1>3, <3>1
  <2>2. <<WaitWord(s[j]), WaitWord(s[i])>> \in Below
    BY <1>1, <2>1 DEF Rises
  <2>3. WaitWord(s[j])' = WaitWord(s[j]) /\ WaitWord(s[i])' = WaitWord(s[i])
    <3>1. i \in 1 .. Len(s) /\ j \in 1 .. Len(s) /\ i <= Len(s) - 1 /\ s[j].pc \in InstallPCs
      BY <1>2, LabelsAre
    <3>2. QED
      BY <1>4, <3>1
  <2>4. QED
    BY <2>2, <2>3
<1>7. NoCircle(s)'
  <2> SUFFICES ASSUME NEW i \in 1 .. Len(s), NEW j \in 1 .. Len(s), i < j, s[i].pc \in InstallPCs,
                      s[j].pc = "install", s[i].desc = s[j].desc
               PROVE  \E k \in i + 1 .. j - 1 : ~Undecided(s[k].desc)'
    BY DEF NoCircle
  <2>1. PICK k \in i + 1 .. j - 1 : ~Undecided(s[k].desc)
    BY <1>1 DEF NoCircle
  <2>2. k \in 1 .. Len(s) - 1
    BY <1>2
  <2>3. QED
    BY <1>3, <2>1, <2>2
<1>8. QED
  BY <1>5, <1>6, <1>7 DEF HelpOrder

\* The innermost call goes on as g: unless it enters the install loop, the calls
\* stay in order.
LEMMA ContinueOrder ==
  ASSUME NEW Below, NEW s \in Seq(Frame), s # <<>>, HelpOrder(Below, s)',
         NEW g \in Frame, Follows(g, s[1]), g.pc \in InstallPCs => s[1].pc \in InstallPCs
  PROVE  HelpOrder(Below, <<g>> \o Tail(s))'
<1>1. Waits(s)' /\ Rises(Below, s)' /\ NoCircle(s)'
  BY DEF HelpOrder
<1>2. PICK n \in Seq(Frame) : /\ n = <<g>> \o Tail(s) /\ Len(n) = Len(s) /\ n[1] = g
                              /\ \A k \in 2 .. Len(s) : n[k] = s[k]
  BY ReplaceTop
<1>3. /\ Len(s) \in Nat /\ n[1].desc = s[1].desc /\ (s[1].pc \in CallPCs => n[1].pc \in CallPCs)
      /\ n[1].pc \in InstallPCs => s[1].pc \in InstallPCs
  BY <1>2 DEF Follows
<1>4. \A k \in 1 .. Len(s) : /\ n[k].desc = s[k].desc /\ (s[k].pc \in CallPCs => n[k].pc \in CallPCs)
                             /\ n[k].pc \in InstallPCs => s[k].pc \in InstallPCs
                             /\ k # 1 => n[k] = s[k]
  <2> SUFFICES ASSUME NEW k \in 1 .. Len(s)
               PROVE  /\ n[k].desc = s[k].desc /\ (s[k].pc \in CallPCs => n[k].pc \in CallPCs)
                      /\ n[k].pc \in InstallPCs => s[k].pc \in InstallPCs
                      /\ k # 1 => n[k] = s[k]
    OBVIOUS
  <2>1. k = 1 \/ k \in 2 .. Len(s)
    BY <1>3
  <2>2. QED
    BY <1>2, <1>3, <2>1
<1>5. Waits(n)'
  <2> SUFFICES ASSUME NEW k \in 2 .. Len(n)
               PROVE  /\ n[k].pc \in {"install", "read"} /\ n[k - 1].pc \in CallPCs
                      /\ n[k].pc = "install" =>
                           /\ n[k].desc # n[k - 1].desc
                           /\ Undecided(n[k - 1].desc)' => mem[WaitWord(n[k])]' = MwCASPtr(n[k - 1].desc)
    BY DEF Waits
  <2>1. k \in 2 .. Len(s) /\ k - 1 \in 1 .. Len(s) /\ n[k] = s[k]
    BY <1>2, <1>3
  <2>2. n[k - 1].desc = s[k - 1].desc /\ (s[k - 1].pc \in CallPCs => n[k - 1].pc \in CallPCs)
    BY <1>4, <2>1
  <2>3. QED
    BY <1>1, <2>1, <2>2 DEF Waits
<1>6. Rises(Below, n)'
  <2> SUFFICES ASSUME NEW i \in 2 .. Len(n), NEW j \in 2 .. Len(n), i < j, n[j].pc = "install",
                      \A k \in i .. j - 1 : Undecided(n[k].desc)'
               PROVE  <<WaitWord(n[j]), WaitWord(n[i])>>' \in Below
    BY DEF Rises
  <2>1. i \in 2 .. Len(s) /\ j \in 2 .. Len(s) /\ n[i] = s[i] /\ n[j] = s[j]
    BY <1>2, <1>3
  <2>2. \A k \in i .. j - 1 : n[k] = s[k]
    BY <1>2, <1>3, <2>1
  <2>3. \A k \in i .. j - 1 : Undecided(s[k].desc)'
    BY <2>2
  <2>4. QED
    BY <1>1, <2>1, <2>3 DEF Rises
<1>7. NoCircle(n)'
  <2> SUFFICES ASSUME NEW i \in 1 .. Len(n), NEW j \in 1 .. Len(n), i < j, n[i].pc \in InstallPCs,
                      n[j].pc = "install", n[i].desc = n[j].desc
               PROVE  \E k \in i + 1 .. j - 1 : ~Undecided(n[k].desc)'
    BY DEF NoCircle
  <2>1. i \in 1 .. Len(s) /\ j \in 1 .. Len(s) /\ s[i].pc \in InstallPCs /\ s[j].pc = "install" /\ s[i].desc = s[j].desc
    BY <1>2, <1>3, <1>4
  <2>2. PICK k \in i + 1 .. j - 1 : ~Undecided(s[k].desc)'
    BY <1>1, <2>1 DEF NoCircle
  <2>3. n[k] = s[k]
    BY <1>2, <1>3, <2>1, <2>2
  <2>4. QED
    BY <2>2, <2>3
<1>8. QED
  BY <1>2, <1>5, <1>6, <1>7 DEF HelpOrder

\* The innermost call returns: those below stay in order.
LEMMA PopOrder ==
  ASSUME NEW Below, NEW s \in Seq(Frame), s # <<>>, HelpOrder(Below, s)'
  PROVE  HelpOrder(Below, Tail(s))'
<1>1. Waits(s)' /\ Rises(Below, s)' /\ NoCircle(s)'
  BY DEF HelpOrder
<1>2. PICK n \in Seq(Frame) : /\ n = Tail(s) /\ Len(n) = Len(s) - 1
                              /\ \A k \in 1 .. Len(s) - 1 : n[k] = s[k + 1]
  BY PopTop
<1>3. Len(s) \in Nat
  OBVIOUS
<1>4. Waits(n)'
  <2> SUFFICES ASSUME NEW k \in 2 .. Len(n)
               PROVE  /\ n[k].pc \in {"install", "read"} /\ n[k - 1].pc \in CallPCs
                      /\ n[k].pc = "install" =>
                           /\ n[k].desc # n[k - 1].desc
                           /\ Undecided(n[k - 1].desc)' => mem[WaitWord(n[k])]' = MwCASPtr(n[k - 1].desc)
    BY DEF Waits
  <2>1. PICK m \in 2 .. Len(s) : m = k + 1
    BY <1>2, <1>3
  <2>2. k \in 1 .. Len(s) - 1 /\ k - 1 \in 1 .. Len(s) - 1 /\ k + 1 = m /\ (k - 1) + 1 = m - 1
    BY <1>2, <1>3, <2>1
  <2>3. n[k] = s[m] /\ n[k - 1] = s[m - 1]
    BY <1>2, <2>2
  <2>4. QED
    BY <1>1, <2>3 DEF Waits
<1>5. Rises(Below, n)'
  <2> SUFFICES ASSUME NEW i \in 2 .. Len(n), NEW j \in 2 .. Len(n), i < j, n[j].pc = "install",
                      \A k \in i .. j - 1 : Undecided(n[k].desc)'
               PROVE  <<WaitWord(n[j]), WaitWord(n[i])>>' \in Below
    BY DEF Rises
  <2>1. PICK p \in 2 .. Len(s), q \in 2 .. Len(s) : p = i + 1 /\ q = j + 1
    BY <1>2, <1>3
  <2>2. n[i] = s[p] /\ n[j] = s[q] /\ p < q
    BY <1>2, <1>3, <2>1
  <2>3. ASSUME NEW k \in p .. q - 1 PROVE Undecided(s[k].desc)'
    <3>1. PICK m \in i .. j - 1 : k = m + 1
      BY <2>1
    <3>2. m \in 1 .. Len(s) - 1
      BY <1>2, <1>3
    <3>3. s[k] = n[m]
      BY <1>2, <3>1, <3>2
    <3>4. QED
      BY <3>3
  <2>4. QED
    BY <1>1, <2>2, <2>3 DEF Rises
<1>6. NoCircle(n)'
  <2> SUFFICES ASSUME NEW i \in 1 .. Len(n), NEW j \in 1 .. Len(n), i < j, n[i].pc \in InstallPCs,
                      n[j].pc = "install", n[i].desc = n[j].desc
               PROVE  \E k \in i + 1 .. j - 1 : ~Undecided(n[k].desc)'
    BY DEF NoCircle
  <2>1. PICK p \in 1 .. Len(s), q \in 1 .. Len(s) : p = i + 1 /\ q = j + 1
    BY <1>2, <1>3
  <2>2. n[i] = s[p] /\ n[j] = s[q] /\ p < q
    BY <1>2, <1>3, <2>1
  <2>3. PICK k \in p + 1 .. q - 1 : ~Undecided(s[k].desc)'
    BY <1>1, <2>2 DEF NoCircle
  <2>4. PICK m \in i + 1 .. j - 1 : k = m + 1
    BY <2>1
  <2>5. m \in 1 .. Len(s) - 1
    BY <1>2, <1>3
  <2>6. s[k] = n[m]
    BY <1>2, <2>4, <2>5
  <2>7. QED
    BY <2>3, <2>6
<1>7. QED
  BY <1>2, <1>4, <1>5, <1>6 DEF HelpOrder

\* One call alone is in order, and so is none.
LEMMA ShortOrder ==
  ASSUME NEW Below, NEW n \in Seq(Frame), Len(n) <= 1
  PROVE  HelpOrder(Below, n)'
<1>1. Len(n) \in Nat
  OBVIOUS
<1>2. Waits(n)'
  BY <1>1 DEF Waits
<1>3. Rises(Below, n)'
  BY <1>1 DEF Rises
<1>4. NoCircle(n)'
  BY <1>1 DEF NoCircle
<1>5. QED
  BY <1>2, <1>3, <1>4 DEF HelpOrder

\* The words that an undecided operation has come before those it waits for.
LEMMA HeldBefore ==
  ASSUME BaseInv, NEW Below, WordsOrdered(Below), NEW d \in Descs, Undecided(d),
         NEW a \in Words, mem[a] = MwCASPtr(d),
         NEW i, IsTarget(d, i), mem[Addr(d, i)] # MwCASPtr(d)
  PROVE  <<a, Addr(d, i)>> \in Below
<1>1. Has(d, a)
  BY WordFields DEF BaseInv, WordInv
<1>2. PICK p \in 1 .. Len(words[d]) : IsTarget(d, p) /\ Addr(d, p) = a
  BY <1>1, HasTarget
<1>3. Prefix(d, p)
  BY <1>2 DEF BaseInv, WordInv, Refers
<1>4. i \in 1 .. Len(words[d]) /\ Len(words[d]) \in Nat /\ words[d] \in Ops[d] /\ DOMAIN words[d] = 1 .. Len(words[d])
  BY InUse, OpsAre DEF IsTarget, Undecided
<1>5. i # p
  BY <1>2
<1>6. ~(i < p)
  <2> SUFFICES ASSUME i < p PROVE FALSE
    OBVIOUS
  <2>1. i \in 1 .. p - 1
    BY <1>2, <1>4
  <2>2. QED
    BY <1>3, <2>1 DEF Prefix
<1>7. p < i
  BY <1>2, <1>4, <1>5, <1>6
<1>8. QED
  BY <1>2, <1>4, <1>7 DEF WordsOrdered, IsTarget, Addr

\* The innermost call, which found its word with another operation, calls
\* VolatileMwCAS for that one: the words still rise from call to call, because the
\* operation at hand has the word that the call below waits for, and that comes
\* before the word at hand.
LEMMA PushOrder ==
  ASSUME BaseInv, Kept, UNCHANGED <<status, words>>,
         NEW Below, WordsOrdered(Below),
         NEW s \in Seq(Frame), s # <<>>, CallsOK(s), HelpOrder(Below, s),
         NEW g \in Frame, g.desc = s[1].desc, g.i = s[1].i,
         \/ g.pc = "install" /\ s[1].pc \in InstallPCs
         \/ g.pc = "read" /\ s[1].pc \in ReadPCs,
         NEW h \in Frame, h.pc = "enter",
         g.pc = "install" => /\ h.desc # g.desc /\ mem[WaitWord(g)] # MwCASPtr(g.desc)
                             /\ Undecided(h.desc) => mem'[WaitWord(g)] = MwCASPtr(h.desc)
  PROVE  HelpOrder(Below, <<h, g>> \o Tail(s))'
<1>1. Waits(s) /\ Rises(Below, s) /\ NoCircle(s) /\ Waits(s)'
  BY KeptOrder DEF HelpOrder
<1>14. PICK n \in Seq(Frame) : n = <<h, g>> \o Tail(s)
  BY PushTop
<1>2. /\ n = <<h, g>> \o Tail(s) /\ Len(n) = Len(s) + 1 /\ n[1] = h /\ n[2] = g
      /\ \A k \in 3 .. Len(s) + 1 : n[k] = s[k - 1]
  BY <1>14, PushTop
<1>3. Len(s) \in Nat \ {0}
  BY PopTop
<1>12. ASSUME NEW l \in Nat \ {0}, l # 1 PROVE 1 \in 1 .. l - 1 /\ 1 \in 1 .. l /\ 2 \in 1 .. l /\ 2 \in 2 .. l
  BY <1>12
<1>13. ASSUME NEW k, NEW l \in Nat \ {0}, k \in 2 .. l PROVE l # 1
  BY <1>13
<1>4. \A c, f : /\ Undecided(c)' <=> Undecided(c)
                /\ WaitWord(f)' = WaitWord(f)
  BY DEF Undecided, WaitWord, Addr
<1>5. \A k \in 2 .. Len(s) + 1 : n[k].desc = s[k - 1].desc /\ WaitWord(n[k]) = WaitWord(s[k - 1])
  <2> SUFFICES ASSUME NEW k \in 2 .. Len(s) + 1
               PROVE  n[k].desc = s[k - 1].desc /\ n[k].i = s[k - 1].i
    BY DEF WaitWord
  <2>1. k = 2 \/ k \in 3 .. Len(s) + 1
    BY <1>3
  <2>2. QED
    BY <1>2, <2>1
<1>6. g.pc = "read" => Len(s) = 1
  <2> SUFFICES ASSUME g.pc = "read", Len(s) # 1 PROVE FALSE
    OBVIOUS
  <2>1. 1 \in 1 .. Len(s) - 1
    BY <1>3, <1>12
  <2>2. s[1].pc \in CallPCs
    BY <1>1, <2>1, WaitingCalls
  <2>3. QED
    BY <2>2, LabelsAre
<1>7. Waits(n)'
  <2> SUFFICES ASSUME NEW k \in 2 .. Len(n)
               PROVE  /\ n[k].pc \in {"install", "read"} /\ n[k - 1].pc \in CallPCs
                      /\ n[k].pc = "install" =>
                           /\ n[k].desc # n[k - 1].desc
                           /\ Undecided(n[k - 1].desc)' => mem[WaitWord(n[k])]' = MwCASPtr(n[k - 1].desc)
    BY DEF Waits
  <2>1. CASE k = 2
    <3>1. n[k] = g /\ n[k - 1] = h
      BY <1>2, <2>1
    <3>2. mem[WaitWord(g)]' = mem'[WaitWord(g)]
      BY <1>4
    <3>3. QED
      BY <1>4, <3>1, <3>2, LabelsAre
  <2>2. CASE k # 2
    <3>1. k \in 3 .. Len(s) + 1 /\ k - 1 \in 2 .. Len(s) + 1 /\ k - 1 \in 2 .. Len(s)
      BY <1>2, <1>3, <2>2
    <3>2. n[k] = s[k - 1] /\ n[k - 1].desc = s[(k - 1) - 1].desc
      BY <1>2, <1>5, <3>1
    <3>3. n[k - 1].pc \in CallPCs
      <4>1. CASE k - 1 = 2
        <5>1. Len(s) # 1
          BY <1>3, <1>13, <3>1
        <5>2. n[k - 1].pc = "install"
          BY <1>2, <1>6, <4>1, <5>1
        <5>3. QED
          BY <5>2, LabelsAre
      <4>2. CASE k - 1 # 2
        <5>1. k - 1 \in 3 .. Len(s) + 1
          BY <3>1, <4>2
        <5>2. n[k - 1] = s[(k - 1) - 1]
          BY <1>2, <5>1
        <5>3. QED
          BY <1>1, <3>1, <5>2 DEF Waits
      <4>3. QED
        BY <4>1, <4>2
    <3>4. QED
      BY <1>1, <3>1, <3>2, <3>3, SMTT(40) DEF Waits
  <2>3. QED
    BY <2>1, <2>2
<1>8. Rises(Below, n)
  <2> SUFFICES ASSUME NEW i \in 2 .. Len(n), NEW j \in 2 .. Len(n), i < j, n[j].pc = "install",
                      \A k \in i .. j - 1 : Undecided(n[k].desc)
               PROVE  <<WaitWord(n[j]), WaitWord(n[i])>> \in Below
    BY DEF Rises
  <2>1. PICK p \in 1 .. Len(s), q \in 2 .. Len(s) : i = p + 1 /\ j = q + 1 /\ p < q
    <3>1. i - 1 \in 1 .. Len(s) /\ j - 1 \in 2 .. Len(s) /\ i = (i - 1) + 1 /\ j = (j - 1) + 1 /\ i - 1 < j - 1
      BY <1>2, <1>3
    <3>2. QED
      BY <3>1
  <2>2. i \in 2 .. Len(s) + 1 /\ j \in 3 .. Len(s) + 1 /\ i - 1 = p /\ j - 1 = q
    BY <1>2, <1>3, <2>1
  <2>3. WaitWord(n[i]) = WaitWord(s[p]) /\ n[j] = s[q]
    BY <1>2, <1>5, <2>2
  <2>4. ASSUME NEW k \in p .. q - 1 PROVE Undecided(s[k].desc)
    <3>1. k + 1 \in i .. j - 1 /\ k + 1 \in 2 .. Len(s) + 1 /\ (k + 1) - 1 = k
      BY <1>3, <2>1, <2>2
    <3>2. n[k + 1].desc = s[k].desc
      BY <1>5, <3>1
    <3>3. QED
      BY <3>1, <3>2
  <2>5. CASE p # 1
    <3>1. p \in 2 .. Len(s)
      BY <2>1, <2>5
    <3>2. QED
      BY <1>1, <2>1, <2>3, <2>4, <3>1 DEF Rises
  <2>6. CASE p = 1
    <3>1. 1 \in p .. q - 1 /\ 2 \in 2 .. Len(s) /\ 1 \in 1 .. Len(s) /\ 2 \in 1 .. Len(s) /\ Len(s) # 1
      <4>1. Len(s) # 1
        BY <1>3, <1>13, <2>1
      <4>2. 1 \in p .. q - 1
        BY <2>1, <2>6
      <4>3. QED
        BY <1>3, <1>12, <4>1, <4>2
    <3>2. g.pc = "install" /\ Undecided(g.desc)
      BY <1>6, <2>4, <3>1
    <3>3. s[2].pc = "install"
      <4>1. q = 2 \/ 2 \in 2 .. Len(s) - 1
        BY <1>3, <2>1
      <4>2. QED
        BY <1>1, <2>3, <4>1, WaitingCalls
    <3>4. mem[WaitWord(s[2])] = MwCASPtr(g.desc)
      BY <1>1, <3>1, <3>2, <3>3, SMTT(40) DEF Waits
    <3>5. WaitWord(s[2]) \in Words /\ g.desc \in Descs /\ IsTarget(g.desc, g.i) /\ WaitWord(s[1]) \in Words
      BY <1>1, <3>1, <3>2, <3>3, WaitingCalls, LabelsAre
    <3>6. <<WaitWord(s[2]), WaitWord(s[1])>> \in Below
      <4>1. WaitWord(g) = Addr(g.desc, g.i) /\ WaitWord(s[1]) = Addr(g.desc, g.i)
        BY DEF WaitWord
      <4>2. QED
        BY <3>2, <3>4, <3>5, <4>1, HeldBefore
    <3>7. CASE q = 2
      BY <2>3, <2>6, <3>6, <3>7
    <3>8. CASE q # 2
      <4>1. 2 < q /\ \A k \in 2 .. q - 1 : k \in p .. q - 1
        BY <2>1, <2>6, <3>8
      <4>2. <<WaitWord(s[q]), WaitWord(s[2])>> \in Below
        BY <1>1, <2>3, <2>4, <3>1, <4>1 DEF Rises
      <4>3. WaitWord(s[q]) \in Words
        <5>1. q \in 1 .. Len(s) /\ s[q].pc \in InstallPCs
          BY <2>1, <2>3, LabelsAre
        <5>2. QED
          BY <1>1, <5>1, WaitingCalls
      <4>4. QED
        BY <2>3, <2>6, <3>5, <3>6, <4>2, <4>3 DEF WordsOrdered
    <3>9. QED
      BY <3>7, <3>8
  <2>7. QED
    BY <2>5, <2>6
<1>9. NoCircle(n)
  <2> SUFFICES ASSUME NEW i \in 1 .. Len(n), NEW j \in 1 .. Len(n), i < j, n[i].pc \in InstallPCs,
                      n[j].pc = "install", n[i].desc = n[j].desc
               PROVE  \E k \in i + 1 .. j - 1 : ~Undecided(n[k].desc)
    BY DEF NoCircle
  <2>1. i # 1
    BY <1>2 DEF InstallPCs
  <2>2. PICK p \in 1 .. Len(s), q \in 2 .. Len(s) : i = p + 1 /\ j = q + 1 /\ p < q
    <3>1. i - 1 \in 1 .. Len(s) /\ j - 1 \in 2 .. Len(s) /\ i = (i - 1) + 1 /\ j = (j - 1) + 1 /\ i - 1 < j - 1
      BY <1>2, <1>3, <2>1
    <3>2. QED
      BY <3>1
  <2>3. i \in 2 .. Len(s) + 1 /\ j \in 3 .. Len(s) + 1 /\ i - 1 = p /\ j - 1 = q
    BY <1>2, <1>3, <2>2
  <2>4. n[i].desc = s[p].desc /\ n[j] = s[q]
    BY <1>2, <1>5, <2>3
  <2>5. s[p].pc \in InstallPCs
    <3>1. CASE p = 1
      BY <1>2, <2>2, <3>1, LabelsAre DEF InstallPCs
    <3>2. CASE p # 1
      <4>1. i \in 3 .. Len(s) + 1
        BY <2>2, <2>3, <3>2
      <4>2. QED
        BY <1>2, <2>3, <4>1
    <3>3. QED
      BY <3>1, <3>2
  <2>6. PICK k \in p + 1 .. q - 1 : ~Undecided(s[k].desc)
    <3>1. q \in 1 .. Len(s)
      BY <2>2
    <3>2. QED
      BY <1>1, <2>2, <2>4, <2>5, <3>1 DEF NoCircle
  <2>7. k + 1 \in i + 1 .. j - 1 /\ k + 1 \in 2 .. Len(s) + 1 /\ (k + 1) - 1 = k
    BY <1>3, <2>2, <2>6
  <2>8. n[k + 1].desc = s[k].desc
    BY <1>5, <2>7
  <2>9. QED
    BY <2>6, <2>7, <2>8
<1>10. Rises(Below, n)' /\ NoCircle(n)'
  BY <1>4, <1>8, <1>9 DEF Rises, NoCircle
<1>11. QED
  BY <1>2, <1>7, <1>10 DEF HelpOrder

\* The innermost call enters the install loop of an undecided operation.  If the
\* thread were in the middle of it already, by way of undecided ones alone, the
\* operation would wait for a word before one that it has.
LEMMA EnterOrder ==
  ASSUME BaseInv, NEW Below, WordsOrdered(Below),
         NEW s \in Seq(Frame), s # <<>>, CallsOK(s), HelpOrder(Below, s),
         s[1].pc = "enter", Undecided(s[1].desc),
         NEW j \in 2 .. Len(s), s[j].pc = "install", s[j].desc = s[1].desc
  PROVE  \E k \in 2 .. j - 1 : ~Undecided(s[k].desc)
<1>1. Waits(s) /\ Rises(Below, s)
  BY DEF HelpOrder
<1>2. Len(s) \in Nat
  OBVIOUS
<1> DEFINE d == s[1].desc
<1> SUFFICES ASSUME \A k \in 2 .. j - 1 : Undecided(s[k].desc) PROVE FALSE
  OBVIOUS
<1>3. j # 2
  BY <1>1 DEF Waits
<1>4. /\ 2 < j /\ j - 1 \in 2 .. j - 1 /\ 2 \in 2 .. Len(s) - 1 /\ 1 \in 1 .. Len(s) - 1
      /\ j \in 1 .. Len(s) /\ 2 \in 2 .. Len(s) /\ 2 \in 1 .. Len(s)
  BY <1>2, <1>3
<1>5. s[2].pc = "install" /\ s[2].pc \in InstallPCs /\ s[j].pc \in InstallPCs
  BY <1>1, <1>4, WaitingCalls, LabelsAre
<1>6. d \in Descs /\ WaitWord(s[2]) \in Words /\ WaitWord(s[j]) \in Words /\ IsTarget(d, s[j].i)
  BY <1>1, <1>4, <1>5, WaitingCalls
<1>7. mem[WaitWord(s[2])] = MwCASPtr(d)
  BY <1>1, <1>4, <1>5 DEF Waits
<1>8. mem[WaitWord(s[j])] # MwCASPtr(d)
  <2>1. Undecided(s[j - 1].desc)
    BY <1>4
  <2>2. mem[WaitWord(s[j])] = MwCASPtr(s[j - 1].desc) /\ s[j].desc # s[j - 1].desc
    BY <1>1, <2>1 DEF Waits
  <2>3. QED
    BY <2>2, WordFields
<1>9. <<WaitWord(s[2]), WaitWord(s[j])>> \in Below
  <2>1. WaitWord(s[j]) = Addr(d, s[j].i)
    BY DEF WaitWord
  <2>2. QED
    BY <1>6, <1>7, <1>8, <2>1, HeldBefore
<1>10. <<WaitWord(s[j]), WaitWord(s[2])>> \in Below
  BY <1>1, <1>4 DEF Rises
<1>11. QED
  BY <1>6, <1>9, <1>10 DEF WordsOrdered

\* A step keeps the calls in order if it leaves those of one thread in order.
LEMMA OrderStep ==
  ASSUME BaseInv, Kept, NEW Below, HelpInv(Below), NEW t \in Threads, NEW n \in Seq(Frame),
         stack' = [stack EXCEPT ![t] = n], HelpOrder(Below, n)'
  PROVE  HelpInv(Below)'
<1>1. stack'[t] = n /\ \A u \in Threads \ {t} : stack'[u] = stack[u]
  BY DEF BaseInv, TypeOK
<1>2. ASSUME NEW u \in Threads, u # t PROVE HelpOrder(Below, stack[u])'
  <2>1. PICK s \in Seq(Frame) : s = stack[u]
    BY DEF BaseInv, TypeOK
  <2>2. CallsOK(s)
    BY <2>1 DEF BaseInv, StackInv, CallsOK
  <2>3. HelpOrder(Below, s)
    BY <2>1 DEF HelpInv
  <2>4. HelpOrder(Below, s)'
    BY <2>2, <2>3, KeptOrder
  <2>5. stack'[u] = s
    BY <1>1, <1>2, <2>1
  <2>6. QED
    BY <2>4, <2>5
<1>3. HelpOrder(Below, stack[t])'
  BY <1>1
<1>4. QED
  BY <1>2, <1>3 DEF HelpInv

\* The calls of a thread that is in one.
LEMMA CallsOf ==
  ASSUME BaseInv, NEW Below, HelpInv(Below), NEW t \in Threads, stack[t] # <<>>
  PROVE  \E s \in Seq(Frame) : /\ s = stack[t] /\ s # <<>> /\ s[1] = Top(t) /\ CallsOK(s)
                               /\ HelpOrder(Below, s)
<1>1. PICK s \in Seq(Frame) : s = stack[t] /\ s # <<>>
  BY DEF BaseInv, TypeOK
<1>2. CallsOK(s) /\ HelpOrder(Below, s)
  BY <1>1 DEF BaseInv, StackInv, CallsOK, HelpInv
<1>3. s[1] = Top(t)
  BY <1>1, PopTop DEF Top
<1>4. QED
  BY <1>1, <1>2, <1>3

\* The innermost call goes on, without entering the install loop.
LEMMA OrderContinue ==
  ASSUME BaseInv, Kept, NEW Below, HelpInv(Below), NEW t \in Threads, stack[t] # <<>>,
         NEW g \in Frame, Follows(g, Top(t)), g.pc \in InstallPCs => Top(t).pc \in InstallPCs,
         Continue(t, g)
  PROVE  HelpInv(Below)'
<1>1. PICK s \in Seq(Frame) : /\ s = stack[t] /\ s # <<>> /\ s[1] = Top(t) /\ CallsOK(s)
                              /\ HelpOrder(Below, s)
  BY CallsOf
<1>2. HelpOrder(Below, s)'
  BY <1>1, KeptOrder
<1>3. HelpOrder(Below, <<g>> \o Tail(s))'
  BY <1>1, <1>2, ContinueOrder
<1>4. PICK n \in Seq(Frame) : n = <<g>> \o Tail(s)
  BY <1>1, ReplaceTop
<1>5. stack' = [stack EXCEPT ![t] = n]
  BY <1>1, <1>4 DEF Continue, BaseInv, TypeOK
<1>6. QED
  BY <1>3, <1>4, <1>5, OrderStep

\* The innermost call returns.
LEMMA OrderReturn ==
  ASSUME BaseInv, Kept, NEW Below, HelpInv(Below), NEW t \in Threads, stack[t] # <<>>, Return(t)
  PROVE  HelpInv(Below)'
<1>1. PICK s \in Seq(Frame) : s = stack[t] /\ s # <<>> /\ CallsOK(s) /\ HelpOrder(Below, s)
  BY CallsOf
<1>2. HelpOrder(Below, s)'
  BY <1>1, KeptOrder
<1>3. HelpOrder(Below, Tail(s))'
  BY <1>1, <1>2, PopOrder
<1>4. PICK n \in Seq(Frame) : n = Tail(s)
  BY <1>1, PopTop
<1>5. stack' = [stack EXCEPT ![t] = n]
  BY <1>1, <1>4 DEF Return, BaseInv, TypeOK
<1>6. QED
  BY <1>3, <1>4, <1>5, OrderStep

\* A thread starts a call, or ends all its calls.
LEMMA OrderShort ==
  ASSUME BaseInv, Kept, NEW Below, HelpInv(Below), NEW t \in Threads,
         NEW n \in Seq(Frame), Len(n) <= 1, stack' = [stack EXCEPT ![t] = n]
  PROVE  HelpInv(Below)'
  BY ShortOrder, OrderStep

\* The innermost call goes on as g and helps c.
LEMMA OrderHelp ==
  ASSUME BaseInv, Kept, UNCHANGED <<status, words>>, NEW Below, WordsOrdered(Below), HelpInv(Below),
         NEW t \in Threads, stack[t] # <<>>,
         NEW g \in Frame, g.desc = Top(t).desc, g.i = Top(t).i,
         \/ g.pc = "install" /\ Top(t).pc \in InstallPCs
         \/ g.pc = "read" /\ Top(t).pc \in ReadPCs,
         NEW c \in Descs,
         g.pc = "install" => /\ c # g.desc /\ mem[WaitWord(g)] # MwCASPtr(g.desc)
                             /\ Undecided(c) => mem'[WaitWord(g)] = MwCASPtr(c),
         Help(t, g, c)
  PROVE  HelpInv(Below)'
<1>1. PICK s \in Seq(Frame) : /\ s = stack[t] /\ s # <<>> /\ s[1] = Top(t) /\ CallsOK(s)
                              /\ HelpOrder(Below, s)
  BY CallsOf
<1>2. PICK h \in Frame : h = Call(c) /\ h.pc = "enter" /\ h.desc = c
  BY CallIs
<1>3. HelpOrder(Below, <<h, g>> \o Tail(s))'
  BY <1>1, <1>2, PushOrder
<1>4. PICK n \in Seq(Frame) : n = <<h, g>> \o Tail(s)
  BY <1>1, PushTop
<1>5. stack' = [stack EXCEPT ![t] = n]
  BY <1>1, <1>2, <1>4 DEF Help, BaseInv, TypeOK
<1>6. QED
  BY <1>3, <1>4, <1>5, OrderStep

\* A CAS that finds no pointer to an undecided operation leaves alone what steps
\* leave alone.
LEMMA KeptIfCAS ==
  ASSUME BaseInv, NEW a, NEW w, NEW want, CAS(a, w, want), UNCHANGED <<status, words>>,
         \A d \in Descs : Undecided(d) => want # MwCASPtr(d)
  PROVE  Kept
  BY DEF CAS, Kept, Undecided, BaseInv, TypeOK

\* So does a step that changes no word and at most decides operations.
LEMMA KeptIfStatus ==
  ASSUME UNCHANGED <<mem, words>>,
         \A d \in Descs : status'[d] # status[d] => status'[d] # "undecided" \/ status[d] = "finished"
  PROVE  Kept
  BY DEF Kept, Undecided

\* The next entry of the phase, or the next phase.
LEMMA AdvanceIs ==
  ASSUME BaseInv, NEW t \in Threads, NEW f \in Frame, f = Top(t),
         f.desc \in Descs, status[f.desc] # "finished", f.i \in 0 .. Len(words[f.desc]),
         NEW p \in Labels, NEW q, Advance(t, p, q),
         q \in Labels \/ TargetAfter(f.desc, f.i) <= Len(words[f.desc])
  PROVE  \E g \in Frame : /\ Continue(t, g) /\ g.desc = f.desc
                          /\ g.pc \in {p, q} /\ g.pc \in Labels
<1>1. PICK j \in Nat : j = TargetAfter(f.desc, f.i)
  BY InUse, TargetAfterIs
<1>2. PICK l \in Labels : /\ l = IF j > Len(words[f.desc]) THEN q ELSE p
                          /\ l \in {p, q}
  <2>1. Len(words[f.desc]) \in Nat
    BY InUse
  <2>2. j > Len(words[f.desc]) => q \in Labels
    BY <1>1, <2>1
  <2>3. QED
    BY <2>2
<1>3. PICK g \in Frame : g = [Fresh(f, l) EXCEPT !.i = j]
  <2> DEFINE h == [Fresh(f, l) EXCEPT !.i = j]
  <2>1. h \in Frame
    BY FreshIs
  <2> HIDE DEF h
  <2>2. \E g \in Frame : g = h
    BY <2>1
  <2>3. QED
    BY <2>2 DEF h
<1>4. g.pc = l /\ g.desc = f.desc
  BY <1>3, FreshIs, SMTT(40)
<1>5. Continue(t, g)
  BY <1>1, <1>2, <1>3, <1>4 DEF Advance
<1>6. QED
  BY <1>2, <1>4, <1>5

\* The innermost call stays in the install loop, or leaves it.
LEMMA OrderAdvance ==
  ASSUME BaseInv, Kept, NEW Below, HelpInv(Below), NEW t \in Threads, NEW l \in InstallPCs, At(t, l),
         Advance(t, "install", "decide")
  PROVE  HelpInv(Below)'
<1>1. PICK f \in Frame : /\ f = Top(t) /\ stack[t] # <<>> /\ f.pc = l
                         /\ f.desc \in Descs /\ status[f.desc] # "finished"
                         /\ Len(words[f.desc]) \in Nat /\ f.i \in 1 .. Len(words[f.desc])
  BY CallTop, LabelsAre
<1>2. f.i \in 0 .. Len(words[f.desc]) /\ "install" \in Labels /\ "decide" \in Labels
  BY <1>1, LabelsAre
<1>3. PICK g \in Frame : Continue(t, g) /\ g.desc = f.desc /\ g.pc \in {"install", "decide"}
  BY <1>1, <1>2, AdvanceIs
<1>4. Follows(g, Top(t)) /\ Top(t).pc \in InstallPCs
  BY <1>1, <1>3, LabelsAre DEF Follows
<1>5. QED
  BY <1>1, <1>3, <1>4, OrderContinue

\* A step of a call that changes no shared variable but outcome.
LEMMA KeptIfSteady ==
  ASSUME UNCHANGED <<mem, descVars>>
  PROVE  Kept
<1>1. UNCHANGED <<mem, status, words>>
  BY DEF descVars
<1>2. QED
  BY <1>1, KeptIfStatus

\* Entering VolatileMwCAS keeps the calls in order.
LEMMA OrderEnter ==
  ASSUME BaseInv, NEW Below, WordsOrdered(Below), HelpInv(Below), NEW t \in Threads, Enter(t)
  PROVE  HelpInv(Below)'
<1>1. At(t, "enter") /\ UNCHANGED <<mem, descVars>>
  BY DEF Enter
<1>2. PICK f \in Frame : /\ f = Top(t) /\ stack[t] # <<>> /\ f.pc = "enter" /\ CallFrameOK(f)
                         /\ f.desc \in Descs /\ status[f.desc] # "finished" /\ Len(words[f.desc]) \in Nat
  BY <1>1, CallTop, LabelsAre
<1>3. Kept
  BY <1>1, KeptIfSteady
<1>4. CASE status[f.desc] = "undecided" /\ Advance(t, "install", "decide")
  <2>1. f.i \in 0 .. Len(words[f.desc]) /\ "install" \in Labels /\ "decide" \in Labels
    BY <1>2, LabelsAre DEF CallFrameOK
  <2>2. PICK g \in Frame : Continue(t, g) /\ g.desc = f.desc /\ g.pc \in {"install", "decide"}
    BY <1>2, <1>4, <2>1, AdvanceIs
  <2>3. PICK s \in Seq(Frame) : /\ s = stack[t] /\ s # <<>> /\ s[1] = Top(t) /\ CallsOK(s)
                                /\ HelpOrder(Below, s)
    BY <1>2, CallsOf
  <2>4. PICK n \in Seq(Frame) : n = <<g>> \o Tail(s)
    BY <2>3, ReplaceTop
  <2>5. Len(n) = Len(s) /\ n[1] = g /\ \A k \in 2 .. Len(s) : n[k] = s[k]
    BY <2>3, <2>4, ReplaceTop
  <2>6. stack' = [stack EXCEPT ![t] = n]
    BY <2>2, <2>3, <2>4 DEF Continue, BaseInv, TypeOK
  <2>7. UNCHANGED <<mem, status, words>>
    BY <1>1 DEF descVars
  <2>8. HelpOrder(Below, s)'
    BY <1>3, <2>3, KeptOrder
  <2>9. Len(s) \in Nat
    BY <2>3
  <2>10. Follows(g, f)
    BY <1>2, <2>2, LabelsAre DEF Follows
  \* All but the circles through the innermost call: as if it went on otherwise.
  <2>11. PICK e \in Frame : e = [g EXCEPT !.pc = "decide"]
    BY FrameWith, LabelsAre
  <2>12. e.desc = g.desc /\ e.pc = "decide" /\ e.pc \in CallPCs /\ e.pc \notin InstallPCs
    BY <2>11, LabelsAre DEF Frame, InstallPCs
  <2>13. PICK m \in Seq(Frame) : m = <<e>> \o Tail(s)
    BY <2>3, ReplaceTop
  <2>14. Len(m) = Len(s) /\ m[1] = e /\ \A k \in 2 .. Len(s) : m[k] = s[k]
    BY <2>3, <2>13, ReplaceTop
  <2>15. HelpOrder(Below, m)'
    <3>1. Follows(e, s[1])
      BY <1>2, <2>2, <2>3, <2>12, LabelsAre DEF Follows
    <3>2. QED
      BY <2>3, <2>8, <2>12, <2>13, <3>1, ContinueOrder
  <2>16. /\ \A k \in 1 .. Len(s) : n[k].desc = m[k].desc /\ (k # 1 => n[k] = m[k])
         /\ \A k \in 1 .. Len(s) : m[k].pc \in CallPCs => n[k].pc \in CallPCs
    <3>1. \A k \in 1 .. Len(s) : k = 1 \/ k \in 2 .. Len(s)
      BY <2>9
    <3>2. g.pc \in CallPCs
      BY <2>2, LabelsAre
    <3>3. QED
      BY <2>5, <2>12, <2>14, <3>1, <3>2
  <2>17. Waits(n)'
    <3> SUFFICES ASSUME NEW k \in 2 .. Len(n)
                 PROVE  /\ n[k].pc \in {"install", "read"} /\ n[k - 1].pc \in CallPCs
                        /\ n[k].pc = "install" =>
                             /\ n[k].desc # n[k - 1].desc
                             /\ Undecided(n[k - 1].desc)' => mem[WaitWord(n[k])]' = MwCASPtr(n[k - 1].desc)
      BY DEF Waits
    <3>1. k \in 2 .. Len(m) /\ k \in 1 .. Len(s) /\ k - 1 \in 1 .. Len(s) /\ n[k] = m[k]
      BY <2>5, <2>9, <2>14, <2>16
    <3>2. n[k - 1].desc = m[k - 1].desc /\ (m[k - 1].pc \in CallPCs => n[k - 1].pc \in CallPCs)
      BY <2>16, <3>1
    <3>3. Waits(m)'
      BY <2>15 DEF HelpOrder
    <3>4. QED
      BY <3>1, <3>2, <3>3 DEF Waits
  <2>18. Rises(Below, n)'
    <3> SUFFICES ASSUME NEW i \in 2 .. Len(n), NEW j \in 2 .. Len(n), i < j, n[j].pc = "install",
                        \A k \in i .. j - 1 : Undecided(n[k].desc)'
                 PROVE  <<WaitWord(n[j]), WaitWord(n[i])>>' \in Below
      BY DEF Rises
    <3>1. i \in 2 .. Len(m) /\ j \in 2 .. Len(m) /\ n[i] = m[i] /\ n[j] = m[j]
      BY <2>5, <2>14
    <3>2. \A k \in i .. j - 1 : k \in 2 .. Len(s) /\ n[k] = m[k]
      BY <2>5, <2>9, <2>14
    <3>3. \A k \in i .. j - 1 : Undecided(m[k].desc)'
      BY <3>2
    <3>4. Rises(Below, m)'
      BY <2>15 DEF HelpOrder
    <3>5. QED
      BY <3>1, <3>3, <3>4 DEF Rises
  <2>19. NoCircle(n)'
    <3> SUFFICES ASSUME NEW i \in 1 .. Len(n), NEW j \in 1 .. Len(n), i < j, n[i].pc \in InstallPCs,
                        n[j].pc = "install", n[i].desc = n[j].desc
                 PROVE  \E k \in i + 1 .. j - 1 : ~Undecided(n[k].desc)'
      BY DEF NoCircle
    <3>1. j \in 2 .. Len(s) /\ n[j] = s[j] /\ \A k \in 2 .. j - 1 : k \in 2 .. Len(s) /\ n[k] = s[k]
      BY <2>5, <2>9
    <3>2. CASE i # 1
      <4>1. i \in 2 .. Len(s) /\ n[i] = s[i] /\ i \in 1 .. Len(s) /\ j \in 1 .. Len(s)
        BY <2>5, <2>9, <3>2
      <4>2. PICK k \in i + 1 .. j - 1 : ~Undecided(s[k].desc)'
        BY <2>8, <3>1, <4>1 DEF HelpOrder, NoCircle
      <4>3. k \in 2 .. j - 1
        BY <4>1
      <4>4. QED
        BY <3>1, <4>2, <4>3
    <3>3. CASE i = 1
      <4>1. s[1].pc = "enter" /\ Undecided(s[1].desc) /\ s[j].pc = "install" /\ s[j].desc = s[1].desc
        BY <1>2, <1>4, <2>2, <2>3, <2>5, <3>1, <3>3 DEF Undecided
      <4>2. PICK k \in 2 .. j - 1 : ~Undecided(s[k].desc)
        BY <2>3, <3>1, <4>1, EnterOrder
      <4>3. ~Undecided(n[k].desc)'
        BY <2>7, <3>1, <4>2 DEF Undecided
      <4>4. QED
        BY <3>3, <4>3
    <3>4. QED
      BY <3>2, <3>3
  <2>20. HelpOrder(Below, n)'
    BY <2>17, <2>18, <2>19 DEF HelpOrder
  <2>21. QED
    BY <1>3, <2>6, <2>20, OrderStep
<1>5. CASE Return(t)
  BY <1>2, <1>3, <1>5, OrderReturn
<1>6. QED
  BY <1>2, <1>4, <1>5 DEF Enter

\* The install loop keeps the calls in order.
LEMMA OrderInstall ==
  ASSUME BaseInv, NEW Below, WordsOrdered(Below), HelpInv(Below), NEW t \in Threads, Install(t)
  PROVE  HelpInv(Below)'
<1>1. At(t, "install") /\ UNCHANGED descVars /\ UNCHANGED <<status, words>>
  BY DEF Install, descVars
<1>2. PICK f \in Frame : /\ f = Top(t) /\ stack[t] # <<>> /\ f.pc = "install"
                         /\ f.desc \in Descs /\ Addr(f.desc, f.i) \in Words
                         /\ Entry(f).addr = Addr(f.desc, f.i)
  BY <1>1, CallTop, LabelsAre
<1> DEFINE d == f.desc
           a == Addr(d, f.i)
<1>3. f.pc \in InstallPCs /\ f.pc \in CallPCs
  BY <1>2, LabelsAre
<1>4. mem[a] \in Word
  BY <1>2 DEF BaseInv, TypeOK
<1>5. CASE mem[a] = Value(Entry(f).old) /\ CAS(a, CondCASPtr(d), mem[a]) /\ Jump(t, "cond_status")
  <2>1. Kept
    <3>1. PICK w : w = mem[a]
      OBVIOUS
    <3>2. \A c \in Descs : w # MwCASPtr(c)
      BY <1>5, <3>1, WordFields
    <3>3. QED
      BY <1>1, <1>5, <3>1, <3>2, KeptIfCAS
  <2>2. "cond_status" \in Labels /\ "cond_status" \in CallPCs
    BY LabelsAre
  <2>3. PICK g \in Frame : g = Fresh(f, "cond_status") /\ g.pc = "cond_status" /\ g.desc = f.desc
    BY <2>2, FreshIs
  <2>4. Continue(t, g) /\ Follows(g, Top(t))
    BY <1>2, <1>3, <1>5, <2>2, <2>3 DEF Jump, Follows
  <2>5. QED
    BY <1>2, <1>3, <2>1, <2>4, OrderContinue
<1>6. CASE Continue(t, [f EXCEPT !.pc = "help_status", !.seen = mem[a]]) /\ UNCHANGED mem
  <2>1. Kept
    BY <1>1, <1>6, KeptIfSteady
  <2>2. PICK g \in Frame : g = [f EXCEPT !.pc = "help_status", !.seen = mem[a]]
    BY <1>4, FrameWith, LabelsAre
  <2>3. g.pc = "help_status" /\ g.desc = f.desc
    BY <2>2 DEF Frame
  <2>4. Follows(g, Top(t))
    BY <1>2, <1>3, <2>3, LabelsAre DEF Follows
  <2>5. QED
    BY <1>2, <1>3, <1>6, <2>1, <2>2, <2>4, OrderContinue
<1>7. CASE Advance(t, "install", "decide") /\ UNCHANGED mem
  <2>1. Kept
    BY <1>1, <1>7, KeptIfSteady
  <2>2. QED
    BY <1>1, <1>7, <2>1, LabelsAre, OrderAdvance
<1>8. CASE Foreign(mem[a], d) /\ Help(t, f, mem[a].of) /\ UNCHANGED mem
  <2>1. Kept
    BY <1>1, <1>8, KeptIfSteady
  <2>2. PICK c \in Descs : c = mem[a].of /\ mem[a] = MwCASPtr(c) /\ c # d
    BY <1>4, <1>8, WordKinds DEF Foreign
  <2>3. WaitWord(f) = a /\ mem[a] # MwCASPtr(d) /\ mem'[a] = MwCASPtr(c)
    BY <1>8, <2>2, WordFields DEF WaitWord
  <2>4. QED
    BY <1>1, <1>2, <1>3, <1>8, <2>1, <2>2, <2>3, OrderHelp
<1>9. CASE Continue(t, [f EXCEPT !.pc = "decide", !.decision = "failed"]) /\ UNCHANGED mem
  <2>1. Kept
    BY <1>1, <1>9, KeptIfSteady
  <2>2. PICK g \in Frame : g = [f EXCEPT !.pc = "decide", !.decision = "failed"]
    BY FrameWith, LabelsAre
  <2>3. g.pc = "decide" /\ g.desc = f.desc
    BY <2>2 DEF Frame
  <2>4. Follows(g, Top(t))
    BY <1>2, <1>3, <2>3, LabelsAre DEF Follows
  <2>5. QED
    BY <1>2, <1>3, <1>9, <2>1, <2>2, <2>4, OrderContinue
<1>10. QED
  BY <1>2, <1>5, <1>6, <1>7, <1>8, <1>9 DEF Install

\* A step in which the innermost call, in the install loop, goes on there
\* without touching a shared variable.
LEMMA OrderStay ==
  ASSUME BaseInv, UNCHANGED <<mem, descVars>>, NEW Below, HelpInv(Below),
         NEW t \in Threads, stack[t] # <<>>, Top(t).pc \in InstallPCs,
         NEW g \in Frame, g.pc \in InstallPCs, g.desc = Top(t).desc, Continue(t, g)
  PROVE  HelpInv(Below)'
<1>1. Kept
  BY KeptIfSteady
<1>2. Follows(g, Top(t))
  BY LabelsAre DEF Follows
<1>3. QED
  BY <1>1, <1>2, OrderContinue

\* Reading the status after the word descriptor is in keeps the calls in order.
LEMMA OrderCondStatus ==
  ASSUME BaseInv, NEW Below, HelpInv(Below), NEW t \in Threads, CondStatus(t)
  PROVE  HelpInv(Below)'
<1>1. At(t, "cond_status") /\ UNCHANGED <<mem, descVars>>
  BY DEF CondStatus
<1>2. PICK f \in Frame : /\ f = Top(t) /\ stack[t] # <<>> /\ f.pc = "cond_status"
                         /\ Has(f.desc, Addr(f.desc, f.i)) /\ Entry(f).addr = Addr(f.desc, f.i)
  BY <1>1, CallTop, LabelsAre
<1>3. PICK w \in Word : w = Choose(f.desc, Addr(f.desc, f.i))
  BY <1>2, ChooseOK
<1>4. PICK g \in Frame : g = [f EXCEPT !.pc = "cond_swap", !.new = w]
  BY FrameWith, LabelsAre
<1>5. g.pc = "cond_swap" /\ g.desc = f.desc
  BY <1>4 DEF Frame
<1>6. Continue(t, g)
  BY <1>2, <1>3, <1>4 DEF CondStatus
<1>7. QED
  BY <1>1, <1>2, <1>5, <1>6, LabelsAre, OrderStay

\* The second CAS of CondCAS keeps the calls in order.
LEMMA OrderCondSwap ==
  ASSUME BaseInv, NEW Below, HelpInv(Below), NEW t \in Threads, CondSwap(t)
  PROVE  HelpInv(Below)'
<1>1. At(t, "cond_swap") /\ Advance(t, "install", "decide") /\ UNCHANGED <<status, words>>
  BY DEF CondSwap, descVars
<1>2. CAS(Entry(Top(t)).addr, Top(t).new, CondCASPtr(Top(t).desc))
  BY DEF CondSwap
<1>3. \A d \in Descs : CondCASPtr(Top(t).desc) # MwCASPtr(d)
  BY WordFields
<1>4. Kept
  BY <1>1, <1>2, <1>3, KeptIfCAS
<1>5. QED
  BY <1>1, <1>4, LabelsAre, OrderAdvance

\* Reading the status of a word descriptor that was met keeps the calls in order.
LEMMA OrderHelpStatus ==
  ASSUME BaseInv, NEW Below, HelpInv(Below), NEW t \in Threads, HelpStatus(t)
  PROVE  HelpInv(Below)'
<1>1. At(t, "help_status") /\ UNCHANGED <<mem, descVars>>
  BY DEF HelpStatus
<1>2. PICK f \in Frame : f = Top(t) /\ stack[t] # <<>> /\ f.pc = "help_status"
  BY <1>1, CallTop, LabelsAre
<1>3. PICK b \in BOOLEAN : b = (status[f.seen.of] = "undecided")
  OBVIOUS
<1>4. PICK g \in Frame : g = [f EXCEPT !.pc = "help_check", !.desired = b]
  BY FrameWith, LabelsAre
<1>5. g.pc = "help_check" /\ g.desc = f.desc
  BY <1>4 DEF Frame
<1>6. Continue(t, g)
  BY <1>2, <1>3, <1>4 DEF HelpStatus
<1>7. QED
  BY <1>1, <1>2, <1>5, <1>6, LabelsAre, OrderStay

\* Looking whether the word descriptor is still there keeps the calls in order.
LEMMA OrderHelpCheck ==
  ASSUME BaseInv, NEW Below, HelpInv(Below), NEW t \in Threads, HelpCheck(t)
  PROVE  HelpInv(Below)'
<1>1. At(t, "help_check") /\ UNCHANGED <<mem, descVars>>
  BY DEF HelpCheck
<1>2. PICK f \in Frame : f = Top(t) /\ stack[t] # <<>> /\ f.pc = "help_check"
  BY <1>1, CallTop, LabelsAre
<1>3. "install" \in Labels
  BY LabelsAre
<1>4. CASE Jump(t, "install")
  <2>1. PICK g \in Frame : g = Fresh(f, "install") /\ g.pc = "install" /\ g.desc = f.desc
    BY <1>3, FreshIs
  <2>2. Continue(t, g)
    BY <1>2, <1>4, <2>1 DEF Jump
  <2>3. QED
    BY <1>1, <1>2, <2>1, <2>2, LabelsAre, OrderStay
<1>5. CASE Continue(t, [f EXCEPT !.pc = "help_choose"])
  <2>1. PICK g \in Frame : g = [f EXCEPT !.pc = "help_choose"]
    BY FrameWith, LabelsAre
  <2>2. g.pc = "help_choose" /\ g.desc = f.desc
    BY <2>1 DEF Frame
  <2>3. QED
    BY <1>1, <1>2, <1>5, <2>1, <2>2, LabelsAre, OrderStay
<1>6. QED
  BY <1>2, <1>4, <1>5 DEF HelpCheck

\* Reading the status again, for the swap, keeps the calls in order.
LEMMA OrderHelpChoose ==
  ASSUME BaseInv, NEW Below, HelpInv(Below), NEW t \in Threads, HelpChoose(t)
  PROVE  HelpInv(Below)'
<1>1. At(t, "help_choose") /\ UNCHANGED <<mem, descVars>>
  BY DEF HelpChoose
<1>2. PICK f \in Frame : /\ f = Top(t) /\ stack[t] # <<>> /\ f.pc = "help_choose" /\ CallFrameOK(f)
                         /\ Entry(f).addr = Addr(f.desc, f.i)
  BY <1>1, CallTop, LabelsAre
<1>3. Has(f.seen.of, Addr(f.desc, f.i))
  BY <1>2, LabelsAre DEF CallFrameOK
<1>4. PICK w \in Word : w = Choose(f.seen.of, Addr(f.desc, f.i))
  BY <1>3, ChooseOK
<1>5. PICK g \in Frame : g = [f EXCEPT !.pc = "help_swap", !.new = w]
  BY FrameWith, LabelsAre
<1>6. g.pc = "help_swap" /\ g.desc = f.desc
  BY <1>5 DEF Frame
<1>7. Continue(t, g)
  BY <1>2, <1>4, <1>5 DEF HelpChoose
<1>8. QED
  BY <1>1, <1>2, <1>6, <1>7, LabelsAre, OrderStay

\* Replacing the word descriptor of another call keeps the calls in order.
LEMMA OrderHelpSwap ==
  ASSUME BaseInv, NEW Below, WordsOrdered(Below), HelpInv(Below), NEW t \in Threads, HelpSwap(t)
  PROVE  HelpInv(Below)'
<1>1. At(t, "help_swap") /\ UNCHANGED <<descVars, outcome, reads>> /\ UNCHANGED <<status, words>>
  BY DEF HelpSwap, descVars
<1>2. PICK f \in Frame : /\ f = Top(t) /\ stack[t] # <<>> /\ f.pc = "help_swap" /\ CallFrameOK(f)
                         /\ Entry(f).addr = Addr(f.desc, f.i)
  BY <1>1, CallTop, LabelsAre
<1> DEFINE d == f.desc
           a == Addr(d, f.i)
<1>3. /\ f.pc \in InstallPCs /\ MaySwap(f.seen.of, a, f.new) /\ f.seen = CondCASPtr(f.seen.of)
      /\ Has(f.seen.of, a)
  BY <1>2, LabelsAre DEF CallFrameOK
<1>4. PICK c \in Descs : c = f.seen.of
  BY <1>3 DEF Has
<1>5. f.new \in Word
  BY <1>3, HasTarget, WordsMade DEF MaySwap
<1>6. CAS(a, f.new, CondCASPtr(c))
  BY <1>2, <1>3, <1>4 DEF HelpSwap
<1>7. Undecided(c) /\ mem[a] = CondCASPtr(c) => mem'[a] = MwCASPtr(c)
  BY <1>1, <1>3, <1>4, <1>5, <1>6, QuietSwap
<1>8. Kept
  BY <1>1, <1>6, KeptIfCAS, WordFields
<1>9. PICK g \in Frame : g = Fresh(f, "install") /\ g.pc = "install" /\ g.desc = f.desc /\ g.i = f.i
  <2>1. "install" \in Labels
    BY LabelsAre
  <2>2. QED
    BY <2>1, FreshIs
<1>10. CASE Advance(t, "install", "decide")
  BY <1>1, <1>8, <1>10, LabelsAre, OrderAdvance
<1>11. CASE mem[a] = f.seen /\ f.seen.of # d /\ Help(t, Fresh(f, "install"), f.seen.of)
  <2>1. WaitWord(g) = a
    BY <1>9 DEF WaitWord
  <2>2. c # g.desc /\ mem[a] = CondCASPtr(c) /\ mem[a] # MwCASPtr(g.desc)
    BY <1>3, <1>4, <1>9, <1>11, WordFields
  <2>3. Undecided(c) => mem'[WaitWord(g)] = MwCASPtr(c)
    BY <1>7, <2>1, <2>2
  <2>4. Help(t, g, c) /\ mem[WaitWord(g)] # MwCASPtr(g.desc)
    BY <1>4, <1>9, <1>11, <2>1, <2>2
  <2>5. QED
    BY <1>1, <1>2, <1>3, <1>8, <1>9, <2>2, <2>3, <2>4, OrderHelp
<1>12. CASE Jump(t, "install")
  <2>1. Continue(t, g)
    BY <1>2, <1>9, <1>12 DEF Jump
  <2>2. Follows(g, Top(t))
    BY <1>2, <1>3, <1>9, LabelsAre DEF Follows
  <2>3. QED
    BY <1>2, <1>3, <1>8, <2>1, <2>2, OrderContinue
<1>13. QED
  BY <1>2, <1>10, <1>11, <1>12 DEF HelpSwap

\* Stopping early keeps the calls in order.
LEMMA OrderStop ==
  ASSUME BaseInv, NEW Below, HelpInv(Below), NEW t \in Threads, Stop(t)
  PROVE  HelpInv(Below)'
<1>1. UNCHANGED <<mem, descVars>> /\ stack' = [stack EXCEPT ![t] = <<>>]
  BY DEF Stop
<1>2. Kept
  BY <1>1, KeptIfSteady
<1>3. <<>> \in Seq(Frame) /\ Len(<<>>) <= 1
  OBVIOUS
<1>4. PICK n \in Seq(Frame) : n = <<>> /\ Len(n) <= 1
  BY <1>3
<1>5. QED
  BY <1>1, <1>2, <1>4, OrderShort

\* The CAS of the status keeps the calls in order.
LEMMA OrderDecide ==
  ASSUME BaseInv, NEW Below, HelpInv(Below), NEW t \in Threads, Decide(t)
  PROVE  HelpInv(Below)'
<1>1. At(t, "decide") /\ UNCHANGED <<mem, words>>
  BY DEF Decide
<1>2. PICK f \in Frame : /\ f = Top(t) /\ stack[t] # <<>> /\ f.pc = "decide"
                         /\ f.desc \in Descs /\ status[f.desc] # "finished"
  BY <1>1, CallTop, LabelsAre
<1> DEFINE d == f.desc
<1>3. PICK s \in {"succeeded", "failed"} : s = IF status[d] = "undecided" THEN f.decision ELSE status[d]
  <2>1. f.decision \in {"succeeded", "failed"}
    BY DEF Frame
  <2>2. status[d] \in {"undecided", "succeeded", "failed"}
    BY <1>2 DEF BaseInv, TypeOK
  <2>3. QED
    BY <2>1, <2>2
<1>4. status' = [status EXCEPT ![d] = s]
  BY <1>2, <1>3 DEF Decide
<1>5. \A c \in Descs : status'[c] # status[c] => status'[c] # "undecided" \/ status[c] = "finished"
  BY <1>2, <1>4 DEF BaseInv, TypeOK
<1>6. Kept
  BY <1>1, <1>5, KeptIfStatus
<1>7. PICK j \in Nat : j = TargetAfter(d, 0)
  BY <1>2, FirstTarget
<1>8. PICK g \in Frame : g = [f EXCEPT !.pc = "final", !.i = j, !.decision = s]
  BY FrameWith, LabelsAre
<1>9. Continue(t, g)
  BY <1>2, <1>3, <1>7, <1>8 DEF Decide
<1>10. g.pc = "final" /\ g.desc = f.desc /\ g.pc \notin InstallPCs
  BY <1>8 DEF Frame, InstallPCs
<1>11. Follows(g, Top(t))
  BY <1>2, <1>10, LabelsAre DEF Follows
<1>12. QED
  BY <1>2, <1>6, <1>9, <1>10, <1>11, OrderContinue

\* Writing a final value keeps the calls in order.
LEMMA OrderFinal ==
  ASSUME BaseInv, NEW Below, HelpInv(Below), NEW t \in Threads, Final(t)
  PROVE  HelpInv(Below)'
<1>1. At(t, "final") /\ UNCHANGED <<status, words>>
  BY DEF Final, descVars
<1>2. PICK f \in Frame : /\ f = Top(t) /\ stack[t] # <<>> /\ f.pc = "final" /\ CallFrameOK(f)
                         /\ f.desc \in Descs /\ status[f.desc] # "finished" /\ Len(words[f.desc]) \in Nat
                         /\ f.i \in 1 .. Len(words[f.desc])
  BY <1>1, CallTop, LabelsAre
<1>3. ~Undecided(f.desc)
  BY <1>2 DEF CallFrameOK
<1>4. \A c \in Descs : Undecided(c) => MwCASPtr(f.desc) # MwCASPtr(c)
  BY <1>3, WordFields
<1>5. Kept
  <2>1. PICK w : CAS(Entry(f).addr, w, MwCASPtr(f.desc))
    BY <1>2 DEF Final
  <2>2. QED
    BY <1>1, <1>4, <2>1, KeptIfCAS
<1>6. CASE Return(t)
  BY <1>2, <1>5, <1>6, OrderReturn
<1>7. CASE ~LastTarget(t) /\ Advance(t, "final", "none")
  <2>1. f.i \in 0 .. Len(words[f.desc]) /\ "final" \in Labels
    BY <1>2, LabelsAre
  <2>2. PICK j \in Nat : j = TargetAfter(f.desc, f.i)
    BY <2>1, <1>2, TargetAfterIs
  <2>3. TargetAfter(f.desc, f.i) <= Len(words[f.desc])
    BY <1>2, <1>7, <2>2 DEF LastTarget
  <2>4. PICK g \in Frame : Continue(t, g) /\ g.desc = f.desc /\ g.pc \in {"final", "none"} /\ g.pc \in Labels
    BY <1>2, <1>7, <2>1, <2>3, AdvanceIs
  <2>5. g.pc = "final"
    BY <2>4 DEF Labels, CallPCs, InstallPCs, ReadPCs
  <2>6. g.pc \notin InstallPCs
    BY <2>5 DEF InstallPCs
  <2>7. Follows(g, Top(t))
    BY <1>2, <2>4, <2>5 DEF Follows
  <2>8. QED
    BY <1>2, <1>5, <2>4, <2>6, <2>7, OrderContinue
<1>8. QED
  BY <1>6, <1>7 DEF Final

\* Starting an operation keeps the calls in order.
LEMMA OrderBegin ==
  ASSUME BaseInv, NEW Below, HelpInv(Below), NEW t \in Threads, NEW d \in Descs, Begin(t, d)
  PROVE  HelpInv(Below)'
<1>1. /\ outcome[d] = "idle" /\ UNCHANGED mem
      /\ status' = [status EXCEPT ![d] = "undecided"] /\ stack' = [stack EXCEPT ![t] = <<Call(d)>>]
      /\ \E op : words' = [words EXCEPT ![d] = op]
  BY DEF Begin
<1>2. status[d] = "finished"
  BY <1>1 DEF BaseInv, DescInv
<1>3. Kept
  BY <1>1, <1>2 DEF Kept, Undecided, BaseInv, TypeOK
<1>4. <<Call(d)>> \in Seq(Frame) /\ Len(<<Call(d)>>) <= 1
  BY CallIs
<1>5. PICK n \in Seq(Frame) : n = <<Call(d)>> /\ Len(n) <= 1
  BY <1>4
<1>6. QED
  BY <1>1, <1>3, <1>5, OrderShort

\* Starting a read keeps the calls in order.
LEMMA OrderBeginRead ==
  ASSUME BaseInv, NEW Below, HelpInv(Below), NEW t \in Threads, NEW a \in Words, BeginRead(t, a)
  PROVE  HelpInv(Below)'
<1>1. UNCHANGED <<mem, descVars>> /\ stack' = [stack EXCEPT ![t] = <<ReadCall(a)>>]
  BY DEF BeginRead
<1>2. Kept
  BY <1>1, KeptIfSteady
<1>3. <<ReadCall(a)>> \in Seq(Frame) /\ Len(<<ReadCall(a)>>) <= 1
  BY ReadCallIs
<1>4. PICK n \in Seq(Frame) : n = <<ReadCall(a)>> /\ Len(n) <= 1
  BY <1>3
<1>5. QED
  BY <1>1, <1>2, <1>4, OrderShort

\* Reading a word keeps the calls in order.
LEMMA OrderRead ==
  ASSUME BaseInv, NEW Below, WordsOrdered(Below), HelpInv(Below), NEW t \in Threads, Read(t)
  PROVE  HelpInv(Below)'
<1>1. At(t, "read") /\ UNCHANGED <<mem, descVars>> /\ UNCHANGED <<status, words>>
  BY DEF Read, descVars
<1>2. PICK f \in Frame : /\ f = Top(t) /\ stack[t] # <<>> /\ f.pc = "read" /\ f.desc \in Words
  BY <1>1, ReadTop, LabelsAre
<1>3. Kept
  BY <1>1, KeptIfSteady
<1>4. mem[f.desc] \in Word
  BY <1>2 DEF BaseInv, TypeOK
<1>5. CASE Continue(t, [f EXCEPT !.pc = "read_status", !.seen = mem[f.desc]])
  <2>1. PICK g \in Frame : g = [f EXCEPT !.pc = "read_status", !.seen = mem[f.desc]]
    BY <1>4, FrameWith, LabelsAre
  <2>2. g.pc = "read_status" /\ g.desc = f.desc /\ g.pc \notin InstallPCs
    BY <2>1 DEF Frame, InstallPCs
  <2>3. Follows(g, Top(t))
    BY <1>2, <2>2, LabelsAre DEF Follows
  <2>4. QED
    BY <1>2, <1>3, <1>5, <2>1, <2>2, <2>3, OrderContinue
<1>6. CASE mem[f.desc].kind = "mwcas" /\ Help(t, f, mem[f.desc].of)
  <2>1. PICK c \in Descs : c = mem[f.desc].of
    BY <1>4, <1>6, WordKinds
  <2>2. QED
    BY <1>1, <1>2, <1>3, <1>6, <2>1, LabelsAre, OrderHelp
<1>7. CASE stack' = [stack EXCEPT ![t] = <<>>]
  <2>1. <<>> \in Seq(Frame) /\ Len(<<>>) <= 1
    OBVIOUS
  <2>2. PICK n \in Seq(Frame) : n = <<>> /\ Len(n) <= 1
    BY <2>1
  <2>3. QED
    BY <1>3, <1>7, <2>2, OrderShort
<1>8. QED
  BY <1>2, <1>5, <1>6, <1>7 DEF Read

\* Reading the status of the word descriptor that a read met keeps the calls in
\* order.
LEMMA OrderReadStatus ==
  ASSUME BaseInv, NEW Below, HelpInv(Below), NEW t \in Threads, ReadStatus(t)
  PROVE  HelpInv(Below)'
<1>1. At(t, "read_status") /\ UNCHANGED <<mem, descVars>>
  BY DEF ReadStatus
<1>2. PICK f \in Frame : /\ f = Top(t) /\ stack[t] # <<>> /\ f.pc = "read_status" /\ ReadFrameOK(f)
  BY <1>1, ReadTop, LabelsAre
<1>3. PICK w \in Word : w = Choose(f.seen.of, f.desc)
  BY <1>2, ChooseOK DEF ReadFrameOK
<1>4. PICK g \in Frame : g = [f EXCEPT !.pc = "read_swap", !.new = w]
  BY FrameWith, LabelsAre
<1>5. g.pc = "read_swap" /\ g.desc = f.desc /\ g.pc \notin InstallPCs
  BY <1>4 DEF Frame, InstallPCs
<1>6. Continue(t, g)
  BY <1>2, <1>3, <1>4 DEF ReadStatus
<1>7. Follows(g, Top(t))
  BY <1>2, <1>5, LabelsAre DEF Follows
<1>8. Kept
  BY <1>1, KeptIfSteady
<1>9. QED
  BY <1>2, <1>5, <1>6, <1>7, <1>8, OrderContinue

\* Replacing that word descriptor keeps the calls in order.
LEMMA OrderReadSwap ==
  ASSUME BaseInv, NEW Below, HelpInv(Below), NEW t \in Threads, ReadSwap(t)
  PROVE  HelpInv(Below)'
<1>1. At(t, "read_swap") /\ UNCHANGED <<status, words>>
  BY DEF ReadSwap, descVars
<1>2. PICK f \in Frame : /\ f = Top(t) /\ stack[t] # <<>> /\ f.pc = "read_swap" /\ ReadFrameOK(f)
  BY <1>1, ReadTop, LabelsAre
<1>3. CAS(f.desc, f.new, CondCASPtr(f.seen.of))
  BY <1>2 DEF ReadSwap, ReadFrameOK
<1>4. Kept
  BY <1>1, <1>3, KeptIfCAS, WordFields
<1>5. PICK g \in Frame : g = Fresh(f, "read") /\ g.pc = "read" /\ g.desc = f.desc
  <2>1. "read" \in Labels
    BY LabelsAre
  <2>2. QED
    BY <2>1, FreshIs
<1>6. g.pc \notin InstallPCs
  BY <1>5 DEF InstallPCs
<1>7. Follows(g, Top(t))
  BY <1>2, <1>5, LabelsAre DEF Follows
<1>8. Continue(t, g)
  BY <1>2, <1>5 DEF ReadSwap, Jump
<1>9. QED
  BY <1>2, <1>4, <1>6, <1>7, <1>8, OrderContinue

\* Every step keeps the calls of every thread in order.
LEMMA OrderNext ==
  ASSUME BaseInv, NEW Below, WordsOrdered(Below), HelpInv(Below), [Next]_vars
  PROVE  HelpInv(Below)'
<1>1. CASE UNCHANGED vars
  <2>1. UNCHANGED <<mem, status, words, stack>>
    BY <1>1 DEF vars, descVars
  <2>2. QED
    <3>1. SUFFICES ASSUME NEW t \in Threads PROVE HelpOrder(Below, stack[t])'
      BY DEF HelpInv
    <3>2. PICK s : s = stack[t] /\ s = stack'[t] /\ HelpOrder(Below, s)
      BY <2>1 DEF HelpInv
    <3>3. Waits(s)' <=> Waits(s)
      BY <2>1 DEF Waits, Undecided, WaitWord, Addr
    <3>4. Rises(Below, s)' <=> Rises(Below, s)
      BY <2>1 DEF Rises, Undecided, WaitWord, Addr
    <3>5. NoCircle(s)' <=> NoCircle(s)
      BY <2>1 DEF NoCircle, Undecided
    <3>6. QED
      BY <3>2, <3>3, <3>4, <3>5 DEF HelpOrder
<1>2. ASSUME NEW t \in Threads, Step(t) PROVE HelpInv(Below)'
  BY <1>2, OrderEnter, OrderInstall, OrderCondStatus, OrderCondSwap, OrderHelpStatus, OrderHelpCheck,
     OrderHelpChoose, OrderHelpSwap, OrderStop, OrderDecide, OrderFinal, OrderRead, OrderReadStatus,
     OrderReadSwap DEF Step
<1>3. ASSUME NEW t \in Threads, NEW d \in Descs, Begin(t, d) PROVE HelpInv(Below)'
  BY <1>3, OrderBegin
<1>4. ASSUME NEW t \in Threads, NEW a \in Words, BeginRead(t, a) PROVE HelpInv(Below)'
  BY <1>4, OrderBeginRead
<1>5. QED
  BY <1>1, <1>2, <1>3, <1>4 DEF Next

\* "Word descriptors are stored sorted on the word address to prevent livelocks"
\* (mwcas.h): if all callers add their words in one order, a thread that helps
\* comes back to an operation that it is in the middle of only by way of one that
\* was decided since.
THEOREM NoCircular ==
  ASSUME NEW Below, WordsOrdered(Below)
  PROVE  Spec => []NoCircularHelping
<1>1. Init => HelpInv(Below)
  BY DEF Init, HelpInv, HelpOrder, Waits, Rises, NoCircle
<1>2. BaseInv /\ HelpInv(Below) /\ [Next]_vars => HelpInv(Below)'
  BY OrderNext
<1>3. BaseInv /\ HelpInv(Below) => NoCircularHelping
  <2> SUFFICES ASSUME BaseInv, HelpInv(Below), NEW t \in Threads,
                      NEW i \in DOMAIN stack[t], NEW j \in DOMAIN stack[t], i < j,
                      stack[t][i].pc = "install", stack[t][j].pc = "install",
                      stack[t][i].desc = stack[t][j].desc
               PROVE  \E k \in i + 1 .. j - 1 : status[stack[t][k].desc] # "undecided"
    BY DEF NoCircularHelping
  <2>1. NoCircle(stack[t]) /\ stack[t] \in Seq(Frame)
    BY DEF HelpInv, HelpOrder, BaseInv, TypeOK
  <2>2. i \in 1 .. Len(stack[t]) /\ j \in 1 .. Len(stack[t]) /\ stack[t][i].pc \in InstallPCs
    BY <2>1, LabelsAre
  <2>3. QED
    BY <2>1, <2>2 DEF NoCircle, Undecided
<1>4. QED
  BY <1>1, <1>2, <1>3, BaseAlways, PTL DEF Spec

-----------------------------------------------------------------------------
(***************************************************************************)
(* Atomicity.  If the values of words do not recur, a word that an         *)
(* operation has changed never has its old value again, so that the        *)
(* descriptor of an operation that has succeeded is not put back by a      *)
(* thread that has read its status earlier (CondSwap and its kin).         *)
(***************************************************************************)
\* The entries of a descriptor, as those of an abstract operation.
Entries(d) == IF words[d] = <<>> THEN <<>> ELSE AsOperation(words[d])

WordValue(w, a) ==
  IF w.kind = "value" THEN w.of
  ELSE IF w.kind = "mwcas" /\ outcome[w.of] = "succeeded" THEN EntryFor(words[w.of], a).new
  ELSE EntryFor(words[w.of], a).old

\* Words have moved on from the new values of the operations that succeeded.
MovedOn(Before) ==
  \A d \in Descs : outcome[d] = "succeeded" =>
    \A a \in DOMAIN Entries(d) : <<Entries(d)[a].new, LogicalValue(a)>> \in Before[a]

\* An operation as one of the abstract specification.
LEMMA AsOperationIs ==
  ASSUME NEW d \in Descs, NEW op \in Ops[d]
  PROVE  /\ op # <<>>
         /\ DOMAIN AsOperation(op) \subseteq Words
         /\ \A a : a \in DOMAIN AsOperation(op) <=> a # Null /\ \E i \in 1 .. Len(op) : op[i].addr = a
         /\ \A a \in DOMAIN AsOperation(op) :
              /\ AsOperation(op)[a].old = EntryFor(op, a).old /\ EntryFor(op, a).old \in Values
              /\ AsOperation(op)[a].new = EntryFor(op, a).new /\ EntryFor(op, a).new \in Values
<1>1. /\ op \in Seq(EntryType) /\ DOMAIN op = 1 .. Len(op) /\ Len(op) \in Nat
      /\ \E i \in 1 .. Len(op) : op[i].addr # Null
      /\ \A i \in 1 .. Len(op) : op[i] \in EntryType
  BY OpsAre
<1>2. op # <<>>
  <2> SUFFICES ASSUME op = <<>> PROVE FALSE
    OBVIOUS
  <2>1. Len(op) = 0
    OBVIOUS
  <2>2. QED
    BY <1>1, <2>1
<1>3. \A a : a \in DOMAIN AsOperation(op) <=> a # Null /\ \E i \in 1 .. Len(op) : op[i].addr = a
  <2>1. DOMAIN AsOperation(op) = {op[i].addr : i \in 1 .. Len(op)} \ {Null}
    BY <1>1 DEF AsOperation, Targets
  <2>2. QED
    BY <2>1
<1>4. ASSUME NEW a \in DOMAIN AsOperation(op)
      PROVE  /\ a \in Words
             /\ AsOperation(op)[a].old = EntryFor(op, a).old /\ EntryFor(op, a).old \in Values
             /\ AsOperation(op)[a].new = EntryFor(op, a).new /\ EntryFor(op, a).new \in Values
  <2>1. PICK k \in 1 .. Len(op) : op[k].addr = a /\ a # Null
    BY <1>3
  <2>2. EntryFor(op, a) = op[k]
    BY <2>1, EntryForIs
  <2>3. op[k].addr \in Words /\ op[k].old \in Values /\ op[k].new \in Values
    BY <1>1, <2>1 DEF EntryType
  <2>4. AsOperation(op)[a] = [old |-> EntryFor(op, a).old, new |-> EntryFor(op, a).new]
    BY <1>4 DEF AsOperation
  <2>5. QED
    BY <2>1, <2>2, <2>3, <2>4
<1>5. QED
  BY <1>2, <1>3, <1>4

\* The entries of a descriptor in use.
LEMMA EntriesAre ==
  ASSUME BaseInv, NEW d \in Descs
  PROVE  /\ DOMAIN Entries(d) \subseteq Words
         /\ \A a : a \in DOMAIN Entries(d) <=> Has(d, a)
         /\ \A a \in DOMAIN Entries(d) :
              /\ Entries(d)[a].old = EntryFor(words[d], a).old /\ Entries(d)[a].old \in Values
              /\ Entries(d)[a].new = EntryFor(words[d], a).new /\ Entries(d)[a].new \in Values
<1>1. CASE status[d] = "finished"
  <2>1. words[d] = <<>>
    BY <1>1 DEF BaseInv, DescInv
  <2>2. DOMAIN Entries(d) = {}
    <3>1. Entries(d) = <<>>
      BY <2>1 DEF Entries
    <3>2. QED
      BY <3>1
  <2>3. \A a : ~Has(d, a)
    BY <1>1 DEF Has
  <2>4. QED
    BY <2>2, <2>3
<1>2. CASE status[d] # "finished"
  <2>1. PICK op \in Ops[d] : op = words[d]
    BY <1>2 DEF BaseInv, DescInv
  <2>2. Entries(d) = AsOperation(op)
    BY <2>1, AsOperationIs DEF Entries
  <2>3. \A a : a \in DOMAIN AsOperation(op) <=> Has(d, a)
    <3>1. SUFFICES ASSUME NEW a PROVE a \in DOMAIN AsOperation(op) <=> Has(d, a)
      OBVIOUS
    <3>2. Has(d, a) <=> a \in Words /\ \E k \in 1 .. Len(op) : op[k].addr = a
      BY <1>2, <2>1 DEF Has
    <3>3. QED
      BY <3>2, AsOperationIs, VolatileAssumption
  <2>4. QED
    BY <2>1, <2>2, <2>3, AsOperationIs
<1>3. QED
  BY <1>1, <1>2

\* Its new values come after its old ones, if values do not recur.
LEMMA EntriesOrdered ==
  ASSUME BaseInv, NEW d \in Descs, NEW a \in DOMAIN Entries(d), NEW Before, ValuesOrdered(Before)
  PROVE  <<Entries(d)[a].old, Entries(d)[a].new>> \in Before[a]
<1>1. Has(d, a)
  BY EntriesAre
<1>2. PICK op \in Ops[d] : op = words[d]
  BY <1>1 DEF Has, BaseInv, DescInv
<1>3. PICK k \in 1 .. Len(op) : op[k].addr = a /\ a # Null
  BY <1>1, <1>2, VolatileAssumption DEF Has
<1>4. EntryFor(words[d], a) = op[k]
  BY <1>2, <1>3, EntryForIs
<1>5. <<op[k].old, op[k].new>> \in Before[a]
  BY <1>3, OpsAre DEF ValuesOrdered
<1>6. Entries(d)[a].old = op[k].old /\ Entries(d)[a].new = op[k].new
  BY <1>4, EntriesAre
<1>7. QED
  BY <1>5, <1>6

\* The value of a word depends on the word and its address.
LEMMA LogicalIs == \A a : LogicalValue(a) = WordValue(mem[a], a)
  BY DEF LogicalValue, WordValue

\* It is a value.
LEMMA LogicalType ==
  ASSUME BaseInv, NEW a \in Words
  PROVE  LogicalValue(a) \in Values
<1>1. mem[a] \in Word
  BY DEF BaseInv, TypeOK
<1>2. CASE mem[a].kind = "value"
  BY <1>1, <1>2, WordKinds DEF LogicalValue
<1>3. CASE mem[a].kind # "value"
  <2>1. Has(mem[a].of, a)
    BY <1>3 DEF BaseInv, WordInv
  <2>2. EntryFor(words[mem[a].of], a).old \in Values /\ EntryFor(words[mem[a].of], a).new \in Values
    BY <2>1, HasTarget
  <2>3. QED
    BY <1>3, <2>2 DEF LogicalValue
<1>4. QED
  BY <1>2, <1>3

\* A CAS that swaps words of the same value changes no value.
LEMMA ValuesKept ==
  ASSUME TypeOK, NEW a \in Words, NEW w, NEW want, CAS(a, w, want), UNCHANGED <<words, outcome>>,
         mem[a] = want => WordValue(w, a) = WordValue(want, a)
  PROVE  \A b \in Words : LogicalValue(b)' = LogicalValue(b)
<1>1. \A b \in Words : \/ mem'[b] = mem[b]
                       \/ b = a /\ mem[b] = want /\ mem'[b] = w
  BY DEF CAS, TypeOK
<1>2. SUFFICES ASSUME NEW b \in Words PROVE WordValue(mem[b], b)' = WordValue(mem[b], b)
  BY LogicalIs DEF LogicalValue, WordValue
<1>3. WordValue(mem[b], b)' = WordValue(mem'[b], b)
  BY DEF WordValue, EntryFor
<1>4. QED
  BY <1>1, <1>3

\* A step that changes nothing an observer of the operations could see.
LEMMA Unseen ==
  ASSUME \A b \in Words : LogicalValue(b)' = LogicalValue(b), UNCHANGED <<words, outcome, result>>
  PROVE  UNCHANGED Atomic!vars
  BY DEF Atomic!vars, AsOperation, Targets, EntryFor

\* Values do not change with the outcome of an operation, as long as it is not
\* success.
LEMMA SameWords ==
  ASSUME UNCHANGED <<mem, words>>,
         \A d : outcome'[d] = "succeeded" <=> outcome[d] = "succeeded"
  PROVE  \A b \in Words : LogicalValue(b)' = LogicalValue(b)
  BY DEF LogicalValue, EntryFor

\* The outermost call returns what has become of its operation.
LEMMA ReturnSeen ==
  ASSUME BaseInv, Stable, NEW t \in Threads, stack[t] # <<>>, Return(t), Top(t).pc \in CallPCs,
         Top(t).desc \in Descs, status[Top(t).desc] \in {"succeeded", "failed"},
         \A b \in Words : LogicalValue(b)' = LogicalValue(b), UNCHANGED <<words, outcome>>
  PROVE  [Atomic!Next]_Atomic!vars
<1>1. CASE result' = result
  BY <1>1, Unseen
<1>2. CASE LET d == Top(t).desc IN
           /\ d \in Descs /\ result[d] = "none"
           /\ result' = [result EXCEPT ![d] = IF status[d] = "succeeded" THEN "true" ELSE "false"]
  <2>1. PICK d \in Descs : d = Top(t).desc
    BY <1>2
  <2>2. /\ result[d] = "none" /\ outcome[d] \in {"succeeded", "failed"} /\ outcome[d] = status[d]
        /\ result' = [result EXCEPT ![d] = IF status[d] = "succeeded" THEN "true" ELSE "false"]
    BY <1>2, <2>1 DEF BaseInv, DescInv
  <2>3. Atomic!Return(d)
    BY <2>2 DEF Atomic!Return, AsOperation, Targets, EntryFor
  <2>4. QED
    BY <2>3 DEF Atomic!Next
<1>3. QED
  BY <1>1, <1>2, ReturnStep DEF BaseInv

\* A word descriptor of an operation that has succeeded is still swapped for
\* the descriptor only if old and new value are the same.
LEMMA SwapSeen ==
  ASSUME NEW Before, ValuesOrdered(Before), BaseInv, MovedOn(Before),
         NEW d, NEW a, NEW w, MaySwap(d, a, w), CAS(a, w, CondCASPtr(d)), UNCHANGED <<words, outcome>>
  PROVE  \A b \in Words : LogicalValue(b)' = LogicalValue(b)
<1> DEFINE e == Entries(d)[a]
<1>1. d \in Descs /\ a \in Words /\ Has(d, a)
  BY DEF MaySwap, Has
<1>2. /\ a \in DOMAIN Entries(d) /\ e.old \in Values /\ e.new \in Values /\ <<e.old, e.new>> \in Before[a]
      /\ e.old = EntryFor(words[d], a).old /\ e.new = EntryFor(words[d], a).new
  BY <1>1, EntriesAre, EntriesOrdered
<1>3. WordValue(CondCASPtr(d), a) = e.old
  BY <1>2, WordFields DEF WordValue
<1>4. ASSUME mem[a] = CondCASPtr(d), outcome[d] = "succeeded"
      PROVE  e.new = e.old
  <2>1. LogicalValue(a) = e.old
    BY <1>3, <1>4, LogicalIs
  <2>2. <<e.new, e.old>> \in Before[a]
    BY <1>1, <1>2, <1>4, <2>1 DEF MovedOn
  <2>3. QED
    BY <1>1, <1>2, <2>2 DEF ValuesOrdered
<1>5. ASSUME mem[a] = CondCASPtr(d) PROVE WordValue(w, a) = e.old
  <2>1. CASE w = MwCASPtr(d)
    <3>1. w.kind = "mwcas" /\ w.of = d
      BY <2>1, WordFields
    <3>2. QED
      BY <3>1, <1>2, <1>4, <1>5 DEF WordValue
  <2>2. CASE w = Value(EntryFor(words[d], a).old)
    BY <1>2, <2>2, WordFields DEF WordValue
  <2>3. QED
    BY <2>1, <2>2 DEF MaySwap
<1>6. QED
  BY <1>1, <1>3, <1>5, ValuesKept DEF BaseInv

\* The value of a word whose operation stays the same.
LEMMA SameWord ==
  ASSUME NEW b \in Words, NEW c, c = mem[b].of, mem' = mem,
         mem[b].kind # "value" => words'[c] = words[c] /\ outcome'[c] = outcome[c]
  PROVE  LogicalValue(b)' = LogicalValue(b)
<1>1. CASE mem[b].kind = "value"
  BY <1>1 DEF LogicalValue
<1>2. CASE mem[b].kind # "value"
  <2>1. PICK e : e = words[c]
    OBVIOUS
  <2>2. PICK o : o = outcome[c]
    OBVIOUS
  <2>3. words'[c] = e /\ outcome'[c] = o
    BY <1>2, <2>1, <2>2
  <2>4. QED
    BY <1>2, <2>1, <2>2, <2>3 DEF LogicalValue, EntryFor
<1>3. QED
  BY <1>1, <1>2

EntryWords == \A d \in Descs : DOMAIN Entries(d) \subseteq Words
\* The words of entries are words.
LEMMA EntriesInWords == BaseInv => EntryWords
  BY EntriesAre DEF EntryWords

\* The final value is the one that the decision makes of the word, and the
\* owner's call ends with the last one.
LEMMA FinalSeen ==
  ASSUME BaseInv, NEW t \in Threads, Final(t)
  PROVE  [Atomic!Next]_Atomic!vars
<1>1. At(t, "final") /\ UNCHANGED <<descVars, reads, outcome>> /\ UNCHANGED words
  BY DEF Final, descVars
<1>2. PICK f \in Frame : /\ f = Top(t) /\ stack[t] # <<>> /\ f.pc = "final" /\ CallFrameOK(f)
                         /\ f.desc \in Descs /\ status[f.desc] # "finished"
                         /\ Addr(f.desc, f.i) \in Words /\ Entry(f).addr = Addr(f.desc, f.i)
                         /\ EntryFor(words[f.desc], Addr(f.desc, f.i)) = Entry(f)
                         /\ Entry(f).old \in Values /\ Entry(f).new \in Values
  BY <1>1, CallTop, LabelsAre
<1> DEFINE d == f.desc
           a == Addr(f.desc, f.i)
<1>3. /\ ~Undecided(d) /\ f.decision = status[d]
      /\ status[d] \in {"succeeded", "failed"} /\ outcome[d] = status[d]
  BY <1>2 DEF CallFrameOK, BaseInv, TypeOK, DescInv, Undecided
<1>4. PICK v \in Values : v = IF f.decision = "succeeded" THEN Entry(f).new ELSE Entry(f).old
  BY <1>2
<1>5. CAS(a, Value(v), MwCASPtr(d))
  BY <1>2, <1>4 DEF Final
<1>6. Quiet
  BY <1>1, <1>2, <1>3, <1>5, QuietFinal
<1>7. WordValue(Value(v), a) = v /\ WordValue(MwCASPtr(d), a) = v
  <2>1. WordValue(Value(v), a) = v
    BY WordFields DEF WordValue
  <2>2. WordValue(MwCASPtr(d), a) = v
    BY <1>2, <1>3, <1>4, WordFields DEF WordValue
  <2>3. QED
    BY <2>1, <2>2
<1>8. \A b \in Words : LogicalValue(b)' = LogicalValue(b)
  BY <1>1, <1>2, <1>5, <1>7, ValuesKept DEF BaseInv
<1>9. CASE Return(t)
  BY <1>1, <1>2, <1>3, <1>6, <1>8, <1>9, LabelsAre, ReturnSeen DEF Quiet
<1>10. CASE UNCHANGED result
  BY <1>1, <1>8, <1>10, Unseen
<1>11. QED
  BY <1>9, <1>10 DEF Final

\* The abstract steps, in terms of the detailed values and entries: a mismatch,
LEMMA IsMismatch ==
  ASSUME NEW d \in Descs, NEW a \in Words, a \in DOMAIN Entries(d), LogicalValue(a) # Entries(d)[a].old,
         outcome[d] = "pending", outcome' = [outcome EXCEPT ![d] = "doomed"], UNCHANGED <<words, result>>,
         \A b \in Words : LogicalValue(b)' = LogicalValue(b)
  PROVE  Atomic!Mismatch(d)
<1> DEFINE V == [b \in Words |-> LogicalValue(b)]
           En == [c \in Descs |-> IF words[c] = <<>> THEN <<>> ELSE AsOperation(words[c])]
<1>1. V' = V /\ En' = En
  BY DEF AsOperation, Targets, EntryFor
<1>2. a \in DOMAIN En[d] /\ V[a] # En[d][a].old
  BY DEF Entries
<1> HIDE DEF V, En
<1>3. QED
  BY <1>1, <1>2 DEF V, En, Atomic!Mismatch, Atomic!Become

\* a failure,
LEMMA IsFail ==
  ASSUME NEW d \in Descs, outcome[d] = "doomed", outcome' = [outcome EXCEPT ![d] = "failed"],
         UNCHANGED <<words, result>>, \A b \in Words : LogicalValue(b)' = LogicalValue(b)
  PROVE  Atomic!Fail(d)
  BY DEF Atomic!Fail, Atomic!Become, AsOperation, Targets, EntryFor

\* success,
LEMMA IsSucceed ==
  ASSUME NEW d \in Descs, outcome[d] \in {"pending", "doomed"}, outcome' = [outcome EXCEPT ![d] = "succeeded"],
         UNCHANGED <<words, result>>, DOMAIN Entries(d) \subseteq Words,
         \A b \in DOMAIN Entries(d) : LogicalValue(b) = Entries(d)[b].old /\ LogicalValue(b)' = Entries(d)[b].new,
         \A b \in Words \ DOMAIN Entries(d) : LogicalValue(b)' = LogicalValue(b)
  PROVE  Atomic!Succeed(d)
<1> DEFINE V == [b \in Words |-> LogicalValue(b)]
           En == [c \in Descs |-> IF words[c] = <<>> THEN <<>> ELSE AsOperation(words[c])]
<1>1. En' = En
  BY DEF AsOperation, Targets, EntryFor
<1>2. En[d] = Entries(d)
  BY DEF Entries
<1>3. \A b \in DOMAIN En[d] : V[b] = En[d][b].old
  BY <1>2
<1>4. V' = [b \in Words |-> IF b \in DOMAIN En[d] THEN En[d][b].new ELSE V[b]]
  <2>1. \A b \in Words : LogicalValue(b)' = IF b \in DOMAIN En[d] THEN En[d][b].new ELSE V[b]
    BY <1>2
  <2>2. V' = [b \in Words |-> LogicalValue(b)']
    OBVIOUS
  <2> HIDE DEF V, En
  <2>3. QED
    BY <2>1, <2>2
<1>5. QED
  BY <1>1, <1>3, <1>4 DEF Atomic!Succeed, Atomic!Become

\* and the start of an operation.
LEMMA IsBegin ==
  ASSUME NEW d \in Descs, NEW op \in Ops[d], op # <<>>, words \in [Descs -> Seq(EntryType)],
         words' = [words EXCEPT ![d] = op],
         outcome[d] = "idle", outcome' = [outcome EXCEPT ![d] = "pending"], UNCHANGED result,
         \A b \in Words : LogicalValue(b)' = LogicalValue(b)
  PROVE  Atomic!Begin(d)
<1> DEFINE V == [b \in Words |-> LogicalValue(b)]
           En == [c \in Descs |-> IF words[c] = <<>> THEN <<>> ELSE AsOperation(words[c])]
           Wanted == [c \in Descs |-> {AsOperation(o) : o \in Ops[c]}]
<1>1. V' = V
  OBVIOUS
<1>2. AsOperation(op) \in Wanted[d]
  OBVIOUS
<1>3. En' = [En EXCEPT ![d] = AsOperation(op)]
  <2>1. En' = [c \in Descs |-> IF words'[c] = <<>> THEN <<>> ELSE AsOperation(words'[c])]
    BY DEF AsOperation, Targets, EntryFor
  <2>2. words'[d] = op /\ \A c \in Descs \ {d} : words'[c] = words[c]
    OBVIOUS
  <2>3. QED
    BY <2>1, <2>2
<1>4. \E e \in Wanted[d] : En' = [En EXCEPT ![d] = e]
  BY <1>2, <1>3
<1>5. QED
  BY <1>1, <1>4 DEF Atomic!Begin, Atomic!Become

\* Installing a word descriptor is not seen; finding another value is a
\* mismatch.
LEMMA InstallSeen ==
  ASSUME BaseInv, NEW t \in Threads, Install(t)
  PROVE  [Atomic!Next]_Atomic!vars
<1>0. At(t, "install")
  BY DEF Install
<1>1. PICK f \in Frame : /\ f = Top(t) /\ f.desc \in Descs
                         /\ Addr(f.desc, f.i) \in Words /\ Has(f.desc, Addr(f.desc, f.i))
                         /\ Entry(f).addr = Addr(f.desc, f.i)
                         /\ EntryFor(words[f.desc], Addr(f.desc, f.i)) = Entry(f)
  BY <1>0, CallTop, LabelsAre
<1>2. PICK d \in Descs, a \in Words : d = f.desc /\ a = Addr(f.desc, f.i)
  BY <1>1
<1>3. UNCHANGED <<words, result>>
  BY DEF Install, descVars
<1>4. Entry(f).addr = a /\ Entry(f).old = EntryFor(words[d], a).old
  BY <1>1, <1>2
<1>5. CASE CAS(a, CondCASPtr(d), Value(Entry(f).old)) /\ UNCHANGED outcome
  <2>1. WordValue(CondCASPtr(d), a) = Entry(f).old
    BY <1>4, WordFields DEF WordValue
  <2>2. WordValue(Value(Entry(f).old), a) = Entry(f).old
    BY WordFields DEF WordValue
  <2>3. \A b \in Words : LogicalValue(b)' = LogicalValue(b)
    BY <1>3, <1>5, <2>1, <2>2, ValuesKept DEF BaseInv
  <2>4. QED
    BY <1>3, <1>5, <2>3, Unseen
<1>6. CASE UNCHANGED <<mem, outcome>>
  BY <1>3, <1>6, SameWords, Unseen
<1>7. CASE /\ mem[a].kind = "value" /\ mem[a].of # Entry(f).old /\ UNCHANGED mem
           /\ outcome' = IF outcome[d] = "pending" THEN [outcome EXCEPT ![d] = "doomed"] ELSE outcome
  <2>1. CASE outcome[d] = "pending"
    <3>1. \A b \in Words : LogicalValue(b)' = LogicalValue(b)
      <4>1. \A c : outcome'[c] = "succeeded" <=> outcome[c] = "succeeded"
        BY <1>7, <2>1 DEF BaseInv, TypeOK
      <4>2. QED
        BY <1>3, <1>7, <4>1, SameWords
    <3>2. a \in DOMAIN Entries(d) /\ Entries(d)[a].old = Entry(f).old
      BY <1>1, <1>2, <1>4, EntriesAre
    <3>3. LogicalValue(a) # Entries(d)[a].old
      BY <1>7, <3>2 DEF LogicalValue
    <3>4. Atomic!Mismatch(d)
      BY <1>3, <1>7, <2>1, <3>1, <3>2, <3>3, IsMismatch
    <3>5. QED
      BY <3>4 DEF Atomic!Next
  <2>2. CASE outcome[d] # "pending"
    BY <1>3, <1>7, <2>2, SameWords, Unseen
  <2>3. QED
    BY <2>1, <2>2
<1>8. QED
  BY <1>1, <1>2, <1>4, <1>5, <1>6, <1>7 DEF Install

\* A new operation is a new atomic operation.
LEMMA BeginSeen ==
  ASSUME BaseInv, NEW t \in Threads, NEW d \in Descs, Begin(t, d)
  PROVE  [Atomic!Next]_Atomic!vars
<1>1. UNCHANGED <<mem, result>> /\ outcome[d] = "idle" /\ status[d] = "finished"
  BY DEF Begin, BaseInv, DescInv
<1>2. PICK op \in Ops[d] : words' = [words EXCEPT ![d] = op]
  BY DEF Begin
<1>3. outcome' = [outcome EXCEPT ![d] = "pending"]
  BY DEF Begin
<1>4. \A c \in Descs \ {d} : words'[c] = words[c] /\ outcome'[c] = outcome[c]
  BY <1>2, <1>3 DEF BaseInv, TypeOK
<1>5. ASSUME NEW b \in Words PROVE LogicalValue(b)' = LogicalValue(b)
  <2>1. mem[b].kind # "value" => mem[b].of \in Descs \ {d}
    BY <1>1 DEF BaseInv, WordInv, Has
  <2>2. QED
    BY <1>1, <1>4, <2>1, SameWord
<1>6. op # <<>> /\ words \in [Descs -> Seq(EntryType)]
  BY AsOperationIs DEF BaseInv, TypeOK
<1>7. Atomic!Begin(d)
  BY <1>1, <1>2, <1>3, <1>5, <1>6, IsBegin
<1>8. QED
  BY <1>7 DEF Atomic!Next

\* The CAS of the status is where an operation succeeds, on all its words at
\* once, or fails.
LEMMA DecideSeen ==
  ASSUME BaseInv, NEW t \in Threads, Decide(t)
  PROVE  [Atomic!Next]_Atomic!vars
<1>0. At(t, "decide")
  BY DEF Decide
<1>1. PICK f \in Frame : /\ f = Top(t) /\ f.pc = "decide" /\ CallFrameOK(f) /\ f.desc \in Descs
                         /\ status[f.desc] # "finished" /\ Len(words[f.desc]) \in Nat
  BY <1>0, CallTop, LabelsAre
<1>2. PICK d \in Descs : d = f.desc
  BY <1>1
<1>3. UNCHANGED <<mem, words, result>> /\ f.decision \in {"succeeded", "failed"}
  BY DEF Decide, Frame
<1>4. CASE Undecided(d)
  <2>1. outcome' = [outcome EXCEPT ![d] = f.decision] /\ outcome[d] \in {"pending", "doomed"}
    BY <1>1, <1>2, <1>4 DEF Decide, Undecided, BaseInv, DescInv
  <2>2. /\ \A c \in Descs \ {d} : outcome'[c] = outcome[c]
        /\ outcome'[d] = f.decision /\ DOMAIN outcome = Descs /\ DOMAIN outcome' = Descs
    BY <2>1 DEF BaseInv, TypeOK
  <2>3. CASE f.decision = "failed"
    <3>1. outcome[d] = "doomed"
      BY <1>1, <1>2, <1>4, <2>3 DEF CallFrameOK
    <3>2. \A c : outcome'[c] = "succeeded" <=> outcome[c] = "succeeded"
      BY <2>1, <2>3, <3>1 DEF BaseInv, TypeOK
    <3>3. \A b \in Words : LogicalValue(b)' = LogicalValue(b)
      BY <1>3, <3>2, SameWords
    <3>4. Atomic!Fail(d)
      BY <1>3, <2>1, <2>3, <3>1, <3>3, IsFail
    <3>5. QED
      BY <3>4 DEF Atomic!Next
  <2>4. CASE f.decision = "succeeded"
    <3>1. Prefix(d, Len(words[d]) + 1) /\ Len(words[d]) \in Nat
      BY <1>1, <1>2, <1>4, <2>4 DEF CallFrameOK
    <3>2. ASSUME NEW b, Has(d, b) PROVE mem[b].kind = "mwcas" /\ mem[b].of = d
      <4>1. PICK k \in 1 .. Len(words[d]) : IsTarget(d, k) /\ Addr(d, k) = b
        BY <3>2, HasTarget
      <4>2. mem[b] = MwCASPtr(d)
        BY <3>1, <4>1 DEF Prefix
      <4>3. QED
        BY <4>2, WordFields
    <3>3. /\ DOMAIN Entries(d) \subseteq Words
          /\ \A b : b \in DOMAIN Entries(d) <=> Has(d, b)
      BY EntriesAre
    <3>4. ASSUME NEW b \in DOMAIN Entries(d)
          PROVE  LogicalValue(b) = Entries(d)[b].old /\ LogicalValue(b)' = Entries(d)[b].new
      <4>1. mem[b].kind = "mwcas" /\ mem[b].of = d
        BY <3>2, <3>3, <3>4
      <4>2. Entries(d)[b].old = EntryFor(words[d], b).old /\ Entries(d)[b].new = EntryFor(words[d], b).new
        BY <3>4, EntriesAre
      <4>3. LogicalValue(b) = EntryFor(words[d], b).old
        BY <2>1, <4>1 DEF LogicalValue
      <4>4. LogicalValue(b)' = EntryFor(words[d], b).new
        BY <1>3, <2>2, <2>4, <4>1 DEF LogicalValue, EntryFor
      <4>5. QED
        BY <4>2, <4>3, <4>4
    <3>5. ASSUME NEW b \in Words \ DOMAIN Entries(d)
          PROVE  LogicalValue(b)' = LogicalValue(b)
      <4>1. mem[b].kind # "value" => Has(mem[b].of, b)
        BY DEF BaseInv, WordInv
      <4>2. mem[b].kind # "value" => mem[b].of \in Descs \ {d}
        BY <3>3, <3>5, <4>1 DEF Has
      <4>3. QED
        BY <1>3, <2>2, <4>2, SameWord
    <3>6. Atomic!Succeed(d)
      BY <1>3, <2>1, <2>4, <3>3, <3>4, <3>5, IsSucceed
    <3>7. QED
      BY <3>6 DEF Atomic!Next
  <2>5. QED
    BY <1>3, <2>3, <2>4
<1>5. CASE ~Undecided(d)
  <2>1. outcome' = [outcome EXCEPT ![d] = status[d]] /\ outcome[d] = status[d]
    BY <1>1, <1>2, <1>5 DEF Decide, Undecided, BaseInv, DescInv, TypeOK
  <2>2. outcome' = outcome
    BY <2>1 DEF BaseInv, TypeOK
  <2>3. QED
    BY <1>3, <2>2, SameWords, Unseen
<1>6. QED
  BY <1>4, <1>5

\* The steps that change no word.
LEMMA StillSeen ==
  ASSUME BaseInv, NEW t \in Threads,
         \/ Enter(t) \/ CondStatus(t) \/ HelpStatus(t) \/ HelpCheck(t) \/ HelpChoose(t)
         \/ Stop(t) \/ Read(t) \/ ReadStatus(t) \/ (\E a \in Words : BeginRead(t, a))
  PROVE  [Atomic!Next]_Atomic!vars
<1>1. UNCHANGED <<mem, descVars, outcome>> /\ UNCHANGED words
  BY DEF Enter, CondStatus, HelpStatus, HelpCheck, HelpChoose, Stop, Read, ReadStatus, BeginRead, descVars
<1>2. \A b \in Words : LogicalValue(b)' = LogicalValue(b)
  BY <1>1, SameWords
<1>3. CASE result' = result
  BY <1>1, <1>2, <1>3, Unseen
<1>4. CASE Enter(t) /\ result' # result
  <2>1. At(t, "enter") /\ Return(t) /\ status[Top(t).desc] # "undecided" /\ UNCHANGED reads
    BY <1>4 DEF Enter
  <2>2. PICK f \in Frame : f = Top(t) /\ stack[t] # <<>> /\ f.pc = "enter" /\ f.desc \in Descs /\ status[f.desc] # "finished"
    BY <2>1, CallTop, LabelsAre
  <2>3. status[f.desc] \in {"succeeded", "failed"}
    BY <2>1, <2>2 DEF BaseInv, TypeOK
  <2>4. Stable
    BY <1>1, <2>1, QuietIfSteady DEF Quiet
  <2>5. QED
    BY <1>1, <1>2, <2>1, <2>2, <2>3, <2>4, LabelsAre, ReturnSeen
<1>5. QED
  BY <1>3, <1>4 DEF CondStatus, HelpStatus, HelpCheck, HelpChoose, Stop, Read, ReadStatus, BeginRead

\* The second CAS of a CondCAS is not seen.
LEMMA SwapsSeen ==
  ASSUME NEW Before, ValuesOrdered(Before), BaseInv, MovedOn(Before), NEW t \in Threads,
         CondSwap(t) \/ HelpSwap(t) \/ ReadSwap(t)
  PROVE  [Atomic!Next]_Atomic!vars
<1>1. UNCHANGED <<words, outcome, result>>
  BY DEF CondSwap, HelpSwap, ReadSwap, descVars
<1>2. CASE CondSwap(t)
  <2>1. At(t, "cond_swap") /\ CAS(Entry(Top(t)).addr, Top(t).new, CondCASPtr(Top(t).desc))
    BY <1>2 DEF CondSwap
  <2>2. PICK f \in Frame : f = Top(t) /\ f.pc = "cond_swap" /\ CallFrameOK(f) /\ Entry(f).addr = Addr(f.desc, f.i)
    BY <2>1, CallTop, LabelsAre
  <2>3. MaySwap(f.desc, Addr(f.desc, f.i), f.new)
    BY <2>2 DEF CallFrameOK
  <2>4. QED
    BY <1>1, <2>1, <2>2, <2>3, SwapSeen, Unseen
<1>3. CASE HelpSwap(t)
  <2>1. At(t, "help_swap") /\ CAS(Entry(Top(t)).addr, Top(t).new, Top(t).seen)
    BY <1>3 DEF HelpSwap
  <2>2. PICK f \in Frame : f = Top(t) /\ f.pc = "help_swap" /\ CallFrameOK(f) /\ Entry(f).addr = Addr(f.desc, f.i)
    BY <2>1, CallTop, LabelsAre
  <2>3. MaySwap(f.seen.of, Addr(f.desc, f.i), f.new) /\ f.seen = CondCASPtr(f.seen.of)
    BY <2>2 DEF CallFrameOK, HelpPCs
  <2>4. CAS(Addr(f.desc, f.i), f.new, CondCASPtr(f.seen.of))
    BY <2>1, <2>2, <2>3
  <2>5. QED
    BY <1>1, <2>3, <2>4, SwapSeen, Unseen
<1>4. CASE ReadSwap(t)
  <2>1. At(t, "read_swap") /\ CAS(Top(t).desc, Top(t).new, Top(t).seen)
    BY <1>4 DEF ReadSwap
  <2>2. PICK f \in Frame : f = Top(t) /\ f.pc = "read_swap" /\ ReadFrameOK(f)
    BY <2>1, ReadTop, LabelsAre
  <2>3. MaySwap(f.seen.of, f.desc, f.new) /\ f.seen = CondCASPtr(f.seen.of)
    BY <2>2 DEF ReadFrameOK
  <2>4. CAS(f.desc, f.new, CondCASPtr(f.seen.of))
    BY <2>1, <2>2, <2>3
  <2>5. QED
    BY <1>1, <2>3, <2>4, SwapSeen, Unseen
<1>5. QED
  BY <1>2, <1>3, <1>4

\* Every step is a step of the atomic operations, or one that they do not see.
LEMMA NextSeen ==
  ASSUME NEW Before, ValuesOrdered(Before), BaseInv, MovedOn(Before), [Next]_vars
  PROVE  [Atomic!Next]_Atomic!vars
<1>1. ASSUME NEW t \in Threads, Step(t) \/ \E a \in Words : BeginRead(t, a)
      PROVE  [Atomic!Next]_Atomic!vars
  BY <1>1, StillSeen, SwapsSeen, InstallSeen, DecideSeen, FinalSeen DEF Step
<1>2. CASE UNCHANGED vars
  <2>1. UNCHANGED <<mem, words, outcome, result>>
    BY <1>2 DEF vars, descVars
  <2>2. QED
    BY <2>1, SameWords, Unseen
<1>3. QED
  BY <1>1, <1>2, BeginSeen DEF Next

\* The atomic operations move words along the order.
LEMMA MovedOnNext ==
  ASSUME NEW Before, ValuesOrdered(Before), BaseInv, MovedOn(Before), BaseInv', [Next]_vars
  PROVE  MovedOn(Before)'
<1> DEFINE V == [a \in Words |-> LogicalValue(a)]
           En == [c \in Descs |-> IF words[c] = <<>> THEN <<>> ELSE AsOperation(words[c])]
<1>0. [Atomic!Next]_Atomic!vars
  BY NextSeen
<1>1. /\ \A a \in Words : V[a] = LogicalValue(a) /\ LogicalValue(a) \in Values
      /\ \A a \in Words : V'[a] = LogicalValue(a)'
      /\ \A d \in Descs : En[d] = Entries(d) /\ DOMAIN Entries(d) \subseteq Words
      /\ \A d \in Descs : En'[d] = Entries(d)' /\ DOMAIN Entries(d)' \subseteq Words
  <2>1. \A d \in Descs : En[d] = Entries(d) /\ En'[d] = Entries(d)'
    BY DEF Entries
  <2>2. \A d \in Descs : DOMAIN Entries(d) \subseteq Words
    BY EntriesAre
  <2>3. \A d \in Descs : DOMAIN Entries(d)' \subseteq Words
    <3>1. EntryWords'
      BY EntriesInWords, PTL
    <3>2. QED
      BY <3>1 DEF EntryWords
  <2>4. QED
    BY <2>1, <2>2, <2>3, LogicalType
<1>2. SUFFICES ASSUME NEW c \in Descs, outcome'[c] = "succeeded", NEW a \in Words, a \in DOMAIN En'[c]
               PROVE  <<En'[c][a].new, V'[a]>> \in Before[a]
  BY <1>1 DEF MovedOn
<1>3. CASE V' = V /\ En'[c] = En[c] /\ outcome'[c] = outcome[c]
  BY <1>1, <1>2, <1>3 DEF MovedOn
<1>4. ASSUME NEW d \in Descs, Atomic!Succeed(d)
      PROVE  <<En'[c][a].new, V'[a]>> \in Before[a]
  <2>1. /\ En' = En /\ outcome[d] \in {"pending", "doomed"}
        /\ outcome' = [outcome EXCEPT ![d] = "succeeded"]
        /\ \A b \in DOMAIN En[d] : V[b] = En[d][b].old
        /\ V' = [b \in Words |-> IF b \in DOMAIN En[d] THEN En[d][b].new ELSE V[b]]
    BY <1>4 DEF Atomic!Succeed, Atomic!Become
  <2> HIDE DEF V, En
  <2>2. a \in DOMAIN En[c] /\ En[c][a].new \in Values
    BY <1>1, <1>2, <2>1, EntriesAre
  <2>3. \A b \in Descs \ {d} : outcome'[b] = outcome[b]
    BY <2>1 DEF BaseInv, TypeOK
  <2>4. CASE c = d
    BY <2>1, <2>2, <2>4 DEF ValuesOrdered
  <2>5. CASE c # d
    <3>1. <<En[c][a].new, V[a]>> \in Before[a]
      BY <1>1, <1>2, <2>2, <2>3, <2>5 DEF MovedOn
    <3>2. CASE a \in DOMAIN En[d]
      <4>1. <<En[d][a].old, En[d][a].new>> \in Before[a]
        BY <1>1, <3>2, EntriesOrdered
      <4>2. En[d][a].old \in Values /\ En[d][a].new \in Values
        BY <1>1, <3>2, EntriesAre
      <4>3. QED
        BY <2>1, <2>2, <3>1, <3>2, <4>1, <4>2 DEF ValuesOrdered
    <3>3. QED
      BY <2>1, <3>1, <3>2
  <2>6. QED
    BY <2>4, <2>5
<1>5. CASE \E d \in Descs : Atomic!Begin(d)
  <2>1. PICK d \in Descs : Atomic!Begin(d)
    BY <1>5
  <2>2. /\ V' = V /\ outcome[d] = "idle" /\ outcome' = [outcome EXCEPT ![d] = "pending"]
        /\ \E e : En' = [En EXCEPT ![d] = e]
    BY <2>1 DEF Atomic!Begin, Atomic!Become
  <2>3. DOMAIN En = Descs
    OBVIOUS
  <2> HIDE DEF V, En
  <2>4. c # d /\ En'[c] = En[c] /\ outcome'[c] = outcome[c]
    BY <1>2, <2>2, <2>3 DEF BaseInv, TypeOK
  <2>5. QED
    BY <1>3, <2>2, <2>4
<1>6. CASE \E d \in Descs : Atomic!Mismatch(d) \/ Atomic!Fail(d)
  <2>1. PICK d \in Descs : Atomic!Mismatch(d) \/ Atomic!Fail(d)
    BY <1>6
  <2>2. /\ V' = V /\ En' = En
        /\ \E o \in {"doomed", "failed"} : outcome' = [outcome EXCEPT ![d] = o]
    BY <2>1 DEF Atomic!Mismatch, Atomic!Fail, Atomic!Become
  <2> HIDE DEF V, En
  <2>3. c # d /\ outcome'[c] = outcome[c]
    BY <1>2, <2>2 DEF BaseInv, TypeOK
  <2>4. QED
    BY <1>3, <2>2, <2>3
<1>7. CASE Atomic!Crash
  <2>1. V' = V /\ En' = En
    BY <1>7 DEF Atomic!Crash
  <2>2. outcome'[c] = outcome[c]
    BY <1>2, <1>7 DEF Atomic!Crash
  <2> HIDE DEF V, En
  <2>3. QED
    BY <1>3, <2>1, <2>2
<1>8. CASE (\E d \in Descs : Atomic!Return(d)) \/ UNCHANGED Atomic!vars
  <2>1. V' = V /\ En' = En /\ outcome' = outcome
    BY <1>8 DEF Atomic!Return, Atomic!vars
  <2> HIDE DEF V, En
  <2>2. QED
    BY <1>3, <2>1
<1>9. QED
  BY <1>0, <1>4, <1>5, <1>6, <1>7, <1>8 DEF Atomic!Next

\* No operation has succeeded initially.
LEMMA MovedOnInit == \A Before : Init => MovedOn(Before)
  BY DEF Init, MovedOn

\* VolatileMwCAS is atomic, whatever the numbers of threads, descriptors,
\* words, readers and injected failures, if the values of words do not recur.
THEOREM Atomicity ==
  ASSUME NEW Before, ValuesOrdered(Before)
  PROVE  Spec => ImplementsAtomicMwCAS
<1> DEFINE Inv == BaseInv /\ MovedOn(Before)
<1>1. Init => Inv
  BY BaseInit, MovedOnInit
<1>2. Inv /\ [Next]_vars => Inv' /\ [Atomic!Next]_Atomic!vars
  BY BaseNext, NextSeen, MovedOnNext
<1>3. Init => Atomic!Init
  BY WordFields DEF Init, Atomic!Init, LogicalValue
<1>4. QED
  BY <1>1, <1>2, <1>3, PTL DEF Spec, ImplementsAtomicMwCAS, Atomic!Spec
=============================================================================
