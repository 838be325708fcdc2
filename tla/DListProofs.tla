---------------------------- MODULE DListProofs -----------------------------
(***************************************************************************)
(* MwCASDList, for any number of nodes and calls, any first list, and two  *)
(* threads (TwoThreads).  The invariant knows the nodes in the list as a sequence that     *)
(* both directions of links agree with, an order of all nodes that have    *)
(* ever been in the list which no link leaves, and what each call knows    *)
(* from where it is.                                                       *)
(***************************************************************************)
EXTENDS DList, NumberLemmas, FiniteSetTheorems, SequenceTheorems, TLAPS

CallSet == [op : {"InsertBefore", "InsertAfter", "Delete", "GetNext", "GetPrev"},
            ref : AllNodes, node : Nodes \cup {Null}]

\* The labels of the three kinds of operations, and of the two that move.
BeforePCs == {"ib_prev", "ib_next", "ib_skip", "ib_link", "ib_mwcas"}
AfterPCs == {"ia_next", "ia_skip", "ia_link", "ia_mwcas"}
DeletePCs == {"d_next", "d_prev", "d_readnext", "d_checkprev", "d_checknext", "d_mwcas"}
MovePCs == {"gn_next", "gp_prev"}
PCs == {"idle", "return"} \cup BeforePCs \cup AfterPCs \cup DeletePCs \cup MovePCs

\* The nodes that are or have been in the list, with and without the ends.
Members == inserted \cup {head_, tail_}
NotTail == inserted \cup {head_}
NotHead == inserted \cup {tail_}

\* The variables that MwCASDList uses.
MwTypeOK ==
  /\ sync_method = "kSyncMwCAS"
  /\ next \in [AllNodes -> Link] /\ prev \in [AllNodes -> Link]
  /\ pc \in [Threads -> PCs]
  /\ call \in [Threads -> CallSet \cup {NoCall}]
  /\ cur \in [Threads -> AllNodes \cup {Null}]
  /\ lp \in [Threads -> Link] /\ ln \in [Threads -> Link]
  /\ gone \in [Threads -> SUBSET AllNodes]
  /\ inserted \subseteq Nodes

\* s is the list: what is in it and not marked, each node once, and both directions agree.
IsList(s) ==
  /\ s \in Seq(AllNodes) /\ Len(s) >= 2 /\ s[1] = head_ /\ s[Len(s)] = tail_
  /\ \A i, j \in 1 .. Len(s) : s[i] = s[j] => i = j
  /\ \A i \in 1 .. Len(s) - 1 : next[s[i]] = To(s[i + 1]) /\ prev[s[i + 1]] = To(s[i])
  /\ \A i \in 1 .. Len(s) : s[i] \in Members /\ ~next[s[i]].del
  /\ \A n \in Members : ~next[n].del => \E i \in 1 .. Len(s) : s[i] = n
ListInv == \E s : IsList(s)

\* Links lead from members to members, up to the ends; only next links are marked.
LinkInv ==
  /\ next[tail_] = NoLink /\ prev[head_] = NoLink
  /\ \A n \in NotTail : next[n].to \in NotHead
  /\ \A n \in NotHead : prev[n].to \in NotTail /\ ~prev[n].del

\* R orders the members, deleted ones too, and links follow it.
IsOrder(R) ==
  /\ R \subseteq Members \X Members
  /\ \A n \in Members : <<n, n>> \notin R
  /\ \A n, m, k \in Members : <<n, m>> \in R /\ <<m, k>> \in R => <<n, k>> \in R
Follows(R) ==
  /\ \A n \in NotTail : <<n, next[n].to>> \in R
  /\ \A n \in NotHead : <<prev[n].to, n>> \in R
OrderInv == \E R : IsOrder(R) /\ Follows(R)

\* The node goes before its ref, not after it.
GoesBefore(c) == c.ref = tail_ \/ (c.op = "InsertBefore" /\ c.ref # head_)

\* What a call knows from where it is.
CallOK(t) ==
  /\ pc[t] = "idle" <=> call[t] = NoCall
  /\ pc[t] # "idle" => call[t] \in CallSet /\ call[t].ref \in Members
  /\ pc[t] \in BeforePCs \cup AfterPCs =>
       /\ call[t].op \in {"InsertBefore", "InsertAfter"}
       /\ call[t].node \in NewNode[t] \ inserted
       /\ cur[t] = call[t].ref \/ Deleted(call[t].ref)
       /\ GoesBefore(call[t]) <=> pc[t] \in BeforePCs
  /\ pc[t] \in DeletePCs => call[t].op = "Delete" /\ cur[t] = call[t].ref
  /\ pc[t] \in MovePCs =>
       /\ call[t].op \in {"GetNext", "GetPrev"} /\ cur[t] = call[t].ref
       /\ \A n \in gone[t] : Deleted(n)
  /\ pc[t] = "return" =>
       /\ call[t].op \in {"InsertBefore", "InsertAfter"} => call[t].node \in inserted
       /\ call[t].op = "Delete" => call[t].ref \in {head_, tail_} \/ Deleted(call[t].ref)
       /\ call[t].op \in {"GetNext", "GetPrev"} => Deleted(call[t].ref) \/ cur[t] \notin gone[t]

InsertOK(t) ==
  /\ pc[t] \in BeforePCs => cur[t] \in NotHead
  /\ pc[t] \in BeforePCs \ {"ib_prev"} => lp[t] = To(lp[t].to) /\ lp[t].to \in NotTail
  /\ pc[t] = "ib_mwcas" => prev[call[t].node] = lp[t] /\ next[call[t].node] = To(cur[t])
  /\ pc[t] \in AfterPCs => cur[t] \in NotTail
  /\ pc[t] \in {"ia_link", "ia_mwcas"} => ln[t] = To(ln[t].to) /\ ln[t].to \in NotHead
  /\ pc[t] = "ia_mwcas" => prev[call[t].node] = To(cur[t]) /\ next[call[t].node] = ln[t]
  /\ pc[t] \in {"ib_skip", "ia_skip"} => next[cur[t]].del

DeleteOK(t) ==
  /\ pc[t] \in DeletePCs \ {"d_next"} => cur[t] \in inserted
  /\ pc[t] \in DeletePCs \ {"d_next", "d_prev"} => lp[t] = To(lp[t].to) /\ lp[t].to \in NotTail
  /\ pc[t] \in {"d_checkprev", "d_checknext", "d_mwcas"} =>
       ln[t].to \in NotHead /\ (ln[t].del => next[cur[t]].del)
  /\ pc[t] \in {"d_checknext", "d_mwcas"} => ~ln[t].del

CallInv == \A t \in Threads : CallOK(t) /\ InsertOK(t) /\ DeleteOK(t)

MwInv == MwTypeOK /\ ListInv /\ LinkInv /\ OrderInv /\ CallInv

-----------------------------------------------------------------------------
\* The names of nodes.
LEMMA NodeNames ==
  /\ head_ \in AllNodes /\ tail_ \in AllNodes /\ Nodes \subseteq AllNodes /\ Null \notin AllNodes
  /\ head_ \notin Nodes /\ tail_ \notin Nodes /\ head_ # tail_
  BY SentinelsAssumption DEF AllNodes

\* Links.
LEMMA LinkTypes ==
  /\ \A n \in AllNodes \cup {Null} : To(n) \in Link /\ To(n).to = n /\ ~To(n).del
  /\ NoLink \in Link /\ NoLink.to = Null /\ ~NoLink.del
  /\ \A l \in Link : /\ Marked(l) \in Link /\ Marked(l).to = l.to /\ Marked(l).del
                     /\ l.to \in AllNodes \cup {Null} /\ l.del \in BOOLEAN
                     /\ (~l.del => l = To(l.to))
<1>1. \A n \in AllNodes \cup {Null} : To(n) \in Link /\ To(n).to = n /\ ~To(n).del
  BY DEF To, Link
<1>2. NoLink \in Link /\ NoLink.to = Null /\ ~NoLink.del
  BY <1>1 DEF NoLink
<1>3. ASSUME NEW l \in Link
      PROVE  /\ Marked(l) \in Link /\ Marked(l).to = l.to /\ Marked(l).del
             /\ l.to \in AllNodes \cup {Null} /\ l.del \in BOOLEAN
             /\ (~l.del => l = To(l.to))
  <2>1. l = [to |-> l.to, del |-> l.del] /\ l.to \in AllNodes \cup {Null} /\ l.del \in BOOLEAN
    BY DEF Link
  <2>2. Marked(l) = [to |-> l.to, del |-> TRUE]
    BY DEF Marked
  <2>3. ~l.del => l.del = FALSE
    BY <2>1
  <2>4. ~l.del => l = To(l.to)
    BY <2>1, <2>3, Zenon DEF To
  <2>5. QED
    BY <2>1, <2>2, <2>4 DEF Link
<1>4. QED
  BY <1>1, <1>2, <1>3

\* What another thread changes does not disturb a call: nodes become members, are
\* deleted for good, and nobody else changes the links of a node to be inserted.
LEMMA OtherCalls ==
  ASSUME MwInv, NEW t \in Threads, NEW u \in Threads, u # t,
         pc'[u] = pc[u], call'[u] = call[u], cur'[u] = cur[u], lp'[u] = lp[u], ln'[u] = ln[u],
         gone'[u] = gone[u], inserted \subseteq inserted', inserted' \ inserted \subseteq NewNode[t],
         \A n \in inserted : next[n].del => next'[n].del,
         \A n \in NewNode[u] \ inserted : next'[n] = next[n] /\ prev'[n] = prev[n]
  PROVE  CallOK(u)' /\ InsertOK(u)' /\ DeleteOK(u)'
<1>1. CallOK(u) /\ InsertOK(u) /\ DeleteOK(u)
  BY DEF MwInv, CallInv
<1>2. \A n : Deleted(n) => Deleted(n)'
  BY DEF Deleted
<1>3. NewNode[u] \cap NewNode[t] = {}
  BY CallsAssumption
<1>4. NotHead \subseteq NotHead' /\ NotTail \subseteq NotTail' /\ Members \subseteq Members'
  BY DEF NotHead, NotTail, Members
<1>5. CallOK(u)'
  BY <1>1, <1>2, <1>3, <1>4 DEF CallOK
<1>6. \A n \in NotTail \cup NotHead : next[n].del => next'[n].del
  <2>1. ~next[head_].del /\ ~next[tail_].del
    <3>1. PICK s : IsList(s)
      BY DEF MwInv, ListInv
    <3>2. 1 \in 1 .. Len(s) /\ Len(s) \in 1 .. Len(s)
      BY <3>1 DEF IsList
    <3>3. QED
      BY <3>1, <3>2 DEF IsList
  <2>2. QED
    BY <2>1 DEF NotTail, NotHead
<1>7. pc[u] \in BeforePCs \cup AfterPCs => call[u].node \in NewNode[u] \ inserted
  BY <1>1 DEF CallOK
<1>8. InsertOK(u)'
  BY <1>1, <1>4, <1>6, <1>7 DEF InsertOK, BeforePCs, AfterPCs
<1>9. DeleteOK(u)'
  BY <1>1, <1>4, <1>6 DEF DeleteOK, NotTail, DeletePCs
<1>10. QED
  BY <1>5, <1>8, <1>9

\* The list and its order are about the links of members only.
LEMMA SameLinks ==
  ASSUME MwInv, UNCHANGED inserted,
         \A n \in Members : next'[n] = next[n] /\ prev'[n] = prev[n]
  PROVE  /\ ListInv' /\ LinkInv' /\ OrderInv'
         /\ \A s : IsList(s) => IsList(s)'
<1>0. Members' = Members /\ NotTail' = NotTail /\ NotHead' = NotHead
      /\ NotTail \subseteq Members /\ NotHead \subseteq Members /\ head_ \in Members /\ tail_ \in Members
  BY DEF Members, NotTail, NotHead
<1>1. ASSUME NEW s, IsList(s) PROVE IsList(s)'
  <2>1. \A i \in 1 .. Len(s) : s[i] \in Members
    BY <1>1 DEF IsList
  <2>2. \A i \in 1 .. Len(s) - 1 : s[i] \in Members /\ s[i + 1] \in Members
    BY <1>1, <2>1 DEF IsList
  <2>3. QED
    BY <1>1, <1>0, <2>1, <2>2 DEF IsList
<1>2. ListInv'
  BY <1>1 DEF MwInv, ListInv
<1>3. LinkInv'
  BY <1>0 DEF MwInv, LinkInv
<1>4. \A R : IsOrder(R) /\ Follows(R) => IsOrder(R)' /\ Follows(R)'
  BY <1>0 DEF IsOrder, Follows
<1>5. OrderInv'
  BY <1>4 DEF MwInv, OrderInv
<1>6. QED
  BY <1>1, <1>2, <1>3, <1>5

\* A step of one thread: where it goes and what its variables become.
OwnStep(t, l, c, n, p, x, g) ==
  /\ l \in PCs /\ c \in CallSet \cup {NoCall} /\ n \in AllNodes \cup {Null}
  /\ p \in Link /\ x \in Link /\ g \in SUBSET AllNodes
  /\ UNCHANGED sync_method
  /\ pc' = Put(pc, t, l) /\ call' = Put(call, t, c) /\ cur' = Put(cur, t, n)
  /\ lp' = Put(lp, t, p) /\ ln' = Put(ln, t, x) /\ gone' = Put(gone, t, g)
LocalStep(t, l, c, n, p, x, g) == OwnStep(t, l, c, n, p, x, g) /\ UNCHANGED <<next, prev, inserted>>

\* What a step does to links and members that does not disturb the calls of others.
Benign(t) ==
  /\ next' \in [AllNodes -> Link] /\ prev' \in [AllNodes -> Link]
  /\ inserted \subseteq inserted' /\ inserted' \ inserted \subseteq NewNode[t] \cap Nodes
  /\ \A n \in inserted : next[n].del => next'[n].del
  /\ \A u \in Threads \ {t} : \A n \in NewNode[u] \ inserted : next'[n] = next[n] /\ prev'[n] = prev[n]

\* Such a step keeps the invariant if it keeps the list, and what its own call knows.
LEMMA OwnStepInv ==
  ASSUME MwInv, NEW t \in Threads, NEW l, NEW c, NEW n, NEW p, NEW x, NEW g,
         OwnStep(t, l, c, n, p, x, g), Benign(t), ListInv', LinkInv', OrderInv',
         CallOK(t)', InsertOK(t)', DeleteOK(t)'
  PROVE  MwInv'
<1>2. MwTypeOK'
  BY DEF MwInv, MwTypeOK, OwnStep, Benign, Put
<1>3. ASSUME NEW u \in Threads, u # t
      PROVE  CallOK(u)' /\ InsertOK(u)' /\ DeleteOK(u)'
  <2>1. /\ pc'[u] = pc[u] /\ call'[u] = call[u] /\ cur'[u] = cur[u] /\ lp'[u] = lp[u]
        /\ ln'[u] = ln[u] /\ gone'[u] = gone[u]
    BY <1>3 DEF MwInv, MwTypeOK, OwnStep, Put
  <2>2. QED
    BY <1>3, <2>1, OtherCalls DEF Benign
<1>4. CallInv'
  BY <1>3 DEF CallInv
<1>5. QED
  BY <1>2, <1>4 DEF MwInv

\* One that changes no links keeps what its own call knows.
LEMMA LocalStepInv ==
  ASSUME MwInv, NEW t \in Threads, NEW l, NEW c, NEW n, NEW p, NEW x, NEW g,
         LocalStep(t, l, c, n, p, x, g), CallOK(t)', InsertOK(t)', DeleteOK(t)'
  PROVE  MwInv'
<1>1. ListInv' /\ LinkInv' /\ OrderInv'
  BY SameLinks DEF LocalStep
<1>2. Benign(t)
  BY DEF LocalStep, Benign, MwInv, MwTypeOK
<1>3. QED
  BY <1>1, <1>2, OwnStepInv DEF LocalStep

-----------------------------------------------------------------------------
\* What the invariant says about a thread, and about links.
LEMMA ThreadTypes ==
  ASSUME MwInv, NEW t \in Threads
  PROVE  /\ sync_method = "kSyncMwCAS"
         /\ pc[t] \in PCs /\ call[t] \in CallSet \cup {NoCall} /\ cur[t] \in AllNodes \cup {Null}
         /\ lp[t] \in Link /\ ln[t] \in Link /\ gone[t] \in SUBSET AllNodes
         /\ CallOK(t) /\ InsertOK(t) /\ DeleteOK(t)
  BY DEF MwInv, MwTypeOK, CallInv

\* Members are nodes, and nodes have links.
LEMMA MemberTypes ==
  ASSUME MwInv
  PROVE  /\ NotTail \subseteq AllNodes /\ NotHead \subseteq AllNodes /\ Members \subseteq AllNodes
         /\ inserted \subseteq Nodes
         /\ \A n \in AllNodes : next[n] \in Link /\ prev[n] \in Link
  BY NodeNames DEF MwInv, MwTypeOK, NotTail, NotHead, Members

\* The ends are not deleted.
LEMMA EndsLive ==
  ASSUME MwInv
  PROVE  ~next[head_].del /\ ~next[tail_].del
<1>1. PICK s : IsList(s)
  BY DEF MwInv, ListInv
<1>2. 1 \in 1 .. Len(s) /\ Len(s) \in 1 .. Len(s)
  BY <1>1 DEF IsList
<1>3. QED
  BY <1>1, <1>2 DEF IsList

\* Neighbours of a node in the list are in the list, and lead back to it.
LEMMA Neighbours ==
  ASSUME MwInv
  PROVE  /\ \A n \in NotTail : ~next[n].del =>
              prev[next[n].to] = To(n) /\ ~next[next[n].to].del
         /\ \A n \in NotHead : ~next[n].del =>
              next[prev[n].to] = To(n) /\ ~next[prev[n].to].del
<1>1. PICK s : IsList(s)
  BY DEF MwInv, ListInv
<1>2. NotTail \subseteq Members /\ NotHead \subseteq Members /\ tail_ \notin NotTail /\ head_ \notin NotHead
  BY NodeNames, MemberTypes DEF NotTail, NotHead, Members
<1>3. ASSUME NEW n \in NotTail, ~next[n].del
      PROVE  prev[next[n].to] = To(n) /\ ~next[next[n].to].del
  <2>1. PICK i \in 1 .. Len(s) : s[i] = n
    BY <1>1, <1>2, <1>3 DEF IsList
  <2>2. i \in 1 .. Len(s) - 1 /\ i + 1 \in 1 .. Len(s)
    BY <2>1, <1>1, <1>2 DEF IsList
  <2>3. next[n] = To(s[i + 1]) /\ prev[s[i + 1]] = To(n) /\ s[i + 1] \in AllNodes /\ ~next[s[i + 1]].del
    BY <1>1, <2>1, <2>2 DEF IsList
  <2>4. QED
    BY <2>3, LinkTypes
<1>4. ASSUME NEW n \in NotHead, ~next[n].del
      PROVE  next[prev[n].to] = To(n) /\ ~next[prev[n].to].del
  <2>1. PICK i \in 1 .. Len(s) : s[i] = n
    BY <1>1, <1>2, <1>4 DEF IsList
  <2>2. i - 1 \in 1 .. Len(s) - 1 /\ i - 1 \in 1 .. Len(s) /\ (i - 1) + 1 = i
    BY <2>1, <1>1, <1>2 DEF IsList
  <2>3. prev[n] = To(s[i - 1]) /\ next[s[i - 1]] = To(n) /\ s[i - 1] \in AllNodes /\ ~next[s[i - 1]].del
    BY <1>1, <2>1, <2>2 DEF IsList
  <2>4. QED
    BY <2>3, LinkTypes
<1>5. QED
  BY <1>3, <1>4

-----------------------------------------------------------------------------
\* The steps of the operations that only look at links.
LEMMA LookSteps ==
  ASSUME MwInv, NEW t \in Threads,
         \/ MwGetNext(t) \/ MwGetPrev(t) \/ MwReadPrev(t) \/ MwCheckNext(t) \/ MwSkipNext(t)
         \/ MwReadNext(t) \/ MwSkipPrev(t) \/ MwDeleteCheck(t) \/ MwDeleteReadPrev(t)
         \/ MwDeleteReadNext(t) \/ MwDeleteCheckPrev(t) \/ MwDeleteCheckNext(t)
  PROVE  MwInv'
<1> USE ThreadTypes, MemberTypes
<1>0. /\ pc = [pc EXCEPT ![t] = pc[t]] /\ call = [call EXCEPT ![t] = call[t]] /\ cur = [cur EXCEPT ![t] = cur[t]]
      /\ lp = [lp EXCEPT ![t] = lp[t]] /\ ln = [ln EXCEPT ![t] = ln[t]] /\ gone = [gone EXCEPT ![t] = gone[t]]
  BY DEF MwInv, MwTypeOK
<1>i. \A f, v : Put(f, t, v) = [f EXCEPT ![t] = v]
  BY DEF Put
<1>l. LinkInv
  BY DEF MwInv
<1>d. DOMAIN pc = Threads /\ DOMAIN call = Threads /\ DOMAIN cur = Threads /\ DOMAIN lp = Threads
      /\ DOMAIN ln = Threads /\ DOMAIN gone = Threads
  BY DEF MwInv, MwTypeOK
<1>1. CASE MwGetNext(t)
  <2>1. LocalStep(t, "return", call[t], next[cur[t]].to, lp[t], ln[t], gone[t])
    BY <1>1, <1>0, <1>d, NodeNames, LinkTypes DEF MwGetNext, Mw, At, GoTo, LocalStep, OwnStep, Put, linkVars, localVars, historyVars, CallOK, InsertOK, DeleteOK, PCs, BeforePCs, AfterPCs, DeletePCs, MovePCs
  <2>2. CallOK(t)' /\ InsertOK(t)' /\ DeleteOK(t)'
    BY <1>1, <1>d, <1>l, EndsLive, Neighbours, NodeNames, LinkTypes DEF MwGetNext, Mw, At, GoTo, Put, linkVars, localVars, historyVars, CallOK, InsertOK, DeleteOK, PCs, BeforePCs, AfterPCs, DeletePCs, MovePCs, Deleted, LinkInv, NotHead, NotTail, Members
  <2>3. QED
    BY <2>1, <2>2, LocalStepInv
<1>2. CASE MwGetPrev(t)
  <2>1. LocalStep(t, "return", call[t], prev[cur[t]].to, lp[t], ln[t], gone[t])
    BY <1>2, <1>0, <1>d, NodeNames, LinkTypes DEF MwGetPrev, Mw, At, GoTo, LocalStep, OwnStep, Put, linkVars, localVars, historyVars, CallOK, InsertOK, DeleteOK, PCs, BeforePCs, AfterPCs, DeletePCs, MovePCs
  <2>2. CallOK(t)' /\ InsertOK(t)' /\ DeleteOK(t)'
    BY <1>2, <1>d, <1>l, EndsLive, Neighbours, NodeNames, LinkTypes DEF MwGetPrev, Mw, At, GoTo, Put, linkVars, localVars, historyVars, CallOK, InsertOK, DeleteOK, PCs, BeforePCs, AfterPCs, DeletePCs, MovePCs, Deleted, LinkInv, NotHead, NotTail, Members
  <2>3. QED
    BY <2>1, <2>2, LocalStepInv
<1>3. CASE MwReadPrev(t)
  <2>1. LocalStep(t, "ib_next", call[t], cur[t], prev[cur[t]], ln[t], gone[t])
    BY <1>3, <1>0, <1>d, NodeNames, LinkTypes DEF MwReadPrev, Mw, At, GoTo, LocalStep, OwnStep, Put, linkVars, localVars, historyVars, CallOK, InsertOK, DeleteOK, PCs, BeforePCs, AfterPCs, DeletePCs, MovePCs
  <2>2. CallOK(t)' /\ InsertOK(t)' /\ DeleteOK(t)'
    BY <1>3, <1>d, <1>l, EndsLive, Neighbours, NodeNames, LinkTypes DEF MwReadPrev, Mw, At, GoTo, Put, linkVars, localVars, historyVars, CallOK, InsertOK, DeleteOK, PCs, BeforePCs, AfterPCs, DeletePCs, MovePCs, Deleted, LinkInv, NotHead, NotTail, Members
  <2>3. QED
    BY <2>1, <2>2, LocalStepInv
<1>4. CASE MwCheckNext(t)
  <2>1. LocalStep(t, IF lp[t].del \/ next[cur[t]].del THEN "ib_skip" ELSE "ib_link",
                  call[t], cur[t], lp[t], ln[t], gone[t])
    BY <1>4, <1>0, <1>d, NodeNames, LinkTypes DEF MwCheckNext, Mw, At, GoTo, LocalStep, OwnStep, Put, linkVars, localVars, historyVars, CallOK, InsertOK, DeleteOK, PCs, BeforePCs, AfterPCs, DeletePCs, MovePCs
  <2>2. CallOK(t)' /\ InsertOK(t)' /\ DeleteOK(t)'
    BY <1>4, <1>d, <1>l, EndsLive, Neighbours, NodeNames, LinkTypes DEF MwCheckNext, Mw, At, GoTo, Put, linkVars, localVars, historyVars, CallOK, InsertOK, DeleteOK, PCs, BeforePCs, AfterPCs, DeletePCs, MovePCs, Deleted, LinkInv, NotHead, NotTail, Members
  <2>3. QED
    BY <2>1, <2>2, LocalStepInv
<1>5. CASE MwSkipNext(t)
  <2>1. LocalStep(t, "ib_prev", call[t], next[cur[t]].to, lp[t], ln[t], gone[t])
    BY <1>5, <1>0, <1>d, NodeNames, LinkTypes DEF MwSkipNext, Mw, At, GoTo, LocalStep, OwnStep, Put, linkVars, localVars, historyVars, CallOK, InsertOK, DeleteOK, PCs, BeforePCs, AfterPCs, DeletePCs, MovePCs
  <2>2. CallOK(t)' /\ InsertOK(t)' /\ DeleteOK(t)'
    BY <1>5, <1>d, <1>l, EndsLive, Neighbours, NodeNames, LinkTypes DEF MwSkipNext, Mw, At, GoTo, Put, linkVars, localVars, historyVars, CallOK, InsertOK, DeleteOK, PCs, BeforePCs, AfterPCs, DeletePCs, MovePCs, Deleted, LinkInv, NotHead, NotTail, Members
  <2>3. QED
    BY <2>1, <2>2, LocalStepInv
<1>6. CASE MwReadNext(t)
  <2>1. LocalStep(t, IF next[cur[t]].del THEN "ia_skip" ELSE "ia_link",
                  call[t], cur[t], lp[t], next[cur[t]], gone[t])
    BY <1>6, <1>0, <1>d, NodeNames, LinkTypes DEF MwReadNext, Mw, At, GoTo, LocalStep, OwnStep, Put, linkVars, localVars, historyVars, CallOK, InsertOK, DeleteOK, PCs, BeforePCs, AfterPCs, DeletePCs, MovePCs
  <2>2. CallOK(t)' /\ InsertOK(t)' /\ DeleteOK(t)'
    BY <1>6, <1>d, <1>l, EndsLive, Neighbours, NodeNames, LinkTypes DEF MwReadNext, Mw, At, GoTo, Put, linkVars, localVars, historyVars, CallOK, InsertOK, DeleteOK, PCs, BeforePCs, AfterPCs, DeletePCs, MovePCs, Deleted, LinkInv, NotHead, NotTail, Members
  <2>3. QED
    BY <2>1, <2>2, LocalStepInv
<1>7. CASE MwSkipPrev(t)
  <2>1. LocalStep(t, "ia_next", call[t], prev[cur[t]].to, lp[t], ln[t], gone[t])
    BY <1>7, <1>0, <1>d, NodeNames, LinkTypes DEF MwSkipPrev, Mw, At, GoTo, LocalStep, OwnStep, Put, linkVars, localVars, historyVars, CallOK, InsertOK, DeleteOK, PCs, BeforePCs, AfterPCs, DeletePCs, MovePCs
  <2>2. CallOK(t)' /\ InsertOK(t)' /\ DeleteOK(t)'
    BY <1>7, <1>d, <1>l, EndsLive, Neighbours, NodeNames, LinkTypes DEF MwSkipPrev, Mw, At, GoTo, Put, linkVars, localVars, historyVars, CallOK, InsertOK, DeleteOK, PCs, BeforePCs, AfterPCs, DeletePCs, MovePCs, Deleted, LinkInv, NotHead, NotTail, Members
  <2>3. QED
    BY <2>1, <2>2, LocalStepInv
<1>8. CASE MwDeleteCheck(t)
  <2>1. LocalStep(t, IF next[cur[t]].del \/ cur[t] \in {head_, tail_} THEN "return" ELSE "d_prev",
                  call[t], cur[t], lp[t], ln[t], gone[t])
    BY <1>8, <1>0, <1>d, NodeNames, LinkTypes DEF MwDeleteCheck, Mw, At, GoTo, LocalStep, OwnStep, Put, linkVars, localVars, historyVars, CallOK, InsertOK, DeleteOK, PCs, BeforePCs, AfterPCs, DeletePCs, MovePCs
  <2>2. CallOK(t)' /\ InsertOK(t)' /\ DeleteOK(t)'
    BY <1>8, <1>d, <1>l, EndsLive, Neighbours, NodeNames, LinkTypes DEF MwDeleteCheck, Mw, At, GoTo, Put, linkVars, localVars, historyVars, CallOK, InsertOK, DeleteOK, PCs, BeforePCs, AfterPCs, DeletePCs, MovePCs, Deleted, LinkInv, NotHead, NotTail, Members
  <2>3. QED
    BY <2>1, <2>2, LocalStepInv
<1>9. CASE MwDeleteReadPrev(t)
  <2>1. LocalStep(t, "d_readnext", call[t], cur[t], prev[cur[t]], ln[t], gone[t])
    BY <1>9, <1>0, <1>d, NodeNames, LinkTypes DEF MwDeleteReadPrev, Mw, At, GoTo, LocalStep, OwnStep, Put, linkVars, localVars, historyVars, CallOK, InsertOK, DeleteOK, PCs, BeforePCs, AfterPCs, DeletePCs, MovePCs
  <2>2. CallOK(t)' /\ InsertOK(t)' /\ DeleteOK(t)'
    BY <1>9, <1>d, <1>l, EndsLive, Neighbours, NodeNames, LinkTypes DEF MwDeleteReadPrev, Mw, At, GoTo, Put, linkVars, localVars, historyVars, CallOK, InsertOK, DeleteOK, PCs, BeforePCs, AfterPCs, DeletePCs, MovePCs, Deleted, LinkInv, NotHead, NotTail, Members
  <2>3. QED
    BY <2>1, <2>2, LocalStepInv
<1>10. CASE MwDeleteReadNext(t)
  <2>1. LocalStep(t, "d_checkprev", call[t], cur[t], lp[t], next[cur[t]], gone[t])
    BY <1>10, <1>0, <1>d, NodeNames, LinkTypes DEF MwDeleteReadNext, Mw, At, GoTo, LocalStep, OwnStep, Put, linkVars, localVars, historyVars, CallOK, InsertOK, DeleteOK, PCs, BeforePCs, AfterPCs, DeletePCs, MovePCs
  <2>2. CallOK(t)' /\ InsertOK(t)' /\ DeleteOK(t)'
    BY <1>10, <1>d, <1>l, EndsLive, Neighbours, NodeNames, LinkTypes DEF MwDeleteReadNext, Mw, At, GoTo, Put, linkVars, localVars, historyVars, CallOK, InsertOK, DeleteOK, PCs, BeforePCs, AfterPCs, DeletePCs, MovePCs, Deleted, LinkInv, NotHead, NotTail, Members
  <2>3. QED
    BY <2>1, <2>2, LocalStepInv
<1>11. CASE MwDeleteCheckPrev(t)
  <2>1. LocalStep(t, IF next[lp[t].to] # To(cur[t]) THEN "d_next" ELSE "d_checknext",
                  call[t], cur[t], lp[t], ln[t], gone[t])
    BY <1>11, <1>0, <1>d, NodeNames, LinkTypes DEF MwDeleteCheckPrev, Mw, At, GoTo, LocalStep, OwnStep, Put, linkVars, localVars, historyVars, CallOK, InsertOK, DeleteOK, PCs, BeforePCs, AfterPCs, DeletePCs, MovePCs
  <2>2. CallOK(t)' /\ InsertOK(t)' /\ DeleteOK(t)'
    BY <1>11, <1>d, <1>l, EndsLive, Neighbours, NodeNames, LinkTypes DEF MwDeleteCheckPrev, Mw, At, GoTo, Put, linkVars, localVars, historyVars, CallOK, InsertOK, DeleteOK, PCs, BeforePCs, AfterPCs, DeletePCs, MovePCs, Deleted, LinkInv, NotHead, NotTail, Members
  <2>3. QED
    BY <2>1, <2>2, LocalStepInv
<1>12. CASE MwDeleteCheckNext(t)
  <2>1. LocalStep(t, IF prev[ln[t].to] # To(cur[t]) THEN "d_next" ELSE "d_mwcas",
                  call[t], cur[t], lp[t], ln[t], gone[t])
    BY <1>12, <1>0, <1>d, NodeNames, LinkTypes DEF MwDeleteCheckNext, Mw, At, GoTo, LocalStep, OwnStep, Put, linkVars, localVars, historyVars, CallOK, InsertOK, DeleteOK, PCs, BeforePCs, AfterPCs, DeletePCs, MovePCs
  <2>2. CallOK(t)' /\ InsertOK(t)' /\ DeleteOK(t)'
    BY <1>12, <1>d, <1>l, EndsLive, Neighbours, NodeNames, LinkTypes DEF MwDeleteCheckNext, Mw, At, GoTo, Put, linkVars, localVars, historyVars, CallOK, InsertOK, DeleteOK, PCs, BeforePCs, AfterPCs, DeletePCs, MovePCs, Deleted, LinkInv, NotHead, NotTail, Members
  <2>3. QED
    BY <2>1, <2>2, LocalStepInv
<1>20. QED
  BY <1>1, <1>2, <1>3, <1>4, <1>5, <1>6, <1>7, <1>8, <1>9, <1>10, <1>11, <1>12

-----------------------------------------------------------------------------
\* Calls and returns.
LEMMA CallSteps ==
  ASSUME MwInv, NEW t \in Threads, Calls(t)
  PROVE  MwInv'
<1> USE ThreadTypes, MemberTypes
<1>0. /\ pc = [pc EXCEPT ![t] = pc[t]] /\ call = [call EXCEPT ![t] = call[t]] /\ cur = [cur EXCEPT ![t] = cur[t]]
      /\ lp = [lp EXCEPT ![t] = lp[t]] /\ ln = [ln EXCEPT ![t] = ln[t]] /\ gone = [gone EXCEPT ![t] = gone[t]]
  BY DEF MwInv, MwTypeOK
<1>d. DOMAIN pc = Threads /\ DOMAIN call = Threads /\ DOMAIN cur = Threads /\ DOMAIN lp = Threads
      /\ DOMAIN ln = Threads /\ DOMAIN gone = Threads
  BY DEF MwInv, MwTypeOK
<1>n. \A o \in {"InsertBefore", "InsertAfter", "Delete", "GetNext", "GetPrev"}, r \in AllNodes,
         n \in Nodes \cup {Null} :
        [op |-> o, ref |-> r, node |-> n] \in CallSet /\ [op |-> o, ref |-> r, node |-> n] # NoCall
  <2>1. NoCall \notin CallSet
    BY CallsAssumption DEF CallSet, AllNodes
  <2>2. QED
    BY <2>1 DEF CallSet
<1>1. CASE CallInsert(t)
  <2>1. PICK o \in {"InsertBefore", "InsertAfter"}, r \in inserted \cup {head_, tail_},
             n \in NewNode[t] \ inserted : Begin(t, o, r, n)
    BY <1>1 DEF CallInsert
  <2>2. r \in Members /\ r \in AllNodes /\ n \in Nodes
    BY CallsAssumption DEF Members
  <2> DEFINE c == [op |-> o, ref |-> r, node |-> n]
             l == IF GoesBefore(c) THEN "ib_prev" ELSE "ia_next"
  <2>3. Entry(o, r) = l
    BY NodeNames DEF Entry, GoesBefore
  <2>4. c \in CallSet /\ c # NoCall
    BY <1>n, <2>2
  <2>5. LocalStep(t, l, c, r, lp[t], ln[t], gone[t])
    BY <1>0, <1>1, <2>1, <2>2, <2>3, <2>4 DEF CallInsert, Begin, GoTo, LocalStep, OwnStep, Put, linkVars,
       PCs, BeforePCs, AfterPCs
  <2>6. pc'[t] = l /\ call'[t] = c /\ cur'[t] = r /\ inserted' = inserted
    BY <2>5, <1>d DEF LocalStep, OwnStep, Put
  <2>7. c.op \in {"InsertBefore", "InsertAfter"} /\ c.ref = r /\ c.node = n
    OBVIOUS
  <2>8. GoesBefore(c) => r # head_
    BY <2>7, NodeNames DEF GoesBefore
  <2>9. ~GoesBefore(c) => r # tail_
    BY <2>7 DEF GoesBefore
  <2> HIDE DEF c
  <2>10. CallOK(t)'
    BY <2>2, <2>4, <2>6, <2>7 DEF CallOK, Members, BeforePCs, AfterPCs, DeletePCs, MovePCs
  <2>11. InsertOK(t)' /\ DeleteOK(t)'
    BY <2>1, <2>6, <2>8, <2>9 DEF InsertOK, DeleteOK, BeforePCs, AfterPCs, DeletePCs, NotHead, NotTail
  <2>12. QED
    BY <2>5, <2>10, <2>11, LocalStepInv
<1>2. CASE CallDelete(t)
  <2>1. PICK r \in inserted \cup {head_, tail_} : Begin(t, "Delete", r, Null)
    BY <1>2 DEF CallDelete
  <2>2. r \in Members /\ r \in AllNodes
    BY DEF Members
  <2> DEFINE c == [op |-> "Delete", ref |-> r, node |-> Null]
  <2>3. Entry("Delete", r) = "d_next"
    BY DEF Entry
  <2>4. c \in CallSet /\ c # NoCall
    BY <1>n, <2>2
  <2>5. LocalStep(t, "d_next", c, r, lp[t], ln[t], gone[t])
    BY <1>0, <1>2, <2>1, <2>2, <2>3, <2>4 DEF CallDelete, Begin, GoTo, LocalStep, OwnStep, Put, linkVars,
       PCs, DeletePCs
  <2>6. pc'[t] = "d_next" /\ call'[t] = c /\ cur'[t] = r /\ inserted' = inserted
    BY <2>5, <1>d DEF LocalStep, OwnStep, Put
  <2>7. c.op = "Delete" /\ c.ref = r
    OBVIOUS
  <2> HIDE DEF c
  <2>10. CallOK(t)' /\ InsertOK(t)' /\ DeleteOK(t)'
    BY <2>2, <2>4, <2>6, <2>7 DEF CallOK, InsertOK, DeleteOK, Members, BeforePCs, AfterPCs, DeletePCs, MovePCs
  <2>12. QED
    BY <2>5, <2>10, LocalStepInv
<1>3. CASE CallMove(t)
  <2>1. PICK o \in {"GetNext", "GetPrev"}, r \in inserted \cup {head_, tail_} : Begin(t, o, r, Null)
    BY <1>3 DEF CallMove
  <2>2. r \in Members /\ r \in AllNodes
    BY DEF Members
  <2> DEFINE c == [op |-> o, ref |-> r, node |-> Null]
             l == IF o = "GetNext" THEN "gn_next" ELSE "gp_prev"
             g == {n \in AllNodes : Deleted(n)}
  <2>3. Entry(o, r) = l
    BY DEF Entry
  <2>4. c \in CallSet /\ c # NoCall
    BY <1>n, <2>2
  <2>5. LocalStep(t, l, c, r, lp[t], ln[t], g)
    BY <1>0, <1>3, <2>1, <2>2, <2>3, <2>4 DEF CallMove, Begin, GoTo, LocalStep, OwnStep, Put, linkVars,
       PCs, MovePCs
  <2>6. pc'[t] = l /\ call'[t] = c /\ cur'[t] = r /\ gone'[t] = g /\ UNCHANGED <<inserted, next>>
    BY <2>5, <1>d DEF LocalStep, OwnStep, Put
  <2>7. c.op \in {"GetNext", "GetPrev"} /\ c.ref = r
    OBVIOUS
  <2>8. \A n \in g : Deleted(n)'
    BY <2>6 DEF Deleted
  <2> HIDE DEF c, g
  <2>10. CallOK(t)' /\ InsertOK(t)' /\ DeleteOK(t)'
    BY <2>2, <2>4, <2>6, <2>7, <2>8 DEF CallOK, InsertOK, DeleteOK, Members, BeforePCs, AfterPCs, DeletePCs, MovePCs
  <2>12. QED
    BY <2>5, <2>10, LocalStepInv
<1>4. CASE Return(t)
  <2>1. LocalStep(t, "idle", NoCall, Null, NoLink, NoLink, {})
    BY <1>4, LinkTypes DEF Return, GoTo, LocalStep, OwnStep, Put, linkVars, PCs
  <2>2. pc'[t] = "idle" /\ call'[t] = NoCall
    BY <2>1, <1>d DEF LocalStep, OwnStep, Put
  <2>3. CallOK(t)' /\ InsertOK(t)' /\ DeleteOK(t)'
    BY <2>2 DEF CallOK, InsertOK, DeleteOK, BeforePCs, AfterPCs, DeletePCs, MovePCs
  <2>4. QED
    BY <2>1, <2>3, LocalStepInv
<1>5. QED
  BY <1>1, <1>2, <1>3, <1>4 DEF Calls

-----------------------------------------------------------------------------
\* The node to be inserted gets its links: no member does.
LEMMA LinkSteps ==
  ASSUME MwInv, NEW t \in Threads, MwLinkBefore(t) \/ MwLinkAfter(t)
  PROVE  MwInv'
<1> USE ThreadTypes, MemberTypes
<1>0. /\ pc = [pc EXCEPT ![t] = pc[t]] /\ call = [call EXCEPT ![t] = call[t]] /\ cur = [cur EXCEPT ![t] = cur[t]]
      /\ lp = [lp EXCEPT ![t] = lp[t]] /\ ln = [ln EXCEPT ![t] = ln[t]] /\ gone = [gone EXCEPT ![t] = gone[t]]
  BY DEF MwInv, MwTypeOK
<1>d. DOMAIN pc = Threads /\ DOMAIN call = Threads /\ DOMAIN cur = Threads /\ DOMAIN lp = Threads
      /\ DOMAIN ln = Threads /\ DOMAIN gone = Threads
  BY DEF MwInv, MwTypeOK
<1> DEFINE n == call[t].node
<1>1. ASSUME NEW l \in {"ib_mwcas", "ia_mwcas"}, NEW p \in AllNodes, NEW x \in AllNodes,
             pc[t] \in BeforePCs \cup AfterPCs, SetLinks(n, p, x), GoTo(t, l),
             UNCHANGED <<call, localVars, historyVars>>
      PROVE  /\ OwnStep(t, l, call[t], cur[t], lp[t], ln[t], gone[t])
             /\ Benign(t) /\ ListInv' /\ LinkInv' /\ OrderInv'
             /\ next'[n] = To(x) /\ prev'[n] = To(p)
             /\ pc'[t] = l /\ \A m \in Members : next'[m] = next[m] /\ prev'[m] = prev[m]
  <2>1. n \in NewNode[t] \ inserted /\ n \in Nodes /\ n \notin Members /\ n \in AllNodes
    BY <1>1, NodeNames, CallsAssumption DEF CallOK, Members
  <2>2. next' = [next EXCEPT ![n] = To(x)] /\ prev' = [prev EXCEPT ![n] = To(p)]
    BY <1>1 DEF SetLinks, Put
  <2>3. next \in [AllNodes -> Link] /\ prev \in [AllNodes -> Link] /\ To(x) \in Link /\ To(p) \in Link
    BY LinkTypes DEF MwInv, MwTypeOK
  <2>4. \A m \in AllNodes : m # n => next'[m] = next[m] /\ prev'[m] = prev[m]
    BY <2>2, <2>3
  <2>5. next'[n] = To(x) /\ prev'[n] = To(p) /\ next' \in [AllNodes -> Link] /\ prev' \in [AllNodes -> Link]
    BY <2>1, <2>2, <2>3
  <2>6. inserted' = inserted
    BY <1>1 DEF historyVars
  <2>7. \A m \in Members : next'[m] = next[m] /\ prev'[m] = prev[m]
    BY <2>1, <2>4
  <2>8. ListInv' /\ LinkInv' /\ OrderInv'
    BY <2>6, <2>7, SameLinks
  <2>9. Benign(t)
    <3>1. \A u \in Threads \ {t} : n \notin NewNode[u] /\ NewNode[u] \subseteq AllNodes
      BY <2>1, CallsAssumption, NodeNames
    <3>2. QED
      BY <2>4, <2>5, <2>6, <2>7, <3>1 DEF Benign, Members
  <2>10. OwnStep(t, l, call[t], cur[t], lp[t], ln[t], gone[t])
    BY <1>0, <1>1 DEF OwnStep, GoTo, SetLinks, Put, localVars, historyVars, PCs, BeforePCs, AfterPCs
  <2>11. QED
    BY <1>d, <1>1, <2>5, <2>7, <2>8, <2>9, <2>10 DEF GoTo
<1> HIDE DEF n
<1>2. CASE MwLinkBefore(t)
  <2>0. pc[t] = "ib_link" /\ lp[t].to \in NotTail /\ cur[t] \in NotHead
    BY <1>2 DEF MwLinkBefore, Mw, At, InsertOK, BeforePCs
  <2>1. CASE next[lp[t].to].del
    <3>1. LocalStep(t, "ib_prev", call[t], cur[t], lp[t], ln[t], gone[t])
      BY <1>0, <1>2, <2>1 DEF MwLinkBefore, LocalStep, OwnStep, Put, GoTo, linkVars, localVars, historyVars, PCs,
         BeforePCs
    <3>2. CallOK(t)' /\ InsertOK(t)' /\ DeleteOK(t)'
      BY <3>1, <1>d, <2>0 DEF LocalStep, OwnStep, Put, CallOK, InsertOK, DeleteOK, BeforePCs, AfterPCs,
         DeletePCs, MovePCs, Deleted, NotHead, NotTail, Members
    <3>3. QED
      BY <3>1, <3>2, LocalStepInv
  <2>2. CASE ~next[lp[t].to].del
    <3>1. SetLinks(n, lp[t].to, cur[t]) /\ GoTo(t, "ib_mwcas") /\ UNCHANGED <<call, localVars, historyVars>>
      BY <1>2, <2>2 DEF MwLinkBefore, n
    <3>2. /\ OwnStep(t, "ib_mwcas", call[t], cur[t], lp[t], ln[t], gone[t])
          /\ Benign(t) /\ ListInv' /\ LinkInv' /\ OrderInv'
          /\ next'[n] = To(cur[t]) /\ prev'[n] = To(lp[t].to)
          /\ pc'[t] = "ib_mwcas" /\ \A m \in Members : next'[m] = next[m] /\ prev'[m] = prev[m]
      <4>1. pc[t] \in BeforePCs \cup AfterPCs /\ lp[t].to \in AllNodes /\ cur[t] \in AllNodes
        BY <2>0 DEF BeforePCs
      <4>2. QED
        BY <1>1, <3>1, <4>1
    <3>3. CallOK(t)' /\ InsertOK(t)' /\ DeleteOK(t)'
      BY <3>1, <3>2, <2>0 DEF n, localVars, historyVars, CallOK, InsertOK, DeleteOK, BeforePCs, AfterPCs,
         DeletePCs, MovePCs, Deleted, NotHead, NotTail, Members
    <3>4. QED
      BY <3>2, <3>3, OwnStepInv
  <2>3. QED
    BY <2>1, <2>2
<1>3. CASE MwLinkAfter(t)
  <2>0. pc[t] = "ia_link" /\ ln[t].to \in NotHead /\ cur[t] \in NotTail
    BY <1>3 DEF MwLinkAfter, Mw, At, InsertOK, AfterPCs
  <2>1. CASE next[ln[t].to].del
    <3>1. LocalStep(t, "ia_next", call[t], cur[t], lp[t], ln[t], gone[t])
      BY <1>0, <1>3, <2>1 DEF MwLinkAfter, LocalStep, OwnStep, Put, GoTo, linkVars, localVars, historyVars, PCs,
         AfterPCs
    <3>2. CallOK(t)' /\ InsertOK(t)' /\ DeleteOK(t)'
      BY <3>1, <1>d, <2>0 DEF LocalStep, OwnStep, Put, CallOK, InsertOK, DeleteOK, BeforePCs, AfterPCs,
         DeletePCs, MovePCs, Deleted, NotHead, NotTail, Members
    <3>3. QED
      BY <3>1, <3>2, LocalStepInv
  <2>2. CASE ~next[ln[t].to].del
    <3>1. SetLinks(n, cur[t], ln[t].to) /\ GoTo(t, "ia_mwcas") /\ UNCHANGED <<call, localVars, historyVars>>
      BY <1>3, <2>2 DEF MwLinkAfter, n
    <3>2. /\ OwnStep(t, "ia_mwcas", call[t], cur[t], lp[t], ln[t], gone[t])
          /\ Benign(t) /\ ListInv' /\ LinkInv' /\ OrderInv'
          /\ next'[n] = To(ln[t].to) /\ prev'[n] = To(cur[t])
          /\ pc'[t] = "ia_mwcas" /\ \A m \in Members : next'[m] = next[m] /\ prev'[m] = prev[m]
      <4>1. pc[t] \in BeforePCs \cup AfterPCs /\ ln[t].to \in AllNodes /\ cur[t] \in AllNodes
        BY <2>0 DEF AfterPCs
      <4>2. QED
        BY <1>1, <3>1, <4>1
    <3>3. CallOK(t)' /\ InsertOK(t)' /\ DeleteOK(t)'
      BY <3>1, <3>2, <2>0 DEF n, localVars, historyVars, CallOK, InsertOK, DeleteOK, BeforePCs, AfterPCs,
         DeletePCs, MovePCs, Deleted, NotHead, NotTail, Members
    <3>4. QED
      BY <3>2, <3>3, OwnStepInv
  <2>3. QED
    BY <2>1, <2>2
<1>4. QED
  BY <1>2, <1>3

-----------------------------------------------------------------------------
(***************************************************************************)
(* Insertion and deletion.                                                 *)
(***************************************************************************)
\* A sequence with an element put in after place k, and one without the element at k.
With(s, k, n) == SubSeq(s, 1, k) \o <<n>> \o SubSeq(s, k + 1, Len(s))
Without(s, k) == SubSeq(s, 1, k - 1) \o SubSeq(s, k + 1, Len(s))

\* What that means for the elements.
PutsIn(q, S, s, k, n) ==
  /\ q \in Seq(S) /\ Len(q) = Len(s) + 1
  /\ \A i \in 1 .. k : q[i] = s[i]
  /\ q[k + 1] = n
  /\ \A i \in k + 1 .. Len(s) : q[i + 1] = s[i]
TakesOut(q, S, s, k) ==
  /\ q \in Seq(S) /\ Len(q) = Len(s) - 1
  /\ \A i \in 1 .. k - 1 : q[i] = s[i]
  /\ \A i \in k .. Len(s) - 1 : q[i] = s[i + 1]

\* The places of elements in a concatenation.
LEMMA Joined ==
  ASSUME NEW S, NEW a \in Seq(S), NEW b \in Seq(S)
  PROVE  /\ a \o b \in Seq(S) /\ Len(a \o b) = Len(a) + Len(b)
         /\ \A i \in 1 .. Len(a) : (a \o b)[i] = a[i]
         /\ \A i \in 1 .. Len(b) : (a \o b)[Len(a) + i] = b[i]
  OBVIOUS

\* Where the elements are after one has been put in after place k.
LEMMA WithIs ==
  ASSUME NEW S, NEW s \in Seq(S), NEW k \in 1 .. Len(s), NEW n \in S
  PROVE  PutsIn(With(s, k, n), S, s, k, n)
<1> DEFINE a == SubSeq(s, 1, k)
           b == SubSeq(s, k + 1, Len(s))
<1>1. Len(s) \in Nat /\ k \in Nat /\ k >= 1 /\ k <= Len(s)
  OBVIOUS
<1>2. a \in Seq(S) /\ Len(a) = k /\ \A i \in 1 .. k : a[i] = s[i]
  BY <1>1
<1>3. b \in Seq(S) /\ Len(b) = Len(s) - k /\ \A i \in 1 .. Len(s) - k : b[i] = s[k + i]
  BY <1>1
<1>4. With(s, k, n) = a \o <<n>> \o b
  BY DEF With
<1> HIDE DEF a, b
<1>5. PICK c \in Seq(S) : c = a \o <<n>> /\ Len(c) = k + 1 /\ (\A i \in 1 .. k : c[i] = a[i]) /\ c[k + 1] = n
  <2>1. <<n>> \in Seq(S) /\ Len(<<n>>) = 1 /\ 1 \in 1 .. Len(<<n>>) /\ <<n>>[1] = n
    OBVIOUS
  <2>2. /\ a \o <<n>> \in Seq(S) /\ Len(a \o <<n>>) = Len(a) + Len(<<n>>)
        /\ \A i \in 1 .. Len(a) : (a \o <<n>>)[i] = a[i]
        /\ \A i \in 1 .. Len(<<n>>) : (a \o <<n>>)[Len(a) + i] = <<n>>[i]
    BY <1>2, <2>1, Joined
  <2>3. (a \o <<n>>)[Len(a) + 1] = n
    BY <2>1, <2>2, Zenon
  <2>4. QED
    BY <1>2, <2>1, <2>2, <2>3
<1>6. PICK q \in Seq(S) : q = c \o b /\ Len(q) = Len(s) + 1 /\ (\A i \in 1 .. k + 1 : q[i] = c[i])
                          /\ \A i \in 1 .. Len(b) : q[(k + 1) + i] = b[i]
  <2>1. /\ c \o b \in Seq(S) /\ Len(c \o b) = Len(c) + Len(b)
        /\ \A i \in 1 .. Len(c) : (c \o b)[i] = c[i]
        /\ \A i \in 1 .. Len(b) : (c \o b)[Len(c) + i] = b[i]
    <3>1. b \in Seq(S)
      BY <1>3
    <3>2. QED
      BY <3>1, Joined
  <2>2. Len(c) + Len(b) = Len(s) + 1
    <3>1. Len(c) = k + 1 /\ Len(b) = Len(s) - k
      BY <1>3, <1>5, Zenon
    <3>2. QED
      BY <1>1, <3>1
  <2>3. QED
    BY <1>5, <2>1, <2>2, ZenonT(40)
<1>7. ASSUME NEW i \in k + 1 .. Len(s) PROVE q[i + 1] = s[i]
  <2>1. PICK j \in 1 .. Len(b) : (k + 1) + j = i + 1 /\ k + j = i /\ j \in 1 .. Len(s) - k
    <3>1. i - k \in 1 .. Len(b) /\ (k + 1) + (i - k) = i + 1 /\ k + (i - k) = i /\ i - k \in 1 .. Len(s) - k
      BY <1>1, <1>3
    <3>2. QED
      BY <3>1
  <2>2. q[(k + 1) + j] = b[j] /\ b[j] = s[k + j]
    BY <1>3, <1>6, <2>1
  <2>3. QED
    BY <2>1, <2>2, Zenon
<1>8. QED
  BY <1>1, <1>2, <1>4, <1>5, <1>6, <1>7 DEF PutsIn

\* Where they are after the one at place k has been taken out.
LEMMA WithoutIs ==
  ASSUME NEW S, NEW s \in Seq(S), NEW k \in 1 .. Len(s)
  PROVE  TakesOut(Without(s, k), S, s, k)
<1> DEFINE a == SubSeq(s, 1, k - 1)
           b == SubSeq(s, k + 1, Len(s))
<1>1. Len(s) \in Nat /\ k \in Nat /\ k >= 1 /\ k <= Len(s)
  OBVIOUS
<1>2. a \in Seq(S) /\ Len(a) = k - 1 /\ \A i \in 1 .. k - 1 : a[i] = s[i]
  BY <1>1
<1>3. b \in Seq(S) /\ Len(b) = Len(s) - k /\ \A i \in 1 .. Len(s) - k : b[i] = s[k + i]
  BY <1>1
<1>4. Without(s, k) = a \o b
  BY DEF Without
<1> HIDE DEF a, b
<1>6. PICK q \in Seq(S) : q = a \o b /\ Len(q) = Len(s) - 1 /\ (\A i \in 1 .. k - 1 : q[i] = a[i])
                          /\ \A i \in 1 .. Len(b) : q[(k - 1) + i] = b[i]
  <2>1. /\ a \o b \in Seq(S) /\ Len(a \o b) = Len(a) + Len(b)
        /\ \A i \in 1 .. Len(a) : (a \o b)[i] = a[i]
        /\ \A i \in 1 .. Len(b) : (a \o b)[Len(a) + i] = b[i]
    <3>1. a \in Seq(S) /\ b \in Seq(S)
      BY <1>2, <1>3
    <3>2. QED
      BY <3>1, Joined
  <2>2. Len(a) + Len(b) = Len(s) - 1
    BY <1>1, <1>2, <1>3
  <2>3. QED
    BY <1>2, <2>1, <2>2, Zenon
<1>7. ASSUME NEW i \in k .. Len(s) - 1 PROVE q[i] = s[i + 1]
  <2>1. PICK j \in 1 .. Len(b) : (k - 1) + j = i /\ k + j = i + 1 /\ j \in 1 .. Len(s) - k
    <3>1. i - k + 1 \in 1 .. Len(b) /\ (k - 1) + (i - k + 1) = i /\ k + (i - k + 1) = i + 1
          /\ i - k + 1 \in 1 .. Len(s) - k
      BY <1>1, <1>3
    <3>2. QED
      BY <3>1
  <2>2. q[(k - 1) + j] = b[j] /\ b[j] = s[k + j]
    BY <1>3, <1>6, <2>1
  <2>3. QED
    BY <2>1, <2>2, Zenon
<1>8. QED
  BY <1>1, <1>2, <1>4, <1>6, <1>7 DEF TakesOut

\* What the multi-word compare-and-swaps do to links.
InsertEffect(n, p, x) ==
  /\ n \in Nodes \ inserted /\ p \in NotTail /\ x \in NotHead
  /\ next[p] = To(x) /\ prev[x] = To(p) /\ next[n] = To(x) /\ prev[n] = To(p)
  /\ next' \in [AllNodes -> Link] /\ prev' \in [AllNodes -> Link] /\ inserted' = inserted \cup {n}
  /\ next'[p] = To(n) /\ \A m \in AllNodes : m # p => next'[m] = next[m]
  /\ prev'[x] = To(n) /\ \A m \in AllNodes : m # x => prev'[m] = prev[m]
DeleteEffect(n, p, x) ==
  /\ n \in inserted /\ p \in NotTail /\ x \in NotHead
  /\ next[p] = To(n) /\ next[n] = To(x) /\ prev[x] = To(n)
  /\ next' \in [AllNodes -> Link] /\ prev' \in [AllNodes -> Link] /\ inserted' = inserted
  /\ next'[p] = To(x) /\ next'[n] = Marked(To(x)) /\ \A m \in AllNodes : m # p /\ m # n => next'[m] = next[m]
  /\ prev'[x] = To(p) /\ \A m \in AllNodes : m # x => prev'[m] = prev[m]

\* Where a node with an unmarked link is in the list.
LEMMA PlaceOf ==
  ASSUME MwInv, NEW s, IsList(s), NEW p \in NotTail, NEW x \in AllNodes, next[p] = To(x)
  PROVE  \E k \in 1 .. Len(s) - 1 : s[k] = p /\ s[k + 1] = x
<1>1. ~next[p].del /\ p \in Members /\ p # tail_
  BY LinkTypes, NodeNames, MemberTypes DEF NotTail, Members
<1>2. PICK k \in 1 .. Len(s) : s[k] = p
  BY <1>1 DEF IsList
<1>3. k \in 1 .. Len(s) - 1 /\ k + 1 \in 1 .. Len(s)
  BY <1>1, <1>2 DEF IsList
<1>4. next[p] = To(s[k + 1]) /\ s[k + 1] \in AllNodes
  BY <1>2, <1>3 DEF IsList
<1>5. s[k + 1] = x
  <2>1. To(x).to = x /\ To(s[k + 1]).to = s[k + 1]
    BY <1>4, LinkTypes
  <2>2. QED
    BY <1>4, <2>1, Zenon
<1>6. QED
  BY <1>2, <1>3, <1>5

\* After an insertion the list has the node between p and x.
LEMMA InsertList ==
  ASSUME MwInv, NEW s, IsList(s), NEW n, NEW p, NEW x, InsertEffect(n, p, x),
         NEW k \in 1 .. Len(s) - 1, s[k] = p, s[k + 1] = x
  PROVE  IsList(With(s, k, n))'
<1>0. Len(s) \in Nat /\ Len(s) >= 2 /\ k \in 1 .. Len(s) /\ k \in Nat /\ s \in Seq(AllNodes) /\ n \in AllNodes
      /\ p \in AllNodes /\ x \in AllNodes /\ n \notin Members /\ s[1] = head_ /\ s[Len(s)] = tail_
  BY MemberTypes, NodeNames DEF IsList, InsertEffect, Members
<1>1. PICK q \in Seq(AllNodes) :
        /\ q = With(s, k, n) /\ Len(q) = Len(s) + 1
        /\ \A i \in 1 .. k : q[i] = s[i]
        /\ q[k + 1] = n
        /\ \A i \in k + 1 .. Len(s) : q[i + 1] = s[i]
  <2>1. k \in 1 .. Len(s) /\ s \in Seq(AllNodes) /\ n \in AllNodes
    BY <1>0
  <2>2. PutsIn(With(s, k, n), AllNodes, s, k, n)
    BY <2>1, WithIs
  <2>3. QED
    BY <2>2, Zenon DEF PutsIn
<1>2. \A j \in 1 .. Len(q) : \/ j \in 1 .. k /\ q[j] = s[j]
                             \/ j = k + 1 /\ q[j] = n
                             \/ j - 1 \in k + 1 .. Len(s) /\ q[j] = s[j - 1]
  <2>1. ASSUME NEW j \in 1 .. Len(q), j \notin 1 .. k, j # k + 1
        PROVE  j - 1 \in k + 1 .. Len(s) /\ (j - 1) + 1 = j
    BY <1>0, <1>1, <2>1
  <2>2. QED
    BY <2>1, <1>1
<1>3. /\ \A i, j \in 1 .. Len(s) : s[i] = s[j] => i = j
      /\ \A i \in 1 .. Len(s) - 1 : next[s[i]] = To(s[i + 1]) /\ prev[s[i + 1]] = To(s[i])
      /\ \A i \in 1 .. Len(s) : s[i] \in Members /\ ~next[s[i]].del /\ s[i] # n /\ s[i] \in AllNodes
      /\ \A m \in Members : ~next[m].del => \E i \in 1 .. Len(s) : s[i] = m
  BY <1>0, MemberTypes DEF IsList
<1>4. Members' = Members \cup {n} /\ ~next'[p].del /\ ~next'[n].del /\ n # p /\ n # x
  <2>1. Members' = Members \cup {n}
    BY DEF Members, InsertEffect
  <2>2. n # p /\ n # x
    BY <1>0 DEF InsertEffect, NotTail, NotHead, Members
  <2>3. next'[p] = To(n) /\ next'[n] = To(x)
    BY <2>2, <1>0 DEF InsertEffect
  <2>4. QED
    BY <2>1, <2>2, <2>3, <1>0, LinkTypes
<1>5. q[1] = head_ /\ q[Len(q)] = tail_
  <2>1. 1 \in 1 .. k /\ Len(s) \in k + 1 .. Len(s)
    BY <1>0
  <2>2. QED
    BY <1>0, <1>1, <2>1
<1>6. ASSUME NEW i \in 1 .. Len(q), NEW j \in 1 .. Len(q), q[i] = q[j] PROVE i = j
  <2>1. \A j1 \in 1 .. Len(q) : q[j1] # n =>
          \E a \in 1 .. Len(s) : q[j1] = s[a] /\ ((j1 = a /\ a <= k) \/ (j1 = a + 1 /\ a > k))
    <3> SUFFICES ASSUME NEW j1 \in 1 .. Len(q), q[j1] # n
                 PROVE  \E a \in 1 .. Len(s) : q[j1] = s[a] /\ ((j1 = a /\ a <= k) \/ (j1 = a + 1 /\ a > k))
      OBVIOUS
    <3>1. CASE j1 \in 1 .. k /\ q[j1] = s[j1]
      <4>1. j1 \in 1 .. Len(s) /\ j1 <= k
        BY <1>0, <3>1
      <4>2. QED
        BY <3>1, <4>1
    <3>2. CASE j1 - 1 \in k + 1 .. Len(s) /\ q[j1] = s[j1 - 1]
      <4>1. j1 - 1 \in 1 .. Len(s) /\ j1 - 1 > k /\ j1 = (j1 - 1) + 1
        BY <1>0, <3>2
      <4>2. QED
        BY <3>2, <4>1
    <3>3. QED
      BY <1>2, <3>1, <3>2
  <2>2. \A j1 \in 1 .. Len(q) : q[j1] = n => j1 = k + 1
    <3>1. (\A a \in 1 .. k : a \in 1 .. Len(s)) /\ \A a \in k + 1 .. Len(s) : a \in 1 .. Len(s)
      BY <1>0
    <3>2. QED
      BY <1>2, <1>3, <3>1
  <2>3. CASE q[i] = n
    BY <2>2, <2>3, <1>6
  <2>4. CASE q[i] # n
    <3>1. PICK a \in 1 .. Len(s) : q[i] = s[a] /\ ((i = a /\ a <= k) \/ (i = a + 1 /\ a > k))
      BY <2>1, <2>4
    <3>2. PICK b \in 1 .. Len(s) : q[j] = s[b] /\ ((j = b /\ b <= k) \/ (j = b + 1 /\ b > k))
      BY <2>1, <2>4, <1>6
    <3>3. a = b
      <4>1. s[a] = s[b]
        BY <1>6, <3>1, <3>2, Zenon
      <4>2. QED
        BY <1>3, <4>1, Zenon
    <3>4. QED
      BY <1>0, <3>1, <3>2, <3>3
  <2>6. QED
    BY <2>3, <2>4
<1>7. ASSUME NEW i \in 1 .. Len(q) - 1
      PROVE  next'[q[i]] = To(q[i + 1]) /\ prev'[q[i + 1]] = To(q[i])
  <2>1. CASE i < k
    <3>1. i \in 1 .. k /\ i + 1 \in 1 .. k /\ i \in 1 .. Len(s) - 1 /\ i # k /\ i + 1 # k + 1 /\ i + 1 \in 1 .. Len(s)
          /\ i \in 1 .. Len(s) /\ k + 1 \in 1 .. Len(s)
      BY <1>0, <2>1
    <3>2. q[i] = s[i] /\ q[i + 1] = s[i + 1] /\ s[i] # p /\ s[i + 1] # x
      BY <1>0, <1>1, <1>3, <3>1
    <3>3. QED
      BY <3>1, <3>2, <1>3 DEF InsertEffect
  <2>2. CASE i = k
    <3>1. q[i] = p /\ q[i + 1] = n
      BY <2>2, <1>0, <1>1, SMTT(40)
    <3>2. QED
      BY <3>1, <1>4, <1>0 DEF InsertEffect
  <2>3. CASE i = k + 1
    <3>1. q[i] = n /\ q[i + 1] = x
      BY <2>3, <1>0, <1>1
    <3>2. QED
      BY <3>1, <1>4, <1>0 DEF InsertEffect
  <2>4. CASE i > k + 1
    <3>1. i - 1 \in k + 1 .. Len(s) /\ i \in k + 1 .. Len(s) /\ (i - 1) + 1 = i /\ i - 1 \in 1 .. Len(s) - 1
          /\ i - 1 # k /\ i # k + 1 /\ i \in 1 .. Len(s) /\ i - 1 \in 1 .. Len(s) /\ k + 1 \in 1 .. Len(s)
      BY <1>0, <1>1, <2>4
    <3>2. q[i] = s[i - 1] /\ q[i + 1] = s[i] /\ s[i - 1] # p /\ s[i] # x
      BY <1>0, <1>1, <1>3, <3>1
    <3>3. next[s[i - 1]] = To(s[i]) /\ prev[s[i]] = To(s[i - 1])
      BY <1>3, <3>1
    <3>4. QED
      BY <3>1, <3>2, <3>3, <1>3, SMTT(40) DEF InsertEffect
  <2>5. QED
    BY <2>1, <2>2, <2>3, <2>4, <1>0, <1>1
<1>8. ASSUME NEW i \in 1 .. Len(q) PROVE q[i] \in Members' /\ ~next'[q[i]].del
  <2>1. \A a \in 1 .. Len(s) : s[a] \in Members' /\ ~next'[s[a]].del
    BY <1>3, <1>4 DEF InsertEffect
  <2>2. (\A a \in 1 .. k : a \in 1 .. Len(s)) /\ \A a \in k + 1 .. Len(s) : a \in 1 .. Len(s)
    BY <1>0
  <2>3. QED
    BY <1>2, <1>4, <2>1, <2>2
<1>9. ASSUME NEW m \in Members', ~next'[m].del PROVE \E i \in 1 .. Len(q) : q[i] = m
  <2>1. CASE m = n
    <3>1. k + 1 \in 1 .. Len(q)
      BY <1>0, <1>1
    <3>2. QED
      BY <2>1, <3>1, <1>1
  <2>2. CASE m # n
    <3>1. m \in Members /\ m \in AllNodes
      BY <2>2, <1>4, MemberTypes
    <3>2. ~next[m].del
      <4>1. CASE m = p
        BY <4>1, <1>0, LinkTypes DEF InsertEffect
      <4>2. CASE m # p
        BY <4>2, <3>1, <1>9 DEF InsertEffect
      <4>3. QED
        BY <4>1, <4>2
    <3>3. PICK i \in 1 .. Len(s) : s[i] = m
      BY <3>1, <3>2, <1>3
    <3>4. CASE i \in 1 .. k
      <4>1. i \in 1 .. Len(q)
        BY <1>0, <1>1
      <4>2. QED
        BY <3>3, <3>4, <4>1, <1>1
    <3>5. CASE i \notin 1 .. k
      <4>1. i \in k + 1 .. Len(s) /\ i + 1 \in 1 .. Len(q)
        BY <1>0, <1>1, <3>5
      <4>2. QED
        BY <3>3, <4>1, <1>1
    <3>6. QED
      BY <3>4, <3>5
  <2>3. QED
    BY <2>1, <2>2
<1>10. Len(q) >= 2
  BY <1>0, <1>1
<1>11. IsList(q)'
  BY <1>5, <1>6, <1>7, <1>8, <1>9, <1>10 DEF IsList
<1>12. QED
  BY <1>1, <1>11

\* After a deletion it has lost the node.
LEMMA DeleteList ==
  ASSUME MwInv, NEW s, IsList(s), NEW n, NEW p, NEW x, DeleteEffect(n, p, x),
         NEW k \in 2 .. Len(s) - 1, s[k - 1] = p, s[k] = n, s[k + 1] = x
  PROVE  IsList(Without(s, k))'
<1>0. Len(s) \in Nat /\ Len(s) >= 2 /\ k \in 1 .. Len(s) /\ k \in Nat /\ k >= 2 /\ s \in Seq(AllNodes)
      /\ n \in AllNodes /\ p \in AllNodes /\ x \in AllNodes /\ s[1] = head_ /\ s[Len(s)] = tail_
      /\ k - 1 \in 1 .. Len(s) /\ k + 1 \in 1 .. Len(s) /\ k <= Len(s) - 1
  BY MemberTypes, NodeNames DEF IsList, DeleteEffect
<1>1. PICK q \in Seq(AllNodes) :
        /\ q = Without(s, k) /\ Len(q) = Len(s) - 1
        /\ \A i \in 1 .. k - 1 : q[i] = s[i]
        /\ \A i \in k .. Len(s) - 1 : q[i] = s[i + 1]
  <2>1. k \in 1 .. Len(s) /\ s \in Seq(AllNodes)
    BY <1>0
  <2>2. TakesOut(Without(s, k), AllNodes, s, k)
    BY <2>1, WithoutIs
  <2>3. QED
    BY <2>2, Zenon DEF TakesOut
<1>2. \A j \in 1 .. Len(q) : \E a \in 1 .. Len(s) :
         q[j] = s[a] /\ a # k /\ ((j = a /\ a < k) \/ (j = a - 1 /\ a > k))
  <2> SUFFICES ASSUME NEW j \in 1 .. Len(q)
               PROVE  \E a \in 1 .. Len(s) :
                        q[j] = s[a] /\ a # k /\ ((j = a /\ a < k) \/ (j = a - 1 /\ a > k))
    OBVIOUS
  <2>1. CASE j < k
    <3>1. j \in 1 .. k - 1 /\ j \in 1 .. Len(s) /\ j # k
      BY <1>0, <2>1
    <3>2. QED
      BY <1>1, <2>1, <3>1
  <2>2. CASE ~(j < k)
    <3>1. j \in k .. Len(s) - 1 /\ j + 1 \in 1 .. Len(s) /\ j + 1 # k /\ j = (j + 1) - 1 /\ j + 1 > k
      BY <1>0, <1>1, <2>2
    <3>2. QED
      BY <1>1, <3>1
  <2>3. QED
    BY <2>1, <2>2
<1>3. /\ \A i, j \in 1 .. Len(s) : s[i] = s[j] => i = j
      /\ \A i \in 1 .. Len(s) - 1 : next[s[i]] = To(s[i + 1]) /\ prev[s[i + 1]] = To(s[i])
      /\ \A i \in 1 .. Len(s) : s[i] \in Members /\ ~next[s[i]].del /\ s[i] \in AllNodes
      /\ \A m \in Members : ~next[m].del => \E i \in 1 .. Len(s) : s[i] = m
  BY <1>0, MemberTypes DEF IsList
<1>4. Members' = Members /\ ~next'[p].del /\ next'[n].del /\ n # p /\ n # x
  <2>1. Members' = Members
    BY DEF Members, DeleteEffect
  <2>2. n # p /\ n # x
    BY <1>0, <1>3
  <2>3. next'[p] = To(x) /\ next'[n] = Marked(To(x))
    BY DEF DeleteEffect
  <2>4. QED
    BY <2>1, <2>2, <2>3, <1>0, LinkTypes
<1>5. q[1] = head_ /\ q[Len(q)] = tail_
  <2>1. 1 \in 1 .. k - 1 /\ Len(s) - 1 \in k .. Len(s) - 1 /\ (Len(s) - 1) + 1 = Len(s)
    BY <1>0
  <2>2. QED
    BY <1>0, <1>1, <2>1
<1>6. ASSUME NEW i \in 1 .. Len(q), NEW j \in 1 .. Len(q), q[i] = q[j] PROVE i = j
  <2>1. PICK a \in 1 .. Len(s) : q[i] = s[a] /\ a # k /\ ((i = a /\ a < k) \/ (i = a - 1 /\ a > k))
    BY <1>2
  <2>2. PICK b \in 1 .. Len(s) : q[j] = s[b] /\ b # k /\ ((j = b /\ b < k) \/ (j = b - 1 /\ b > k))
    BY <1>2
  <2>3. a = b
    <3>1. s[a] = s[b]
      BY <1>6, <2>1, <2>2, Zenon
    <3>2. QED
      BY <1>3, <3>1, Zenon
  <2>4. QED
    BY <1>0, <2>1, <2>2, <2>3
<1>7. ASSUME NEW i \in 1 .. Len(q) - 1
      PROVE  next'[q[i]] = To(q[i + 1]) /\ prev'[q[i + 1]] = To(q[i])
  <2>1. CASE i < k - 1
    <3>1. i \in 1 .. k - 1 /\ i + 1 \in 1 .. k - 1 /\ i \in 1 .. Len(s) - 1 /\ i # k - 1 /\ i # k
          /\ i + 1 # k + 1 /\ i + 1 \in 1 .. Len(s) /\ i \in 1 .. Len(s)
      BY <1>0, <2>1
    <3>2. q[i] = s[i] /\ q[i + 1] = s[i + 1] /\ s[i] # p /\ s[i] # n /\ s[i + 1] # x
      BY <1>0, <1>1, <1>3, <3>1
    <3>3. QED
      BY <3>1, <3>2, <1>3, SMTT(40) DEF DeleteEffect
  <2>2. CASE i = k - 1
    <3>1. i \in 1 .. k - 1 /\ i + 1 = k /\ k \in k .. Len(s) - 1
      BY <2>2, <1>0
    <3>2. q[i] = p /\ q[i + 1] = x
      BY <2>2, <3>1, <1>0, <1>1
    <3>3. QED
      BY <3>2 DEF DeleteEffect
  <2>3. CASE i > k - 1
    <3>1. i \in k .. Len(s) - 1 /\ i + 1 \in k .. Len(s) - 1 /\ i + 1 \in 1 .. Len(s) - 1
          /\ i + 1 # k - 1 /\ i + 1 # k /\ (i + 1) + 1 # k + 1 /\ i + 1 \in 1 .. Len(s) /\ (i + 1) + 1 \in 1 .. Len(s)
      BY <1>0, <1>1, <2>3
    <3>2. q[i] = s[i + 1] /\ q[i + 1] = s[(i + 1) + 1]
      BY <1>1, <3>1
    <3>3. s[i + 1] # p /\ s[i + 1] # n /\ s[(i + 1) + 1] # x
      BY <1>0, <1>3, <3>1
    <3>4. next[s[i + 1]] = To(s[(i + 1) + 1]) /\ prev[s[(i + 1) + 1]] = To(s[i + 1])
      BY <1>3, <3>1
    <3>5. QED
      BY <3>1, <3>2, <3>3, <3>4, <1>3 DEF DeleteEffect
  <2>4. QED
    BY <2>1, <2>2, <2>3, <1>0, <1>1
<1>8. ASSUME NEW i \in 1 .. Len(q) PROVE q[i] \in Members' /\ ~next'[q[i]].del
  <2>1. PICK a \in 1 .. Len(s) : q[i] = s[a] /\ a # k
    BY <1>2
  <2>2. s[a] # n /\ s[a] \in AllNodes
    BY <1>0, <1>3, <2>1
  <2>3. CASE s[a] = p
    BY <2>1, <2>3, <1>3, <1>4
  <2>4. CASE s[a] # p
    <3>1. next'[s[a]] = next[s[a]]
      BY <2>2, <2>4 DEF DeleteEffect
    <3>2. QED
      BY <3>1, <2>1, <1>3, <1>4
  <2>5. QED
    BY <2>3, <2>4
<1>9. ASSUME NEW m \in Members', ~next'[m].del PROVE \E i \in 1 .. Len(q) : q[i] = m
  <2>1. m # n /\ m \in Members /\ m \in AllNodes
    BY <1>4, <1>9, MemberTypes
  <2>2. ~next[m].del
    <3>1. CASE m = p
      BY <3>1, <1>0, LinkTypes DEF DeleteEffect
    <3>2. CASE m # p
      BY <3>2, <2>1, <1>9 DEF DeleteEffect
    <3>3. QED
      BY <3>1, <3>2
  <2>3. PICK i \in 1 .. Len(s) : s[i] = m
    BY <2>1, <2>2, <1>3
  <2>4. CASE i < k
    <3>1. i \in 1 .. Len(q) /\ i \in 1 .. k - 1
      BY <1>0, <1>1, <2>4
    <3>2. QED
      BY <2>3, <3>1, <1>1
  <2>5. CASE ~(i < k)
    <3>1. i - 1 \in 1 .. Len(q) /\ i - 1 \in k .. Len(s) - 1 /\ (i - 1) + 1 = i
      <4>1. i # k
        BY <2>1, <2>3
      <4>2. QED
        BY <1>0, <1>1, <2>5, <4>1
    <3>2. QED
      BY <2>3, <3>1, <1>1
  <2>6. QED
    BY <2>4, <2>5
<1>10. Len(q) >= 2
  BY <1>0, <1>1
<1>11. IsList(q)'
  BY <1>5, <1>6, <1>7, <1>8, <1>9, <1>10 DEF IsList
<1>12. QED
  BY <1>1, <1>11

\* An insertion keeps the links within the members, and finds the node a place in
\* the order: above p and all that is below p, below x and all that is above x.
LEMMA InsertLinks ==
  ASSUME MwInv, NEW n, NEW p, NEW x, InsertEffect(n, p, x)
  PROVE  LinkInv' /\ OrderInv'
<1>0. /\ n \in AllNodes /\ p \in AllNodes /\ x \in AllNodes /\ n \notin Members /\ n # p /\ n # x
      /\ p \in Members /\ x \in Members /\ Members \subseteq AllNodes
      /\ head_ \in AllNodes /\ tail_ \in AllNodes /\ n # head_ /\ n # tail_ /\ p # tail_ /\ x # head_
  BY MemberTypes, NodeNames DEF InsertEffect, Members, NotTail, NotHead
<1>1. Members' = Members \cup {n} /\ NotTail' = NotTail \cup {n} /\ NotHead' = NotHead \cup {n}
      /\ NotTail \subseteq Members /\ NotHead \subseteq Members
  BY DEF InsertEffect, Members, NotTail, NotHead
<1>2. To(n).to = n /\ To(x).to = x /\ To(p).to = p /\ ~To(n).del /\ ~To(p).del
  BY <1>0, LinkTypes
<1>3. next'[n] = To(x) /\ prev'[n] = To(p) /\ next'[p] = To(n) /\ prev'[x] = To(n)
  BY <1>0 DEF InsertEffect
<1>4. LinkInv'
  <2>1. LinkInv
    BY DEF MwInv
  <2>2. next'[tail_] = next[tail_] /\ prev'[head_] = prev[head_]
    BY <1>0 DEF InsertEffect
  <2>3. ASSUME NEW m \in NotTail' PROVE next'[m].to \in NotHead'
    <3>1. CASE m = n
      BY <3>1, <1>1, <1>2, <1>3 DEF InsertEffect
    <3>2. CASE m = p
      BY <3>2, <1>1, <1>2, <1>3
    <3>3. CASE m # n /\ m # p
      BY <3>3, <2>1, <1>0, <1>1 DEF LinkInv, InsertEffect
    <3>4. QED
      BY <3>1, <3>2, <3>3
  <2>4. ASSUME NEW m \in NotHead' PROVE prev'[m].to \in NotTail' /\ ~prev'[m].del
    <3>1. CASE m = n
      BY <3>1, <1>1, <1>2, <1>3 DEF InsertEffect
    <3>2. CASE m = x
      BY <3>2, <1>1, <1>2, <1>3
    <3>3. CASE m # n /\ m # x
      BY <3>3, <2>1, <1>0, <1>1 DEF LinkInv, InsertEffect
    <3>4. QED
      BY <3>1, <3>2, <3>3
  <2>5. QED
    BY <2>1, <2>2, <2>3, <2>4 DEF LinkInv
<1>5. PICK R : IsOrder(R) /\ Follows(R)
  BY DEF MwInv, OrderInv
<1> DEFINE Below == {m \in Members : m = p \/ <<m, p>> \in R}
           Above == {m \in Members : m = x \/ <<x, m>> \in R}
<1>b. PICK Q : Q = R \cup (Below \X {n}) \cup ({n} \X Above)
  OBVIOUS
<1>6. <<p, x>> \in R
  BY <1>2, <1>5 DEF Follows, InsertEffect
<1>7. \A b \in Below, a \in Above : <<b, a>> \in R
  BY <1>0, <1>5, <1>6 DEF IsOrder
<1>8. \A u, v : <<u, v>> \in R => u \in Members /\ v \in Members
  BY <1>5 DEF IsOrder
<1>9. \A u, v : <<u, v>> \in Q <=> <<u, v>> \in R \/ (v = n /\ u \in Below) \/ (u = n /\ v \in Above)
  BY <1>b
<1>10. /\ \A u \in Below : \A v : <<v, u>> \in R => v \in Below
       /\ \A u \in Above : \A v : <<u, v>> \in R => v \in Above
  BY <1>0, <1>5, <1>8 DEF IsOrder
<1>11. \A u \in Members : u \notin Below \/ u \notin Above
  BY <1>5, <1>7 DEF IsOrder
<1>12. p \in Below /\ x \in Above /\ Below \subseteq Members /\ Above \subseteq Members
  BY <1>0
<1>13. Q \subseteq Members' \X Members'
  BY <1>b, <1>1, <1>5, <1>12 DEF IsOrder
<1> HIDE DEF Below, Above
<1>14. ASSUME NEW u \in Members' PROVE <<u, u>> \notin Q
  <2>1. n \notin Below /\ n \notin Above /\ <<n, n>> \notin R
    BY <1>0, <1>8, <1>12
  <2>2. CASE u = n
    BY <2>1, <2>2, <1>9
  <2>3. CASE u # n
    <3>1. u \in Members
      BY <2>3, <1>1
    <3>2. <<u, u>> \notin R
      BY <3>1, <1>5 DEF IsOrder
    <3>3. QED
      BY <2>3, <3>2, <1>9
  <2>4. QED
    BY <2>2, <2>3
<1>15. ASSUME NEW u \in Members', NEW v \in Members', NEW w \in Members', <<u, v>> \in Q, <<v, w>> \in Q
       PROVE  <<u, w>> \in Q
  <2>1. CASE <<u, v>> \in R
    <3>1. u \in Members /\ v \in Members /\ v # n
      BY <2>1, <1>0, <1>8
    <3>2. CASE <<v, w>> \in R
      <4>1. <<u, w>> \in R
        BY <2>1, <3>1, <3>2, <1>5, <1>8 DEF IsOrder
      <4>2. QED
        BY <4>1, <1>9
    <3>3. CASE w = n /\ v \in Below
      BY <2>1, <3>3, <1>9, <1>10
    <3>4. QED
      BY <3>1, <3>2, <3>3, <1>9, <1>15
  <2>2. CASE v = n /\ u \in Below
    <3>1. w \in Above
      BY <2>2, <1>0, <1>8, <1>9, <1>12, <1>15
    <3>2. QED
      BY <2>2, <3>1, <1>7, <1>9
  <2>3. CASE u = n /\ v \in Above
    <3>1. v \in Members /\ v \notin Below /\ v # n
      BY <2>3, <1>0, <1>11, <1>12
    <3>2. <<v, w>> \in R
      BY <3>1, <1>9, <1>15
    <3>3. QED
      BY <2>3, <3>2, <1>9, <1>10
  <2>4. QED
    BY <2>1, <2>2, <2>3, <1>9, <1>15
<1>16. IsOrder(Q)'
  BY <1>13, <1>14, <1>15 DEF IsOrder
<1>17. ASSUME NEW m \in NotTail' PROVE <<m, next'[m].to>> \in Q
  <2>1. CASE m = n
    BY <2>1, <1>2, <1>3, <1>9, <1>12
  <2>2. CASE m = p
    BY <2>2, <1>2, <1>3, <1>9, <1>12
  <2>3. CASE m # n /\ m # p
    <3>1. m \in NotTail /\ next'[m] = next[m]
      BY <2>3, <1>0, <1>1 DEF InsertEffect
    <3>2. QED
      BY <3>1, <1>5, <1>9 DEF Follows
  <2>4. QED
    BY <2>1, <2>2, <2>3
<1>18. ASSUME NEW m \in NotHead' PROVE <<prev'[m].to, m>> \in Q
  <2>1. CASE m = n
    BY <2>1, <1>2, <1>3, <1>9, <1>12
  <2>2. CASE m = x
    BY <2>2, <1>2, <1>3, <1>9, <1>12
  <2>3. CASE m # n /\ m # x
    <3>1. m \in NotHead /\ prev'[m] = prev[m]
      BY <2>3, <1>0, <1>1 DEF InsertEffect
    <3>2. QED
      BY <3>1, <1>5, <1>9 DEF Follows
  <2>4. QED
    BY <2>1, <2>2, <2>3
<1>19. Follows(Q)'
  BY <1>17, <1>18 DEF Follows
<1>20. QED
  BY <1>4, <1>16, <1>19 DEF OrderInv

\* A deletion keeps them too: what it links follows in the order.
LEMMA DeleteLinks ==
  ASSUME MwInv, NEW n, NEW p, NEW x, DeleteEffect(n, p, x), n # p
  PROVE  LinkInv' /\ OrderInv'
<1>0. /\ n \in AllNodes /\ p \in AllNodes /\ x \in AllNodes /\ Members \subseteq AllNodes
      /\ n \in Members /\ p \in Members /\ x \in Members
      /\ head_ \in AllNodes /\ tail_ \in AllNodes /\ n # head_ /\ n # tail_ /\ p # tail_ /\ x # head_
  BY MemberTypes, NodeNames DEF DeleteEffect, Members, NotTail, NotHead
<1>1. Members' = Members /\ NotTail' = NotTail /\ NotHead' = NotHead
      /\ NotTail \subseteq Members /\ NotHead \subseteq Members /\ n \in NotTail /\ n \in NotHead
  BY DEF DeleteEffect, Members, NotTail, NotHead
<1>2. To(n).to = n /\ To(x).to = x /\ To(p).to = p /\ ~To(p).del /\ Marked(To(x)).to = x
  BY <1>0, LinkTypes
<1>3. next'[n] = Marked(To(x)) /\ next'[p] = To(x) /\ prev'[x] = To(p)
  BY DEF DeleteEffect
<1>4. LinkInv'
  <2>1. LinkInv
    BY DEF MwInv
  <2>2. next'[tail_] = next[tail_] /\ prev'[head_] = prev[head_]
    BY <1>0 DEF DeleteEffect
  <2>3. ASSUME NEW m \in NotTail' PROVE next'[m].to \in NotHead'
    <3>1. CASE m = n \/ m = p
      BY <3>1, <1>1, <1>2, <1>3 DEF DeleteEffect
    <3>2. CASE m # n /\ m # p
      BY <3>2, <2>1, <1>0, <1>1 DEF LinkInv, DeleteEffect
    <3>3. QED
      BY <3>1, <3>2
  <2>4. ASSUME NEW m \in NotHead' PROVE prev'[m].to \in NotTail' /\ ~prev'[m].del
    <3>1. CASE m = x
      BY <3>1, <1>1, <1>2, <1>3 DEF DeleteEffect
    <3>2. CASE m # x
      BY <3>2, <2>1, <1>0, <1>1 DEF LinkInv, DeleteEffect
    <3>3. QED
      BY <3>1, <3>2
  <2>5. QED
    BY <2>1, <2>2, <2>3, <2>4 DEF LinkInv
<1>5. PICK R : IsOrder(R) /\ Follows(R)
  BY DEF MwInv, OrderInv
<1>6. <<p, n>> \in R /\ <<n, x>> \in R
  BY <1>1, <1>2, <1>5 DEF Follows, DeleteEffect
<1>7. <<p, x>> \in R
  BY <1>0, <1>5, <1>6 DEF IsOrder
<1>8. IsOrder(R)'
  BY <1>1, <1>5 DEF IsOrder
<1>9. ASSUME NEW m \in NotTail' PROVE <<m, next'[m].to>> \in R
  <2>1. CASE m = n
    BY <2>1, <1>2, <1>3, <1>6
  <2>2. CASE m = p
    BY <2>2, <1>2, <1>3, <1>7
  <2>3. CASE m # n /\ m # p
    <3>1. m \in NotTail /\ next'[m] = next[m]
      BY <2>3, <1>0, <1>1 DEF DeleteEffect
    <3>2. QED
      BY <3>1, <1>5 DEF Follows
  <2>4. QED
    BY <2>1, <2>2, <2>3
<1>10. ASSUME NEW m \in NotHead' PROVE <<prev'[m].to, m>> \in R
  <2>1. CASE m = x
    BY <2>1, <1>2, <1>3, <1>7
  <2>2. CASE m # x
    <3>1. m \in NotHead /\ prev'[m] = prev[m]
      BY <2>2, <1>0, <1>1 DEF DeleteEffect
    <3>2. QED
      BY <3>1, <1>5 DEF Follows
  <2>3. QED
    BY <2>1, <2>2
<1>11. Follows(R)'
  BY <1>9, <1>10 DEF Follows
<1>12. QED
  BY <1>4, <1>8, <1>11 DEF OrderInv

-----------------------------------------------------------------------------
\* h has the links f, but c at a; but c at a and e at d.
SetsOne(h, f, a, c) ==
  /\ h \in [AllNodes -> Link] /\ h[a] = c
  /\ \A m \in AllNodes : m # a => h[m] = f[m]
SetsTwo(h, f, a, c, d, e) ==
  /\ h \in [AllNodes -> Link] /\ h[a] = c /\ h[d] = e
  /\ \A m \in AllNodes : m # a /\ m # d => h[m] = f[m]

\* The word that a multi-word compare-and-swap of one entry changes.
LEMMA ChangedOne ==
  ASSUME NEW f \in [AllNodes -> Link], NEW a \in AllNodes, NEW b, NEW c \in Link
  PROVE  SetsOne(Changed(f, {<<a, b, c>>}), f, a, c)
<1> DEFINE E == {<<a, b, c>>}
<1>1. \A m : (\E e \in E : e[1] = m) <=> m = a
  OBVIOUS
<1>2. (CHOOSE e \in E : e[1] = a) = <<a, b, c>>
  OBVIOUS
<1>3. \A m \in AllNodes : Changed(f, E)[m] = IF m = a THEN c ELSE f[m]
  BY <1>1, <1>2 DEF Changed
<1>4. Changed(f, E) = [m \in AllNodes |-> Changed(f, E)[m]]
  BY DEF Changed
<1> HIDE DEF E
<1>5. Changed(f, E) \in [AllNodes -> Link]
  BY <1>3, <1>4
<1>6. QED
  BY <1>3, <1>5 DEF E, SetsOne

\* The same for two words of different nodes.
LEMMA ChangedTwo ==
  ASSUME NEW f \in [AllNodes -> Link], NEW a \in AllNodes, NEW b, NEW c \in Link,
         NEW d \in AllNodes, NEW g, NEW h \in Link, a # d
  PROVE  SetsTwo(Changed(f, {<<a, b, c>>, <<d, g, h>>}), f, a, c, d, h)
<1> DEFINE E == {<<a, b, c>>, <<d, g, h>>}
<1>1. \A m : (\E e \in E : e[1] = m) <=> m = a \/ m = d
  OBVIOUS
<1>2. (CHOOSE e \in E : e[1] = a) = <<a, b, c>> /\ (CHOOSE e \in E : e[1] = d) = <<d, g, h>>
  <2>1. \A e \in E : (e[1] = a <=> e = <<a, b, c>>) /\ (e[1] = d <=> e = <<d, g, h>>)
    OBVIOUS
  <2>2. QED
    BY <2>1
<1>3. \A m \in AllNodes : Changed(f, E)[m] = IF m = a THEN c ELSE IF m = d THEN h ELSE f[m]
  BY <1>1, <1>2 DEF Changed
<1>4. Changed(f, E) = [m \in AllNodes |-> Changed(f, E)[m]]
  BY DEF Changed
<1> HIDE DEF E
<1>5. Changed(f, E) \in [AllNodes -> Link]
  BY <1>3, <1>4
<1>6. QED
  BY <1>3, <1>5 DEF E, SetsTwo

\* An insertion that succeeds, for a node of the thread's own that is not in the list.
Inserts(t, n, p, x) ==
  /\ InsertEffect(n, p, x) /\ n \in NewNode[t] /\ n = call[t].node
  /\ OwnStep(t, "return", call[t], cur[t], lp[t], ln[t], gone[t])
\* A deletion that succeeds.
Deletes(t, n, p, x) ==
  /\ DeleteEffect(n, p, x) /\ n # p /\ call[t].op = "Delete" /\ n = call[t].ref
  /\ OwnStep(t, "return", call[t], cur[t], lp[t], ln[t], gone[t])
\* One that has to start again.
Retries(t, l) ==
  /\ LocalStep(t, l, call[t], cur[t], lp[t], ln[t], gone[t])
  /\ \/ pc[t] = "ib_mwcas" /\ l = "ib_prev"
     \/ pc[t] = "ia_mwcas" /\ l = "ia_next"
     \/ pc[t] = "d_mwcas" /\ l = "d_next"

\* The multi-word CAS of an insertion succeeds between two neighbours, or it is tried again.
LEMMA InsertCases ==
  ASSUME MwInv, NEW t \in Threads, MwInsertBefore(t) \/ MwInsertAfter(t)
  PROVE  \/ \E l : Retries(t, l)
         \/ /\ MwInsertBefore(t) /\ pc[t] = "ib_mwcas" /\ Inserts(t, call[t].node, lp[t].to, cur[t])
         \/ /\ MwInsertAfter(t) /\ pc[t] = "ia_mwcas" /\ Inserts(t, call[t].node, cur[t], ln[t].to)
<1> USE ThreadTypes, MemberTypes
<1>0. /\ pc = [pc EXCEPT ![t] = pc[t]] /\ call = [call EXCEPT ![t] = call[t]] /\ cur = [cur EXCEPT ![t] = cur[t]]
      /\ lp = [lp EXCEPT ![t] = lp[t]] /\ ln = [ln EXCEPT ![t] = ln[t]] /\ gone = [gone EXCEPT ![t] = gone[t]]
  BY DEF MwInv, MwTypeOK
<1>1. PICK n : n = call[t].node
  OBVIOUS
<1>2. ASSUME NEW p \in NotTail, NEW x \in NotHead, NEW l \in PCs, MwInsert(t, p, x, l),
             pc[t] \in BeforePCs \cup AfterPCs, next[n] = To(x), prev[n] = To(p)
      PROVE  \/ LocalStep(t, l, call[t], cur[t], lp[t], ln[t], gone[t])
             \/ Inserts(t, n, p, x)
  <2>0. n \in NewNode[t] \ inserted /\ n \in Nodes /\ n \in AllNodes
    <3>1. n \in NewNode[t] \ inserted
      BY <1>1, <1>2 DEF CallOK
    <3>2. NewNode[t] \subseteq Nodes
      BY CallsAssumption
    <3>3. QED
      BY <3>1, <3>2, NodeNames
  <2>1. CASE MwCASFails(InsertNexts(p, n, x), InsertPrevs(p, n, x)) /\ GoTo(t, l) /\ UNCHANGED inserted
    BY <2>1, <1>0, <1>2 DEF MwCASFails, MwInsert, LocalStep, OwnStep, Put, GoTo, localVars
  <2>2. CASE MwCAS(InsertNexts(p, n, x), InsertPrevs(p, n, x)) /\ inserted' = inserted \cup {n} /\ GoTo(t, "return")
    <3>1. p \in AllNodes /\ x \in AllNodes /\ To(n) \in Link
      BY <2>0, <1>2, LinkTypes
    <3>2. next \in [AllNodes -> Link] /\ prev \in [AllNodes -> Link]
      BY DEF MwInv, MwTypeOK
    <3>3. next[p] = To(x) /\ prev[x] = To(p)
      BY <2>2 DEF MwCAS, Current, InsertNexts, InsertPrevs
    <3>4. next' = Changed(next, {<<p, To(x), To(n)>>}) /\ prev' = Changed(prev, {<<x, To(p), To(n)>>})
      BY <2>2 DEF MwCAS, InsertNexts, InsertPrevs
    <3>5. next' \in [AllNodes -> Link] /\ next'[p] = To(n) /\ \A m \in AllNodes : m # p => next'[m] = next[m]
      <4>1. SetsOne(next', next, p, To(n))
        BY <3>1, <3>2, <3>4, ChangedOne
      <4>2. QED
        BY <4>1 DEF SetsOne
    <3>6. prev' \in [AllNodes -> Link] /\ prev'[x] = To(n) /\ \A m \in AllNodes : m # x => prev'[m] = prev[m]
      <4>1. SetsOne(prev', prev, x, To(n))
        BY <3>1, <3>2, <3>4, ChangedOne
      <4>2. QED
        BY <4>1 DEF SetsOne
    <3>7. InsertEffect(n, p, x)
      BY <1>2, <2>0, <2>2, <3>3, <3>5, <3>6 DEF InsertEffect
    <3>8. OwnStep(t, "return", call[t], cur[t], lp[t], ln[t], gone[t])
      BY <1>0, <1>2, <2>2 DEF MwInsert, OwnStep, Put, GoTo, localVars, PCs
    <3>9. QED
      BY <3>7, <3>8, <2>0, <1>1 DEF Inserts
  <2>3. QED
    BY <1>1, <1>2, <2>1, <2>2 DEF MwInsert
<1>3. CASE MwInsertBefore(t)
  <2>1. pc[t] = "ib_mwcas" /\ MwInsert(t, lp[t].to, cur[t], "ib_prev")
    BY <1>3 DEF MwInsertBefore, Mw, At
  <2>2. lp[t].to \in NotTail /\ cur[t] \in NotHead /\ next[n] = To(cur[t]) /\ prev[n] = To(lp[t].to)
        /\ "ib_prev" \in PCs /\ pc[t] \in BeforePCs \cup AfterPCs
    BY <1>1, <2>1 DEF InsertOK, BeforePCs, PCs
  <2>3. \/ LocalStep(t, "ib_prev", call[t], cur[t], lp[t], ln[t], gone[t])
        \/ Inserts(t, n, lp[t].to, cur[t])
    BY <2>1, <2>2, <1>2
  <2>4. QED
    BY <1>1, <1>3, <2>1, <2>3 DEF Retries
<1>4. CASE MwInsertAfter(t)
  <2>1. pc[t] = "ia_mwcas" /\ MwInsert(t, cur[t], ln[t].to, "ia_next")
    BY <1>4 DEF MwInsertAfter, Mw, At
  <2>2. cur[t] \in NotTail /\ ln[t].to \in NotHead /\ next[n] = To(ln[t].to) /\ prev[n] = To(cur[t])
        /\ "ia_next" \in PCs /\ pc[t] \in BeforePCs \cup AfterPCs
    BY <1>1, <2>1 DEF InsertOK, AfterPCs, PCs
  <2>3. \/ LocalStep(t, "ia_next", call[t], cur[t], lp[t], ln[t], gone[t])
        \/ Inserts(t, n, cur[t], ln[t].to)
    BY <2>1, <2>2, <1>2
  <2>4. QED
    BY <1>1, <1>4, <2>1, <2>3 DEF Retries
<1>5. QED
  BY <1>3, <1>4

\* The one of a deletion succeeds for a node between two neighbours, or it is tried again.
LEMMA DeleteCases ==
  ASSUME MwInv, NEW t \in Threads, MwDelete(t)
  PROVE  \/ \E l : Retries(t, l)
         \/ pc[t] = "d_mwcas" /\ Deletes(t, cur[t], lp[t].to, ln[t].to)
<1> USE ThreadTypes, MemberTypes
<1>0. /\ pc = [pc EXCEPT ![t] = pc[t]] /\ call = [call EXCEPT ![t] = call[t]] /\ cur = [cur EXCEPT ![t] = cur[t]]
      /\ lp = [lp EXCEPT ![t] = lp[t]] /\ ln = [ln EXCEPT ![t] = ln[t]] /\ gone = [gone EXCEPT ![t] = gone[t]]
  BY DEF MwInv, MwTypeOK
<1>1. /\ pc[t] = "d_mwcas" /\ cur[t] \in inserted /\ lp[t] = To(lp[t].to) /\ lp[t].to \in NotTail
      /\ ln[t].to \in NotHead /\ ~ln[t].del /\ call[t].op = "Delete" /\ cur[t] = call[t].ref
  BY DEF MwDelete, Mw, At, CallOK, DeleteOK, DeletePCs
<1>2. PICK n, p, x : n = cur[t] /\ p = lp[t].to /\ x = ln[t].to
  OBVIOUS
<1>3. n \in AllNodes /\ p \in AllNodes /\ x \in AllNodes /\ lp[t] = To(p) /\ ln[t] = To(x)
  BY <1>1, <1>2, LinkTypes, NodeNames
<1>4. To(n) \in Link /\ To(p) \in Link /\ To(x) \in Link /\ Marked(To(x)) \in Link /\ ~To(n).del /\ To(n).to = n
      /\ To(x).to = x
  BY <1>3, LinkTypes
<1>5. CASE MwCASFails(DeleteNexts(lp[t].to, cur[t], ln[t]), DeletePrevs(lp[t], cur[t], ln[t])) /\ GoTo(t, "d_next")
  <2>1. LocalStep(t, "d_next", call[t], cur[t], lp[t], ln[t], gone[t])
    BY <1>0, <1>5 DEF MwCASFails, MwDelete, LocalStep, OwnStep, Put, GoTo, localVars, historyVars, PCs, DeletePCs
  <2>2. QED
    BY <1>1, <2>1 DEF Retries
<1>6. CASE MwCAS(DeleteNexts(lp[t].to, cur[t], ln[t]), DeletePrevs(lp[t], cur[t], ln[t])) /\ GoTo(t, "return")
  <2>1. /\ next[p] = To(n) /\ next[n] = To(x) /\ prev[x] = To(n)
        /\ next' = Changed(next, {<<p, To(n), To(x)>>, <<n, To(x), Marked(To(x))>>})
        /\ prev' = Changed(prev, {<<x, To(n), To(p)>>})
    <3>1. MwCAS({<<p, To(n), To(x)>>, <<n, To(x), Marked(To(x))>>}, {<<x, To(n), To(p)>>})
      BY <1>2, <1>3, <1>6 DEF DeleteNexts, DeletePrevs
    <3>2. QED
      BY <3>1 DEF MwCAS, Current
  <2>2. n # p
    <3>1. PICK R : IsOrder(R) /\ Follows(R)
      BY DEF MwInv, OrderInv
    <3>2. <<p, n>> \in R
      BY <1>1, <1>2, <1>4, <2>1, <3>1 DEF Follows
    <3>3. n \in Members
      BY <1>1, <1>2 DEF Members
    <3>4. QED
      BY <3>1, <3>2, <3>3 DEF IsOrder
  <2>3. next \in [AllNodes -> Link] /\ prev \in [AllNodes -> Link]
    BY DEF MwInv, MwTypeOK
  <2>4. /\ next' \in [AllNodes -> Link] /\ next'[p] = To(x) /\ next'[n] = Marked(To(x))
        /\ \A m \in AllNodes : m # p /\ m # n => next'[m] = next[m]
    <3>1. SetsTwo(next', next, p, To(x), n, Marked(To(x)))
      BY <1>3, <1>4, <2>1, <2>2, <2>3, ChangedTwo
    <3>2. QED
      BY <3>1 DEF SetsTwo
  <2>5. prev' \in [AllNodes -> Link] /\ prev'[x] = To(p) /\ \A m \in AllNodes : m # x => prev'[m] = prev[m]
    <3>1. SetsOne(prev', prev, x, To(p))
      BY <1>3, <1>4, <2>1, <2>3, ChangedOne
    <3>2. QED
      BY <3>1 DEF SetsOne
  <2>6. inserted' = inserted
    BY DEF MwDelete, historyVars
  <2>7. DeleteEffect(n, p, x)
    BY <1>1, <1>2, <2>1, <2>4, <2>5, <2>6 DEF DeleteEffect
  <2>8. OwnStep(t, "return", call[t], cur[t], lp[t], ln[t], gone[t])
    BY <1>0, <1>6 DEF MwDelete, OwnStep, Put, GoTo, localVars, historyVars, PCs
  <2>9. QED
    BY <1>1, <1>2, <2>2, <2>7, <2>8 DEF Deletes
<1>7. QED
  BY <1>5, <1>6 DEF MwDelete

-----------------------------------------------------------------------------
\* Starting again keeps the invariant.
LEMMA RetryInv ==
  ASSUME MwInv, NEW t \in Threads, NEW l, Retries(t, l)
  PROVE  MwInv'
<1> USE ThreadTypes, MemberTypes
<1>1. LocalStep(t, l, call[t], cur[t], lp[t], ln[t], gone[t])
  BY DEF Retries
<1>d. DOMAIN pc = Threads /\ DOMAIN call = Threads /\ DOMAIN cur = Threads /\ DOMAIN lp = Threads
      /\ DOMAIN ln = Threads /\ DOMAIN gone = Threads
  BY DEF MwInv, MwTypeOK
<1>2. CallOK(t)' /\ InsertOK(t)' /\ DeleteOK(t)'
  BY <1>1, <1>d DEF Retries, LocalStep, OwnStep, Put, CallOK, InsertOK, DeleteOK, BeforePCs, AfterPCs,
     DeletePCs, MovePCs, Deleted, NotHead, NotTail, Members
<1>3. QED
  BY <1>1, <1>2, LocalStepInv

\* A successful insertion keeps it.
LEMMA InsertsInv ==
  ASSUME MwInv, NEW t \in Threads, pc[t] \in {"ib_mwcas", "ia_mwcas"},
         NEW n, NEW p, NEW x, Inserts(t, n, p, x)
  PROVE  MwInv'
<1> USE ThreadTypes, MemberTypes
<1>0. InsertEffect(n, p, x) /\ n \in NewNode[t] /\ n = call[t].node
      /\ OwnStep(t, "return", call[t], cur[t], lp[t], ln[t], gone[t])
  BY DEF Inserts
<1>1. PICK s : IsList(s)
  BY DEF MwInv, ListInv
<1>2. p \in NotTail /\ x \in AllNodes /\ next[p] = To(x) /\ p \in AllNodes
  BY <1>0 DEF InsertEffect
<1>3. PICK k \in 1 .. Len(s) - 1 : s[k] = p /\ s[k + 1] = x
  BY <1>1, <1>2, PlaceOf
<1>4. IsList(With(s, k, n))'
  BY <1>0, <1>1, <1>3, InsertList
<1>5. ListInv'
  <2>1. PICK q : q = With(s, k, n)
    OBVIOUS
  <2>2. IsList(q)'
    BY <1>4, <2>1
  <2>3. QED
    BY <2>2 DEF ListInv
<1>6. LinkInv' /\ OrderInv'
  BY <1>0, InsertLinks
<1>7. Benign(t)
  <2>1. inserted' = inserted \cup {n} /\ n \in Nodes /\ n \notin inserted
    BY <1>0 DEF InsertEffect
  <2>2. \A m \in inserted : next[m].del => next'[m].del
    <3>1. ~next[p].del
      BY <1>2, LinkTypes
    <3>2. QED
      BY <1>0, <3>1, NodeNames DEF InsertEffect
  <2>3. ASSUME NEW u \in Threads \ {t}, NEW m \in NewNode[u] \ inserted
        PROVE  next'[m] = next[m] /\ prev'[m] = prev[m]
    <3>1. m \in Nodes /\ m \in AllNodes /\ m # p /\ m # x
      <4>1. NewNode[u] \subseteq Nodes
        BY CallsAssumption
      <4>2. QED
        BY <4>1, <1>0, NodeNames DEF InsertEffect, NotTail, NotHead
    <3>2. QED
      BY <3>1, <1>0 DEF InsertEffect
  <2>4. QED
    BY <1>0, <2>1, <2>2, <2>3 DEF Benign, InsertEffect
<1>8. pc[t] \in BeforePCs \cup AfterPCs
  BY DEF BeforePCs, AfterPCs
<1>9. /\ pc'[t] = "return" /\ call'[t] = call[t] /\ call[t] \in CallSet /\ call[t].ref \in Members
      /\ call[t].op \in {"InsertBefore", "InsertAfter"} /\ n \in inserted'
  <2>1. pc'[t] = "return" /\ call'[t] = call[t]
    BY <1>0 DEF OwnStep, Put, MwInv, MwTypeOK
  <2>2. QED
    BY <2>1, <1>0, <1>8 DEF CallOK, InsertEffect
<1>10. CallOK(t)'
  <2>1. call[t].ref \in Members' /\ call[t] # NoCall
    BY <1>9, <1>0, <1>8 DEF Members, InsertEffect, CallOK
  <2>2. QED
    BY <2>1, <1>0, <1>9 DEF CallOK, BeforePCs, AfterPCs, DeletePCs, MovePCs
<1>11. InsertOK(t)' /\ DeleteOK(t)'
  BY <1>9 DEF InsertOK, DeleteOK, BeforePCs, AfterPCs, DeletePCs
<1>12. QED
  BY <1>0, <1>5, <1>6, <1>7, <1>10, <1>11, OwnStepInv

\* Where a node that can be deleted is in the list.
LEMMA PlaceToDelete ==
  ASSUME MwInv, NEW s, IsList(s), NEW n, NEW p, NEW x, DeleteEffect(n, p, x)
  PROVE  \E k \in 2 .. Len(s) - 1 : s[k - 1] = p /\ s[k] = n /\ s[k + 1] = x
<1> USE MemberTypes
<1>1. /\ p \in NotTail /\ n \in NotTail /\ n \in AllNodes /\ x \in AllNodes
      /\ next[p] = To(n) /\ next[n] = To(x)
  BY NodeNames DEF DeleteEffect, NotTail
<1>2. PICK i \in 1 .. Len(s) - 1 : s[i] = p /\ s[i + 1] = n
  BY <1>1, PlaceOf
<1>3. PICK k \in 1 .. Len(s) - 1 : s[k] = n /\ s[k + 1] = x
  BY <1>1, PlaceOf
<1>4. i + 1 \in 1 .. Len(s) /\ k \in 1 .. Len(s)
  BY <1>2, <1>3 DEF IsList
<1>5. i + 1 = k
  BY <1>2, <1>3, <1>4 DEF IsList
<1>6. k \in 2 .. Len(s) - 1 /\ k - 1 = i
  BY <1>5, <1>2, <1>3 DEF IsList
<1>7. QED
  BY <1>2, <1>3, <1>6

\* A successful deletion keeps it.
LEMMA DeletesInv ==
  ASSUME MwInv, NEW t \in Threads, pc[t] = "d_mwcas",
         NEW n, NEW p, NEW x, Deletes(t, n, p, x)
  PROVE  MwInv'
<1> USE ThreadTypes, MemberTypes
<1>0. DeleteEffect(n, p, x) /\ n # p /\ call[t].op = "Delete" /\ n = call[t].ref
      /\ OwnStep(t, "return", call[t], cur[t], lp[t], ln[t], gone[t])
  BY DEF Deletes
<1>1. PICK s : IsList(s)
  BY DEF MwInv, ListInv
<1>2. p \in NotTail /\ x \in AllNodes /\ next[p] = To(n) /\ p \in AllNodes /\ n \in AllNodes /\ x \in AllNodes
  BY <1>0, NodeNames DEF DeleteEffect
<1>3. PICK k \in 2 .. Len(s) - 1 : s[k - 1] = p /\ s[k] = n /\ s[k + 1] = x
  BY <1>0, <1>1, PlaceToDelete
<1>4. IsList(Without(s, k))'
  BY <1>0, <1>1, <1>3, DeleteList
<1>5. ListInv'
  <2>1. PICK q : q = Without(s, k)
    OBVIOUS
  <2>2. IsList(q)'
    BY <1>4, <2>1
  <2>3. QED
    BY <2>2 DEF ListInv
<1>6. LinkInv' /\ OrderInv'
  BY <1>0, DeleteLinks
<1>d. next'[n].del
  BY <1>0, <1>2, LinkTypes DEF DeleteEffect
<1>7. Benign(t)
  <2>2. \A m \in inserted : next[m].del => next'[m].del
    <3>1. ~next[p].del
      BY <1>2, LinkTypes
    <3>2. QED
      BY <1>0, <1>d, <3>1, NodeNames DEF DeleteEffect
  <2>3. ASSUME NEW u \in Threads \ {t}, NEW m \in NewNode[u] \ inserted
        PROVE  next'[m] = next[m] /\ prev'[m] = prev[m]
    <3>1. m \in Nodes /\ m \in AllNodes /\ m # p /\ m # x /\ m # n
      <4>1. NewNode[u] \subseteq Nodes
        BY CallsAssumption
      <4>2. QED
        BY <4>1, <1>0, NodeNames DEF DeleteEffect, NotTail, NotHead
    <3>2. QED
      BY <3>1, <1>0 DEF DeleteEffect
  <2>4. QED
    BY <1>0, <2>2, <2>3 DEF Benign, DeleteEffect
<1>8. pc[t] \in DeletePCs
  BY DEF DeletePCs
<1>9. pc'[t] = "return" /\ call'[t] = call[t] /\ call[t] \in CallSet /\ call[t].ref \in Members /\ Deleted(n)'
  <2>1. pc'[t] = "return" /\ call'[t] = call[t]
    BY <1>0 DEF OwnStep, Put, MwInv, MwTypeOK
  <2>2. Deleted(n)'
    BY <1>0, <1>d DEF Deleted, DeleteEffect
  <2>3. QED
    BY <2>1, <2>2, <1>0, <1>8 DEF CallOK
<1>10. CallOK(t)'
  <2>1. call[t].ref \in Members' /\ call[t] # NoCall
    BY <1>9, <1>0, <1>8 DEF Members, DeleteEffect, CallOK
  <2>2. QED
    BY <2>1, <1>0, <1>9 DEF CallOK, BeforePCs, AfterPCs, DeletePCs, MovePCs
<1>11. InsertOK(t)' /\ DeleteOK(t)'
  BY <1>9 DEF InsertOK, DeleteOK, BeforePCs, AfterPCs, DeletePCs
<1>12. QED
  BY <1>0, <1>5, <1>6, <1>7, <1>10, <1>11, OwnStepInv

-----------------------------------------------------------------------------
\* The first list with its ends: its elements, and their places.
IsFirst(s, first) ==
  /\ s = <<head_>> \o first \o <<tail_>>
  /\ s \in Seq(AllNodes) /\ Len(s) = Len(first) + 2 /\ s[1] = head_ /\ s[Len(s)] = tail_
  /\ \A i \in 1 .. Len(first) : s[i + 1] = first[i]
  /\ \A i \in 2 .. Len(s) - 1 : s[i] \in Nodes
  /\ \A i, j \in 1 .. Len(s) : s[i] = s[j] => i = j

\* Its nodes are different from each other and from the ends.
LEMMA FirstWithEnds ==
  ASSUME NEW first \in FirstLists
  PROVE  IsFirst(<<head_>> \o first \o <<tail_>>, first)
<1>1. first \in Seq(Nodes) /\ \A i, j \in DOMAIN first : i # j => first[i] # first[j]
  BY NodesAssumption
<1>2. first \in Seq(AllNodes) /\ Len(first) \in Nat /\ DOMAIN first = 1 .. Len(first)
  BY <1>1, NodeNames
<1>3. <<head_>> \in Seq(AllNodes) /\ <<tail_>> \in Seq(AllNodes) /\ Len(<<head_>>) = 1 /\ Len(<<tail_>>) = 1
      /\ <<head_>>[1] = head_ /\ <<tail_>>[1] = tail_
  BY NodeNames
<1>4. PICK c \in Seq(AllNodes) : c = <<head_>> \o first /\ Len(c) = 1 + Len(first) /\ c[1] = head_
                                 /\ \A i \in 1 .. Len(first) : c[1 + i] = first[i]
  <2>1. /\ <<head_>> \o first \in Seq(AllNodes) /\ Len(<<head_>> \o first) = Len(<<head_>>) + Len(first)
        /\ \A i \in 1 .. Len(<<head_>>) : (<<head_>> \o first)[i] = <<head_>>[i]
        /\ \A i \in 1 .. Len(first) : (<<head_>> \o first)[Len(<<head_>>) + i] = first[i]
    BY <1>2, <1>3, Joined
  <2>2. 1 \in 1 .. Len(<<head_>>)
    BY <1>3
  <2>3. QED
    BY <1>3, <2>1, <2>2, Zenon
<1>5. PICK s \in Seq(AllNodes) : s = c \o <<tail_>> /\ Len(s) = Len(c) + 1 /\ s[Len(c) + 1] = tail_
                                 /\ \A i \in 1 .. Len(c) : s[i] = c[i]
  <2>1. /\ c \o <<tail_>> \in Seq(AllNodes) /\ Len(c \o <<tail_>>) = Len(c) + Len(<<tail_>>)
        /\ \A i \in 1 .. Len(c) : (c \o <<tail_>>)[i] = c[i]
        /\ \A i \in 1 .. Len(<<tail_>>) : (c \o <<tail_>>)[Len(c) + i] = <<tail_>>[i]
    BY <1>3, Joined
  <2>2. 1 \in 1 .. Len(<<tail_>>)
    BY <1>3
  <2>3. QED
    BY <1>3, <2>1, <2>2, Zenon
<1>6. Len(s) = Len(first) + 2 /\ s[Len(s)] = tail_ /\ s[1] = head_
  BY <1>2, <1>4, <1>5
<1>7. ASSUME NEW i \in 1 .. Len(first) PROVE s[i + 1] = first[i] /\ first[i] \in Nodes
  <2>1. i + 1 \in 1 .. Len(c) /\ i + 1 = 1 + i
    BY <1>2, <1>4
  <2>2. QED
    BY <2>1, <1>1, <1>4, <1>5
<1>8. ASSUME NEW i \in 2 .. Len(s) - 1 PROVE i - 1 \in 1 .. Len(first) /\ s[i] = first[i - 1] /\ s[i] \in Nodes
  <2>1. i - 1 \in 1 .. Len(first) /\ (i - 1) + 1 = i
    BY <1>2, <1>6
  <2>2. QED
    BY <2>1, <1>7
<1>9. ASSUME NEW i \in 1 .. Len(s), NEW j \in 1 .. Len(s), s[i] = s[j] PROVE i = j
  <2>0. \A k \in 1 .. Len(s) : k = 1 \/ k = Len(s) \/ k \in 2 .. Len(s) - 1
    BY <1>2, <1>6
  <2>1. CASE i \in 2 .. Len(s) - 1 /\ j \in 2 .. Len(s) - 1
    <3>1. i - 1 \in DOMAIN first /\ j - 1 \in DOMAIN first /\ first[i - 1] = first[j - 1]
      BY <2>1, <1>2, <1>8, <1>9
    <3>2. i - 1 = j - 1
      BY <3>1, <1>1
    <3>3. QED
      BY <3>2
  <2>2. CASE ~(i \in 2 .. Len(s) - 1 /\ j \in 2 .. Len(s) - 1)
    BY <2>0, <2>2, <1>6, <1>8, <1>9, NodeNames
  <2>3. QED
    BY <2>1, <2>2
<1>10. QED
  BY <1>4, <1>5, <1>6, <1>7, <1>8, <1>9 DEF IsFirst

\* How it is linked.
Linked(s) ==
  /\ next \in [AllNodes -> Link] /\ prev \in [AllNodes -> Link]
  /\ \A i \in 1 .. Len(s) - 1 : next[s[i]] = To(s[i + 1]) /\ prev[s[i + 1]] = To(s[i])
  /\ next[tail_] = NoLink /\ prev[head_] = NoLink
  /\ inserted = {n \in Nodes : \E i \in 1 .. Len(s) : s[i] = n}

\* FirstState links neighbours in both directions.
LEMMA FirstLinks ==
  ASSUME NEW first \in FirstLists, FirstState(first), NEW s, IsFirst(s, first)
  PROVE  Linked(s)
<1>0. s = <<head_>> \o first \o <<tail_>> /\ s \in Seq(AllNodes) /\ DOMAIN s = 1 .. Len(s)
      /\ Len(s) \in Nat /\ Len(s) >= 2
  <2>1. Len(first) \in Nat
    BY NodesAssumption
  <2>2. QED
    BY <2>1 DEF IsFirst
<1> DEFINE In(n) == \E i \in DOMAIN s : s[i] = n
           Pos(n) == CHOOSE i \in DOMAIN s : s[i] = n
<1>1. /\ next = [n \in AllNodes |-> IF In(n) /\ n # tail_ THEN To(s[Pos(n) + 1]) ELSE NoLink]
      /\ prev = [n \in AllNodes |-> IF In(n) /\ n # head_ THEN To(s[Pos(n) - 1]) ELSE NoLink]
      /\ inserted = {n \in Nodes : In(n)}
  BY <1>0 DEF FirstState
<1>2. \A n : In(n) => Pos(n) \in 1 .. Len(s) /\ s[Pos(n)] = n
  BY <1>0
<1>3. ASSUME NEW i \in 1 .. Len(s) PROVE In(s[i]) /\ s[i] \in AllNodes
  <2>1. i \in DOMAIN s /\ s[i] \in AllNodes
    BY <1>0
  <2>2. QED
    BY <2>1
<1>4. \A n : In(n) <=> \E i \in 1 .. Len(s) : s[i] = n
  BY <1>0
<1> HIDE DEF In, Pos
<1>5. \A i \in 1 .. Len(s) : Pos(s[i]) = i
  BY <1>2, <1>3 DEF IsFirst
<1>6. s[1] = head_ /\ s[Len(s)] = tail_ /\ \A i, j \in 1 .. Len(s) : s[i] = s[j] => i = j
  BY DEF IsFirst
<1>7. \A n \in AllNodes : In(n) => (n # tail_ => Pos(n) + 1 \in 1 .. Len(s)) /\ (n # head_ => Pos(n) - 1 \in 1 .. Len(s))
  BY <1>0, <1>2, <1>6
<1>8. next \in [AllNodes -> Link] /\ prev \in [AllNodes -> Link]
  <2>1. \A i \in 1 .. Len(s) : To(s[i]) \in Link
    BY <1>3, LinkTypes
  <2>2. QED
    BY <1>1, <1>7, <2>1, LinkTypes
<1>9. ASSUME NEW i \in 1 .. Len(s) - 1 PROVE next[s[i]] = To(s[i + 1]) /\ prev[s[i + 1]] = To(s[i])
  <2>1. i \in 1 .. Len(s) /\ i + 1 \in 1 .. Len(s) /\ i # Len(s) /\ i + 1 # 1 /\ (i + 1) - 1 = i
        /\ Len(s) \in 1 .. Len(s) /\ 1 \in 1 .. Len(s)
    BY <1>0
  <2>2. s[i] # tail_ /\ s[i + 1] # head_
    BY <2>1, <1>6
  <2>3. Pos(s[i]) = i /\ Pos(s[i + 1]) = i + 1 /\ In(s[i]) /\ In(s[i + 1])
        /\ s[i] \in AllNodes /\ s[i + 1] \in AllNodes
    BY <2>1, <1>3, <1>5
  <2>4. QED
    BY <1>1, <2>1, <2>2, <2>3
<1>10. next[tail_] = NoLink /\ prev[head_] = NoLink
  BY <1>1, NodeNames
<1>11. QED
  BY <1>1, <1>4, <1>8, <1>9, <1>10 DEF Linked

\* The invariant holds at first, and the list is the first list.
LEMMA InitInv ==
  ASSUME Init, sync_method = "kSyncMwCAS"
  PROVE  /\ MwInv
         /\ \E first \in FirstLists : /\ IsList(<<head_>> \o first \o <<tail_>>)
                                      /\ inserted = {first[i] : i \in DOMAIN first}
<1>1. PICK first \in FirstLists : FirstState(first)
  BY DEF Init
<1>2. PICK s : IsFirst(s, first) /\ s = <<head_>> \o first \o <<tail_>>
  BY FirstWithEnds
<1>3. /\ next \in [AllNodes -> Link] /\ prev \in [AllNodes -> Link]
      /\ \A i \in 1 .. Len(s) - 1 : next[s[i]] = To(s[i + 1]) /\ prev[s[i + 1]] = To(s[i])
      /\ next[tail_] = NoLink /\ prev[head_] = NoLink
      /\ inserted = {n \in Nodes : \E i \in 1 .. Len(s) : s[i] = n}
  <2>1. Linked(s)
    BY <1>1, <1>2, FirstLinks
  <2>2. QED
    BY <2>1 DEF Linked
<1>4. s \in Seq(AllNodes) /\ Len(s) \in Nat /\ Len(s) >= 2 /\ s[1] = head_ /\ s[Len(s)] = tail_
      /\ 1 \in 1 .. Len(s) /\ Len(s) \in 1 .. Len(s)
      /\ (\A i \in 1 .. Len(s) : s[i] \in AllNodes)
      /\ (\A i, j \in 1 .. Len(s) : s[i] = s[j] => i = j)
  <2>1. Len(first) \in Nat
    BY NodesAssumption
  <2>2. QED
    BY <2>1, <1>2 DEF IsFirst
<1>5. \A n : n \in Members <=> \E i \in 1 .. Len(s) : s[i] = n
  <2>1. \A n \in AllNodes : n \in Nodes \/ n = head_ \/ n = tail_
    BY DEF AllNodes
  <2>2. QED
    BY <1>3, <1>4, <2>1 DEF Members
<1>6. \A i \in 1 .. Len(s) - 1 : i \in 1 .. Len(s) /\ i + 1 \in 1 .. Len(s) /\ i < i + 1
  BY <1>4
<1>7. /\ \A n \in NotTail : \E i \in 1 .. Len(s) - 1 : s[i] = n /\ s[i] \in NotTail /\ s[i + 1] \in NotHead
      /\ \A n \in NotHead : \E i \in 1 .. Len(s) - 1 : s[i + 1] = n /\ s[i] \in NotTail /\ s[i + 1] \in NotHead
  <2>0. head_ \notin NotHead /\ tail_ \notin NotTail
    BY <1>3, NodeNames DEF NotHead, NotTail
  <2>1. \A n \in Members : (n # tail_ => n \in NotTail) /\ (n # head_ => n \in NotHead)
    BY DEF Members, NotTail, NotHead
  <2>2. \A i \in 1 .. Len(s) - 1 : s[i] \in NotTail /\ s[i + 1] \in NotHead
    <3>1. \A i \in 1 .. Len(s) - 1 : s[i] # tail_ /\ s[i + 1] # head_
      BY <1>4, <1>6
    <3>2. QED
      BY <1>5, <1>6, <2>1, <3>1
  <2>3. ASSUME NEW n \in NotTail PROVE \E i \in 1 .. Len(s) - 1 : s[i] = n
    <3>1. PICK i \in 1 .. Len(s) : s[i] = n
      BY <1>5 DEF NotTail, Members
    <3>2. i # Len(s)
      BY <1>4, <2>0, <3>1
    <3>3. i \in 1 .. Len(s) - 1
      BY <1>4, <3>2
    <3>4. QED
      BY <3>1, <3>3
  <2>4. ASSUME NEW n \in NotHead PROVE \E i \in 1 .. Len(s) - 1 : s[i + 1] = n
    <3>1. PICK i \in 1 .. Len(s) : s[i] = n
      BY <1>5 DEF NotHead, Members
    <3>2. i # 1
      BY <1>4, <2>0, <3>1
    <3>3. i - 1 \in 1 .. Len(s) - 1 /\ (i - 1) + 1 = i
      BY <1>4, <3>2
    <3>4. QED
      BY <3>1, <3>3
  <2>5. QED
    BY <2>2, <2>3, <2>4
<1>8. \A i \in 1 .. Len(s) : ~next[s[i]].del
  <2>1. \A i \in 1 .. Len(s) : i = Len(s) \/ i \in 1 .. Len(s) - 1
    BY <1>4
  <2>2. \A i \in 1 .. Len(s) - 1 : ~To(s[i + 1]).del
    BY <1>4, <1>6, LinkTypes
  <2>3. QED
    BY <1>3, <1>4, <2>1, <2>2, LinkTypes
<1>l. IsList(s)
  BY <1>3, <1>4, <1>5, <1>8 DEF IsList
<1>9. ListInv
  BY <1>l DEF ListInv
<1>10. \A i \in 1 .. Len(s) - 1 : next[s[i]].to = s[i + 1] /\ prev[s[i + 1]].to = s[i] /\ ~prev[s[i + 1]].del
  <2>1. \A i \in 1 .. Len(s) : To(s[i]).to = s[i] /\ ~To(s[i]).del
    BY <1>4, LinkTypes
  <2>2. QED
    BY <1>3, <1>6, <2>1
<1>11. LinkInv
  BY <1>3, <1>7, <1>10 DEF LinkInv
<1>12. OrderInv
  <2>1. PICK R : R = {e \in Members \X Members : \E i, j \in 1 .. Len(s) : i < j /\ e = <<s[i], s[j]>>}
    OBVIOUS
  <2>2. \A i, j \in 1 .. Len(s) : i < j => <<s[i], s[j]>> \in R
    BY <2>1, <1>5
  <2>3. \A u, v : <<u, v>> \in R => \E i, j \in 1 .. Len(s) : i < j /\ u = s[i] /\ v = s[j]
    BY <2>1
  <2>4. \A n : <<n, n>> \notin R
    <3>1. SUFFICES ASSUME NEW n, <<n, n>> \in R PROVE FALSE
      OBVIOUS
    <3>2. PICK i, j \in 1 .. Len(s) : i < j /\ n = s[i] /\ n = s[j]
      BY <3>1, <2>3
    <3>3. i = j
      BY <3>2, <1>4
    <3>4. QED
      BY <3>2, <3>3
  <2>5. ASSUME NEW u, NEW v, NEW w, <<u, v>> \in R, <<v, w>> \in R PROVE <<u, w>> \in R
    <3>1. PICK i, j \in 1 .. Len(s) : i < j /\ u = s[i] /\ v = s[j]
      BY <2>3, <2>5
    <3>2. PICK k, l \in 1 .. Len(s) : k < l /\ v = s[k] /\ w = s[l]
      BY <2>3, <2>5
    <3>3. j = k
      BY <3>1, <3>2, <1>4
    <3>4. i < l
      BY <3>1, <3>2, <3>3
    <3>5. QED
      BY <2>2, <3>1, <3>2, <3>4
  <2>6. IsOrder(R)
    BY <2>1, <2>4, <2>5 DEF IsOrder
  <2>7. Follows(R)
    <3>1. \A i \in 1 .. Len(s) - 1 : <<s[i], s[i + 1]>> \in R
      BY <1>6, <2>2
    <3>2. ASSUME NEW n \in NotTail PROVE <<n, next[n].to>> \in R
      <4>1. PICK i \in 1 .. Len(s) - 1 : s[i] = n
        BY <1>7
      <4>2. QED
        BY <1>10, <3>1, <4>1
    <3>3. ASSUME NEW n \in NotHead PROVE <<prev[n].to, n>> \in R
      <4>1. PICK i \in 1 .. Len(s) - 1 : s[i + 1] = n
        BY <1>7
      <4>2. QED
        BY <1>10, <3>1, <4>1
    <3>4. QED
      BY <3>2, <3>3 DEF Follows
  <2>8. QED
    BY <2>6, <2>7 DEF OrderInv
<1>13. MwTypeOK
  BY <1>3, LinkTypes DEF Init, MwTypeOK, PCs
<1>14. CallInv
  BY DEF Init, CallInv, CallOK, InsertOK, DeleteOK, BeforePCs, AfterPCs, DeletePCs, MovePCs
<1>15. inserted = {first[i] : i \in DOMAIN first}
  <2>0. first \in Seq(Nodes) /\ DOMAIN first = 1 .. Len(first) /\ Len(first) \in Nat /\ Len(s) = Len(first) + 2
        /\ (\A i \in 1 .. Len(first) : s[i + 1] = first[i])
    BY <1>2, NodesAssumption DEF IsFirst
  <2>1. ASSUME NEW i \in DOMAIN first PROVE first[i] \in inserted
    <3>1. i + 1 \in 1 .. Len(s) /\ s[i + 1] = first[i] /\ first[i] \in Nodes
      BY <2>0
    <3>2. QED
      BY <3>1, <1>3
  <2>2. ASSUME NEW n \in inserted PROVE \E i \in DOMAIN first : first[i] = n
    <3>1. PICK i \in 1 .. Len(s) : s[i] = n
      BY <1>3
    <3>2. i # 1 /\ i # Len(s)
      BY <1>3, <1>4, <3>1, NodeNames
    <3>3. i - 1 \in 1 .. Len(first) /\ (i - 1) + 1 = i
      BY <2>0, <3>2
    <3>4. QED
      BY <2>0, <3>1, <3>3
  <2>3. QED
    BY <2>1, <2>2
<1>16. QED
  BY <1>2, <1>l, <1>9, <1>11, <1>12, <1>13, <1>14, <1>15 DEF MwInv

\* A step that changes nothing keeps the invariant.
LEMMA StutterInv ==
  ASSUME MwInv, UNCHANGED vars
  PROVE  MwInv'
<1>1. /\ sync_method' = sync_method /\ next' = next /\ prev' = prev /\ pc' = pc /\ call' = call /\ cur' = cur
      /\ lp' = lp /\ ln' = ln /\ gone' = gone /\ inserted' = inserted
  BY DEF vars
<1>2. ListInv' /\ LinkInv' /\ OrderInv'
  BY <1>1, SameLinks
<1>3. MwTypeOK'
  BY <1>1 DEF MwInv, MwTypeOK
<1>4. CallInv'
  BY <1>1 DEF MwInv, CallInv, CallOK, InsertOK, DeleteOK, Deleted, Members, NotHead, NotTail
<1>5. QED
  BY <1>2, <1>3, <1>4 DEF MwInv

\* Nothing of CASDList runs.
LEMMA NoCasSteps ==
  ASSUME sync_method = "kSyncMwCAS", NEW t
  PROVE  ~CasSteps(t)
  BY DEF CasSteps, Cas, CorrectReadLink, CorrectReadNext, CorrectMark, CorrectUnlink, CorrectBack, CorrectSet,
     CorrectRecheck, GetNextRead, GetNextCheck, GetNextAgain, GetNextMark, GetNextUnlink, GetPrevRead,
     GetPrevReadNext, GetPrevCheck, InsertBeforeRead, InsertBeforeCheck, InsertBeforeCAS, InsertAfterRead,
     InsertAfterCAS, DeleteMarkNext, DeleteMarkPrev

\* Every step keeps it.
LEMMA NextInv ==
  ASSUME MwInv, [Next]_vars
  PROVE  MwInv'
<1>1. CASE UNCHANGED vars
  BY <1>1, StutterInv
<1>2. ASSUME NEW t \in Threads, Steps(t) PROVE MwInv'
  <2>1. CASE Calls(t)
    BY <2>1, CallSteps
  <2>2. CASE MwLinkBefore(t) \/ MwLinkAfter(t)
    BY <2>2, LinkSteps
  <2>3. CASE MwInsertBefore(t) \/ MwInsertAfter(t)
    BY <2>3, InsertCases, RetryInv, InsertsInv
  <2>4. CASE MwDelete(t)
    BY <2>4, DeleteCases, RetryInv, DeletesInv
  <2>5. CASE \/ MwGetNext(t) \/ MwGetPrev(t) \/ MwReadPrev(t) \/ MwCheckNext(t) \/ MwSkipNext(t)
             \/ MwReadNext(t) \/ MwSkipPrev(t) \/ MwDeleteCheck(t) \/ MwDeleteReadPrev(t)
             \/ MwDeleteReadNext(t) \/ MwDeleteCheckPrev(t) \/ MwDeleteCheckNext(t)
    BY <2>5, LookSteps
  <2>6. ~CasSteps(t)
    BY NoCasSteps DEF MwInv, MwTypeOK
  <2>7. QED
    BY <1>2, <2>1, <2>2, <2>3, <2>4, <2>5, <2>6 DEF Steps, MwSteps
<1>3. QED
  BY <1>1, <1>2 DEF Next

-----------------------------------------------------------------------------
\* In a list with multi-word CAS (sync_method_ is set by the constructor and never
\* changes) the invariant holds at any time.
THEOREM MwListInvariant ==
  ASSUME TwoThreads
  PROVE  Spec /\ sync_method = "kSyncMwCAS" => []MwInv
<1>1. Init /\ sync_method = "kSyncMwCAS" => MwInv
  BY InitInv
<1>2. MwInv /\ [Next]_vars => MwInv'
  BY NextInv
<1>3. QED
  BY <1>1, <1>2, PTL DEF Spec

\* Both directions of links agree at any time in the list of MwCASDList: the node
\* after a node that is in the list is in the list and its prev is that node.
THEOREM MwLinksAgree ==
  ASSUME TwoThreads
  PROVE  Spec /\ sync_method = "kSyncMwCAS" => []LinksAgree
<1>1. MwInv => LinksAgree
  <2>1. SUFFICES ASSUME MwInv, NEW n \in NotTail, ~next[n].del
                 PROVE  prev[next[n].to] = To(n) /\ ~next[next[n].to].del
    BY DEF LinksAgree, NotTail
  <2>2. QED
    BY <2>1, Neighbours
<1>2. QED
  BY <1>1, MwListInvariant, PTL

\* The RAW_CHECKs of MwCASDList hold, and it follows no marked and no null pointer.
THEOREM MwChecksHold ==
  ASSUME TwoThreads
  PROVE  Spec /\ sync_method = "kSyncMwCAS" => []ChecksHold
<1>1. MwInv => ChecksHold
  <2>1. SUFFICES ASSUME MwInv PROVE ChecksHold
    OBVIOUS
  <2>2. ~next[head_].del
    BY <2>1, EndsLive
  <2>3. ASSUME NEW t \in Threads
        PROVE  /\ At(t, "d_checknext") => ~ln[t].del
               /\ At(t, "cp_next") => cp[t].prev.to # Null
               /\ At(t, "cp_unlink") => ~cp[t].prev.del
               /\ At(t, "ib_prev") \/ At(t, "ia_next") => cur[t] # Null
               /\ At(t, "gn_nn") => gn[t].next # Null
               /\ At(t, "gp_prevnext") => lp[t].to # Null
    <3>1. pc[t] \in PCs /\ InsertOK(t) /\ DeleteOK(t)
      BY <2>1, ThreadTypes
    <3>2. NotTail \subseteq AllNodes /\ NotHead \subseteq AllNodes /\ Null \notin AllNodes
      BY <2>1, MemberTypes, NodeNames
    <3>3. QED
      BY <3>1, <3>2 DEF At, PCs, BeforePCs, AfterPCs, DeletePCs, MovePCs, InsertOK, DeleteOK
  <2>4. QED
    BY <2>2, <2>3 DEF ChecksHold
<1>2. QED
  BY <1>1, MwListInvariant, PTL

\* GetNext and GetPrev of MwCASDList do not lead from a node in the list to one that
\* was deleted before they were called.
THEOREM MwCursorSkipsDeleted ==
  ASSUME TwoThreads
  PROVE  Spec /\ sync_method = "kSyncMwCAS" => []CursorSkipsDeleted
<1>1. MwInv => CursorSkipsDeleted
  BY ThreadTypes DEF CursorSkipsDeleted, At, CallOK
<1>2. QED
  BY <1>1, MwListInvariant, PTL

-----------------------------------------------------------------------------
(***************************************************************************)
(* Walks along links.                                                      *)
(***************************************************************************)
\* The nodes that n leads to in N steps, and Null after the last one.
IsPath(w, f, n, N) ==
  w = [i \in 0 .. N |-> IF i = 0 THEN n ELSE IF w[i - 1] = Null THEN Null ELSE f[w[i - 1]].to]

\* The recursive definition of a walk defines a function.
LEMMA PathExists ==
  ASSUME NEW N \in Nat, NEW f, NEW n
  PROVE  \E w : IsPath(w, f, n, N)
<1> DEFINE S == {k \in Nat : \E w : IsPath(w, f, n, k)}
<1>1. 0 \in S
  <2>1. IsPath([i \in 0 .. 0 |-> n], f, n, 0)
    BY DEF IsPath
  <2>2. QED
    BY <2>1
<1>2. ASSUME NEW k \in Nat, k \in S PROVE k + 1 \in S
  <2>1. PICK w : IsPath(w, f, n, k)
    BY <1>2
  <2> DEFINE h == [i \in 0 .. k + 1 |-> IF i = k + 1 THEN IF w[k] = Null THEN Null ELSE f[w[k]].to ELSE w[i]]
  <2>2. \A i \in 0 .. k : h[i] = w[i]
    OBVIOUS
  <2>3. \A i \in 0 .. k : w[i] = IF i = 0 THEN n ELSE IF w[i - 1] = Null THEN Null ELSE f[w[i - 1]].to
    BY <2>1 DEF IsPath
  <2>4. ASSUME NEW i \in 0 .. k + 1
        PROVE  h[i] = IF i = 0 THEN n ELSE IF h[i - 1] = Null THEN Null ELSE f[h[i - 1]].to
    <3>1. CASE i = k + 1
      <4>1. i # 0 /\ i - 1 = k /\ h[i] = (IF w[k] = Null THEN Null ELSE f[w[k]].to) /\ h[k] = w[k]
        BY <3>1, <2>2
      <4>2. QED
        BY <4>1
    <3>2. CASE i \in 0 .. k
      <4>1. i = 0 \/ (i - 1 \in 0 .. k /\ h[i - 1] = w[i - 1])
        BY <3>2, <2>2
      <4>2. QED
        BY <3>2, <4>1, <2>2, <2>3
    <3>3. QED
      BY <3>1, <3>2
  <2>5. h = [i \in 0 .. k + 1 |-> h[i]]
    OBVIOUS
  <2> HIDE DEF h
  <2>6. IsPath(h, f, n, k + 1)
    BY <2>4, <2>5 DEF IsPath
  <2>7. QED
    BY <2>6
<1> HIDE DEF S
<1>3. N \in S
  BY <1>1, <1>2, SetInduction
<1>4. QED
  BY <1>3 DEF S

\* Its first node, and the one after each of them.
Goes(w, f, n, N) ==
  /\ w[0] = n
  /\ \A k \in 0 .. N - 1 : (w[k] = Null => w[k + 1] = Null) /\ (w[k] # Null => w[k + 1] = f[w[k]].to)

\* A path goes from each node to where its link leads, and stays at Null.
LEMMA PathSteps ==
  ASSUME NEW N \in Nat, NEW f, NEW n, NEW w, IsPath(w, f, n, N)
  PROVE  Goes(w, f, n, N)
<1> DEFINE F(i) == IF i = 0 THEN n ELSE IF w[i - 1] = Null THEN Null ELSE f[w[i - 1]].to
<1>1. w = [i \in 0 .. N |-> F(i)]
  BY DEF IsPath
<1> HIDE DEF F
<1>2. \A i \in 0 .. N : w[i] = F(i)
  <2>1. \A i \in 0 .. N : [j \in 0 .. N |-> F(j)][i] = F(i)
    BY Zenon
  <2>2. QED
    BY <1>1, <2>1, Zenon
<1>3. w[0] = n
  <2>1. 0 \in 0 .. N
    OBVIOUS
  <2>2. F(0) = n
    BY DEF F
  <2>3. QED
    BY <2>1, <2>2, <1>2, Zenon
<1>4. ASSUME NEW k \in 0 .. N - 1
      PROVE  (w[k] = Null => w[k + 1] = Null) /\ (w[k] # Null => w[k + 1] = f[w[k]].to)
  <2>1. k + 1 \in 0 .. N /\ k + 1 # 0 /\ (k + 1) - 1 = k
    OBVIOUS
  <2>2. F(k + 1) = IF w[(k + 1) - 1] = Null THEN Null ELSE f[w[(k + 1) - 1]].to
    BY <2>1, Zenon DEF F
  <2>3. w[k + 1] = F(k + 1)
    BY <2>1, <1>2, Zenon
  <2>4. w[k + 1] = IF w[k] = Null THEN Null ELSE f[w[k]].to
    BY <2>1, <2>2, <2>3, Zenon
  <2>5. QED
    BY <2>4
<1>5. QED
  BY <1>3, <1>4 DEF Goes

\* There are finitely many nodes, so a walk that never comes back ends.
LEMMA NodesFinite == IsFiniteSet(AllNodes) /\ Cardinality(AllNodes) \in Nat
<1>1. IsFiniteSet(Nodes)
  BY NodesAssumption
<1>2. IsFiniteSet({head_, tail_})
  <2>1. IsFiniteSet({head_}) /\ IsFiniteSet({tail_})
    BY FS_Singleton
  <2>2. {head_, tail_} = {head_} \cup {tail_}
    OBVIOUS
  <2>3. QED
    BY <2>1, <2>2, FS_Union
<1>3. IsFiniteSet(AllNodes)
  BY <1>1, <1>2, FS_Union DEF AllNodes
<1>4. QED
  BY <1>3, FS_CardinalityType

\* A walk that meets Null after l nodes has those nodes.
WalksAlong(f, n, w, l) ==
  /\ l \in 0 .. Cardinality(AllNodes)
  /\ IsPath(w, f, n, Cardinality(AllNodes))
  /\ \A i \in 0 .. Cardinality(AllNodes) : w[i] # Null <=> i < l

\* The path that Walk follows.
LEMMA WalkFollows ==
  ASSUME NEW f, NEW n
  PROVE  \E w : /\ IsPath(w, f, n, Cardinality(AllNodes))
                /\ \A l : WalksAlong(f, n, w, l) => Walk(f, n) = [i \in 1 .. l |-> w[i - 1]]
<1> DEFINE N == Cardinality(AllNodes)
           W == CHOOSE w : IsPath(w, f, n, N)
<1>1. N \in Nat
  BY NodesFinite
<1>2. IsPath(W, f, n, N)
  BY <1>1, PathExists
<1>3. Walk(f, n) = [i \in 1 .. Cardinality({i \in 0 .. N : W[i] # Null}) |-> W[i - 1]]
  BY DEF Walk, IsPath
<1> HIDE DEF N, W
<1>4. ASSUME NEW l, WalksAlong(f, n, W, l) PROVE Cardinality({i \in 0 .. N : W[i] # Null}) = l
  <2>1. l \in 0 .. N /\ \A i \in 0 .. N : W[i] # Null <=> i < l
    BY <1>4 DEF WalksAlong, N
  <2>2. {i \in 0 .. N : W[i] # Null} = 0 .. l - 1
    BY <1>1, <2>1
  <2>3. Cardinality(0 .. l - 1) = IF 0 > l - 1 THEN 0 ELSE (l - 1) - 0 + 1
    BY <1>1, <2>1, FS_Interval
  <2>4. Cardinality(0 .. l - 1) = l
    BY <1>1, <2>1, <2>3
  <2>5. QED
    BY <2>2, <2>4, Zenon
<1>5. QED
  BY <1>2, <1>3, <1>4 DEF N

\* R orders the nodes M, and the links f lead upwards within M to e, where they end.
LeadsUp(f, M, R, e) ==
  /\ M \subseteq AllNodes /\ e \in M /\ f[e].to = Null
  /\ \A m \in M : <<m, m>> \notin R
  /\ \A k, l, m \in M : <<k, l>> \in R /\ <<l, m>> \in R => <<k, m>> \in R
  /\ \A m \in M \ {e} : f[m].to \in M /\ <<m, f[m].to>> \in R

\* Then a walk from any node of M meets e: the nodes of a walk are different.
LEMMA WalkMeets ==
  ASSUME NEW f, NEW M, NEW R, NEW e, LeadsUp(f, M, R, e), NEW n \in M
  PROVE  Meets(f, n, e)
<1> DEFINE N == Cardinality(AllNodes)
<1>0. N \in Nat /\ Null \notin M /\ IsFiniteSet(AllNodes)
  BY NodesFinite, NodeNames DEF LeadsUp
<1>1. PICK w : /\ IsPath(w, f, n, N)
               /\ \A l : WalksAlong(f, n, w, l) => Walk(f, n) = [i \in 1 .. l |-> w[i - 1]]
  BY WalkFollows
<1> HIDE DEF N
<1>2. /\ w[0] = n
      /\ \A k \in 0 .. N - 1 : (w[k] = Null => w[k + 1] = Null) /\ (w[k] # Null => w[k + 1] = f[w[k]].to)
  <2>1. Goes(w, f, n, N)
    BY <1>0, <1>1, PathSteps, Zenon
  <2>2. QED
    BY <2>1 DEF Goes
<1> DEFINE Good(k) == /\ w[k] \in M \/ w[k] = Null
                      /\ \A i \in 0 .. k - 1 : w[k] # Null => w[i] \in M /\ <<w[i], w[k]>> \in R
           S == {k \in Nat : k <= N => Good(k)}
<1>3. 0 \in S
  <2>1. Good(0)
    BY <1>2
  <2>2. QED
    BY <2>1
<1>4. ASSUME NEW k \in Nat, k \in S PROVE k + 1 \in S
  <2>1. SUFFICES ASSUME k + 1 <= N PROVE Good(k + 1)
    OBVIOUS
  <2>2. k \in 0 .. N - 1 /\ Good(k)
    BY <1>0, <1>4, <2>1
  <2>3. CASE w[k] = Null
    <3>1. w[k + 1] = Null
      BY <1>2, <2>2, <2>3
    <3>2. QED
      BY <3>1
  <2>4. CASE w[k] = e
    <3>1. w[k + 1] = Null
      BY <1>0, <1>2, <2>2, <2>4 DEF LeadsUp
    <3>2. QED
      BY <3>1
  <2>5. CASE w[k] # Null /\ w[k] # e
    <3>1. w[k] \in M /\ w[k + 1] = f[w[k]].to /\ w[k + 1] \in M /\ <<w[k], w[k + 1]>> \in R
      BY <1>2, <2>2, <2>5 DEF LeadsUp
    <3>2. ASSUME NEW i \in 0 .. (k + 1) - 1 PROVE w[i] \in M /\ <<w[i], w[k + 1]>> \in R
      <4>1. CASE i = k
        BY <3>1, <4>1
      <4>2. CASE i # k
        <5>1. i \in 0 .. k - 1
          BY <4>2
        <5>2. w[i] \in M /\ <<w[i], w[k]>> \in R
          BY <2>2, <2>5, <5>1
        <5>3. QED
          BY <3>1, <5>2 DEF LeadsUp
      <4>3. QED
        BY <4>1, <4>2
    <3>3. QED
      BY <3>1, <3>2
  <2>6. QED
    BY <2>3, <2>4, <2>5
<1> HIDE DEF S
<1>5. Nat \subseteq S
  BY <1>3, <1>4, SetInduction
<1>6. \A k \in 0 .. N : Good(k)
  BY <1>0, <1>5 DEF S
<1>7. \E k \in 0 .. N : w[k] = Null
  <2> SUFFICES ASSUME \A k \in 0 .. N : w[k] # Null PROVE FALSE
    OBVIOUS
  <2>1. PICK g \in [0 .. N -> AllNodes] : \A k \in 0 .. N : g[k] = w[k]
    <3>1. \A k \in 0 .. N : w[k] \in AllNodes
      BY <1>6 DEF LeadsUp
    <3>2. [k \in 0 .. N |-> w[k]] \in [0 .. N -> AllNodes]
      BY <3>1
    <3>3. \A k \in 0 .. N : [j \in 0 .. N |-> w[j]][k] = w[k]
      OBVIOUS
    <3>4. QED
      BY <3>2, <3>3, Zenon
  <2>2. IsFiniteSet(0 .. N) /\ Cardinality(0 .. N) = N + 1
    <3>1. IsFiniteSet(0 .. N) /\ Cardinality(0 .. N) = IF 0 > N THEN 0 ELSE N - 0 + 1
      BY <1>0, FS_Interval
    <3>2. QED
      BY <1>0, <3>1
  <2>3. Cardinality(AllNodes) < Cardinality(0 .. N)
    BY <1>0, <2>2 DEF N
  <2>4. PICK i, j \in 0 .. N : i # j /\ g[i] = g[j]
    BY <1>0, <2>2, <2>3, FS_PigeonHole, Zenon
  <2>5. ASSUME NEW a \in 0 .. N, NEW b \in 0 .. N, a < b, w[a] = w[b] PROVE FALSE
    <3>1. a \in 0 .. b - 1
      BY <2>5
    <3>2. w[a] \in M /\ <<w[a], w[b]>> \in R
      BY <1>6, <3>1
    <3>3. QED
      BY <2>5, <3>2 DEF LeadsUp
  <2>6. w[i] = w[j] /\ (i < j \/ j < i)
    BY <2>1, <2>4
  <2>7. QED
    BY <2>5, <2>6
<1>8. PICK l \in 0 .. N : w[l] = Null /\ \A k \in 0 .. N : w[k] = Null => l <= k
  <2> DEFINE T == {k \in 0 .. N : w[k] = Null}
  <2>1. T \in SUBSET Nat /\ T # {}
    BY <1>7
  <2>2. PICK l \in T : \A k \in T : l <= k
    BY <2>1, LeastNumber
  <2>3. QED
    BY <2>2
<1>9. l # 0 /\ l - 1 \in 0 .. N - 1 /\ (l - 1) + 1 = l /\ l - 1 \in 0 .. N /\ l \in 1 .. l
  BY <1>0, <1>2, <1>8
<1>10. w[l - 1] = e
  <2>1. w[l - 1] # Null
    BY <1>8, <1>9
  <2>2. w[l - 1] \in M /\ f[w[l - 1]].to = Null
    BY <1>2, <1>6, <1>8, <1>9, <2>1
  <2>3. w[l - 1] # e => f[w[l - 1]].to \in M
    BY <2>2 DEF LeadsUp
  <2>4. QED
    BY <1>0, <2>2, <2>3, Zenon
<1>11. \A i \in 0 .. N : w[i] # Null <=> i < l
  <2>1. ASSUME NEW i \in 0 .. N, w[i] # Null PROVE i < l
    <3>1. SUFFICES ASSUME l <= i PROVE FALSE
      BY <1>8
    <3>2. l # i
      BY <1>8, <2>1
    <3>3. l \in 0 .. i - 1
      BY <3>1, <3>2, <1>8
    <3>4. w[l] \in M
      BY <1>6, <2>1, <3>3
    <3>5. QED
      BY <1>0, <1>8, <3>4
  <2>2. ASSUME NEW i \in 0 .. N, i < l PROVE w[i] # Null
    BY <1>8, <2>2
  <2>3. QED
    BY <2>1, <2>2
<1>12. Walk(f, n) = [i \in 1 .. l |-> w[i - 1]]
  <2>1. WalksAlong(f, n, w, l)
    BY <1>1, <1>8, <1>11 DEF WalksAlong, N
  <2>2. QED
    BY <1>1, <2>1
<1>13. QED
  BY <1>9, <1>10, <1>12 DEF Meets

\* From every node that has ever been in the list of MwCASDList a traversal ends at
\* the tail in one direction and at the head in the other.
THEOREM MwTraversalsEnd ==
  ASSUME TwoThreads
  PROVE  Spec /\ sync_method = "kSyncMwCAS" => []TraversalsEnd
<1>1. ASSUME MwInv PROVE TraversalsEnd
  <2>1. PICK R : IsOrder(R) /\ Follows(R)
    BY <1>1 DEF MwInv, OrderInv
  <2>2. PICK Q : Q = {e \in Members \X Members : <<e[2], e[1]>> \in R}
    OBVIOUS
  <2>3. \A n, m \in Members : <<n, m>> \in Q <=> <<m, n>> \in R
    BY <2>2
  <2>4. LinkInv /\ Members \subseteq AllNodes /\ head_ \in Members /\ tail_ \in Members
        /\ NoLink.to = Null
    BY <1>1, MemberTypes, LinkTypes DEF MwInv, Members
  <2>5. /\ \A m \in Members \ {tail_} : m \in NotTail
        /\ \A m \in Members \ {head_} : m \in NotHead
        /\ NotTail \subseteq Members /\ NotHead \subseteq Members
    BY DEF Members, NotTail, NotHead
  <2>6. LeadsUp(next, Members, R, tail_)
    BY <2>1, <2>4, <2>5 DEF LeadsUp, IsOrder, Follows, LinkInv
  <2>7. LeadsUp(prev, Members, Q, head_)
    <3>1. \A m \in Members \ {head_} : prev[m].to \in Members /\ <<m, prev[m].to>> \in Q
      BY <2>1, <2>3, <2>4, <2>5 DEF Follows, LinkInv
    <3>2. \A m \in Members : <<m, m>> \notin Q
      BY <2>1, <2>3 DEF IsOrder
    <3>3. \A k, l, m \in Members : <<k, l>> \in Q /\ <<l, m>> \in Q => <<k, m>> \in Q
      BY <2>1, <2>3 DEF IsOrder
    <3>4. QED
      BY <2>4, <3>1, <3>2, <3>3 DEF LeadsUp, LinkInv
  <2>8. \A n \in Members : Meets(next, n, tail_) /\ Meets(prev, n, head_)
    BY <2>6, <2>7, WalkMeets
  <2>9. QED
    BY <2>8 DEF TraversalsEnd, Members
<1>2. QED
  BY <1>1, MwListInvariant, PTL

-----------------------------------------------------------------------------
(***************************************************************************)
(* The list is an OrderedList.                                             *)
(***************************************************************************)
\* The links f lead from the head through the nodes of s, and end there.
ListLinks(f, s) ==
  /\ s \in Seq(AllNodes) /\ Len(s) >= 2 /\ s[1] = head_
  /\ \A i, j \in 1 .. Len(s) : s[i] = s[j] => i = j
  /\ \A i \in 1 .. Len(s) - 1 : f[s[i]].to = s[i + 1]
  /\ f[s[Len(s)]].to = Null
  /\ \A i \in 1 .. Len(s) : ~f[s[i]].del

\* Then a walk from the head meets the nodes of s.
LEMMA ListWalk ==
  ASSUME NEW f, NEW s, ListLinks(f, s)
  PROVE  Walk(f, head_) = s
<1> DEFINE N == Cardinality(AllNodes)
<1>0. N \in Nat /\ Null \notin AllNodes /\ IsFiniteSet(AllNodes)
  BY NodesFinite, NodeNames
<1>1. PICK w : /\ IsPath(w, f, head_, N)
               /\ \A l : WalksAlong(f, head_, w, l) => Walk(f, head_) = [i \in 1 .. l |-> w[i - 1]]
  BY WalkFollows
<1> HIDE DEF N
<1>2. /\ w[0] = head_
      /\ \A k \in 0 .. N - 1 : (w[k] = Null => w[k + 1] = Null) /\ (w[k] # Null => w[k + 1] = f[w[k]].to)
  <2>1. Goes(w, f, head_, N)
    BY <1>0, <1>1, PathSteps, Zenon
  <2>2. QED
    BY <2>1 DEF Goes
<1>3. Len(s) \in Nat /\ Len(s) >= 2 /\ \A i \in 1 .. Len(s) : s[i] \in AllNodes /\ s[i] # Null
  BY <1>0 DEF ListLinks
<1>4. Len(s) <= N
  <2> SUFFICES ASSUME Len(s) > N PROVE FALSE
    BY <1>0, <1>3
  <2>1. s \in [1 .. Len(s) -> AllNodes]
    BY DEF ListLinks
  <2>2. IsFiniteSet(1 .. Len(s)) /\ Cardinality(1 .. Len(s)) = Len(s)
    <3>1. IsFiniteSet(1 .. Len(s)) /\ Cardinality(1 .. Len(s)) = IF 1 > Len(s) THEN 0 ELSE Len(s) - 1 + 1
      BY <1>3, FS_Interval
    <3>2. QED
      BY <1>3, <3>1
  <2>3. Cardinality(AllNodes) < Cardinality(1 .. Len(s))
    BY <1>0, <1>3, <2>2 DEF N
  <2>4. PICK i, j \in 1 .. Len(s) : i # j /\ s[i] = s[j]
    BY <1>0, <2>1, <2>2, <2>3, FS_PigeonHole, Zenon
  <2>5. QED
    BY <2>4 DEF ListLinks
<1> DEFINE Good(k) == (k < Len(s) => w[k] = s[k + 1]) /\ (k >= Len(s) => w[k] = Null)
           S == {k \in Nat : k <= N => Good(k)}
<1>5. 0 \in S
  <2>1. Good(0)
    BY <1>2, <1>3 DEF ListLinks
  <2>2. QED
    BY <2>1
<1>6. ASSUME NEW k \in Nat, k \in S PROVE k + 1 \in S
  <2>1. SUFFICES ASSUME k + 1 <= N PROVE Good(k + 1)
    OBVIOUS
  <2>2. k \in 0 .. N - 1 /\ Good(k)
    BY <1>0, <1>6, <2>1
  <2>3. CASE k + 1 < Len(s)
    <3>1. k + 1 \in 1 .. Len(s) - 1 /\ k + 1 \in 1 .. Len(s) /\ k < Len(s) /\ ~(k + 1 >= Len(s))
      BY <1>3, <2>3
    <3>2. w[k] = s[k + 1] /\ w[k] # Null
      BY <1>3, <2>2, <3>1
    <3>3. w[k + 1] = f[s[k + 1]].to
      BY <1>2, <2>2, <3>2
    <3>4. f[s[k + 1]].to = s[(k + 1) + 1]
      BY <3>1 DEF ListLinks
    <3>5. QED
      BY <3>1, <3>3, <3>4
  <2>4. CASE k + 1 = Len(s)
    <3>1. k + 1 \in 1 .. Len(s) /\ k < Len(s) /\ ~(k + 1 < Len(s))
      BY <1>3, <2>4
    <3>2. w[k] = s[Len(s)] /\ w[k] # Null
      BY <1>3, <2>2, <2>4, <3>1
    <3>3. w[k + 1] = Null
      BY <1>2, <2>2, <3>2 DEF ListLinks
    <3>4. QED
      BY <3>1, <3>3
  <2>5. CASE k + 1 > Len(s)
    <3>1. k >= Len(s) /\ ~(k + 1 < Len(s))
      BY <1>3, <2>5
    <3>2. w[k + 1] = Null
      BY <1>2, <2>2, <3>1
    <3>3. QED
      BY <3>1, <3>2
  <2>6. QED
    BY <1>3, <2>3, <2>4, <2>5
<1> HIDE DEF S
<1>7. Nat \subseteq S
  BY <1>5, <1>6, SetInduction
<1>8. \A k \in 0 .. N : Good(k)
  BY <1>0, <1>7 DEF S
<1>9. \A i \in 0 .. N : w[i] # Null <=> i < Len(s)
  <2>1. ASSUME NEW i \in 0 .. N, i < Len(s) PROVE w[i] # Null
    <3>1. i + 1 \in 1 .. Len(s) /\ w[i] = s[i + 1]
      BY <1>3, <1>8, <2>1
    <3>2. QED
      BY <1>3, <3>1
  <2>2. ASSUME NEW i \in 0 .. N, ~(i < Len(s)) PROVE w[i] = Null
    BY <1>3, <1>8, <2>2
  <2>3. QED
    BY <2>1, <2>2
<1>10. Walk(f, head_) = [i \in 1 .. Len(s) |-> w[i - 1]]
  <2>1. WalksAlong(f, head_, w, Len(s))
    BY <1>0, <1>1, <1>3, <1>4, <1>9 DEF WalksAlong, N
  <2>2. QED
    BY <1>1, <2>1
<1>11. \A i \in 1 .. Len(s) : w[i - 1] = s[i]
  <2>1. \A i \in 1 .. Len(s) : i - 1 \in 0 .. N /\ i - 1 < Len(s) /\ (i - 1) + 1 = i
    BY <1>0, <1>3, <1>4
  <2>2. QED
    BY <1>8, <2>1
<1>12. s = [i \in 1 .. Len(s) |-> s[i]]
  BY DEF ListLinks
<1>13. QED
  BY <1>10, <1>11, <1>12

\* What NodesIn collects on the way along s.
IsUpTo(u, f, s) ==
  u = [i \in 0 .. Len(s) |-> IF i = 0 THEN <<>>
                             ELSE IF f[s[i]].del THEN u[i - 1] ELSE Append(u[i - 1], s[i])]

\* A sequence is put together by appending its elements.
LEMMA Prefixes ==
  ASSUME NEW S, NEW s \in Seq(S)
  PROVE  /\ SubSeq(s, 1, 0) = <<>> /\ SubSeq(s, 1, Len(s)) = s
         /\ \A i \in 1 .. Len(s) : SubSeq(s, 1, i) = Append(SubSeq(s, 1, i - 1), s[i])
<1>1. SubSeq(s, 1, 0) = <<>>
  OBVIOUS
<1>2. SubSeq(s, 1, Len(s)) = s
  OBVIOUS
<1>3. ASSUME NEW i \in 1 .. Len(s) PROVE SubSeq(s, 1, i) = Append(SubSeq(s, 1, i - 1), s[i])
  OBVIOUS
<1>4. QED
  BY <1>1, <1>2, <1>3

\* NodesIn collects the nodes of s.
LEMMA NodesInIs ==
  ASSUME NEW f, NEW s, ListLinks(f, s)
  PROVE  NodesIn(f) = s
<1> DEFINE U == CHOOSE u : IsUpTo(u, f, s)
<1>1. NodesIn(f) = U[Len(s)]
  BY ListWalk DEF NodesIn, IsUpTo
<1>2. s \in Seq(AllNodes) /\ Len(s) \in Nat /\ \A i \in 1 .. Len(s) : ~f[s[i]].del
  BY DEF ListLinks
<1>3. PICK p : p = [i \in 0 .. Len(s) |-> SubSeq(s, 1, i)]
  OBVIOUS
<1>4. /\ SubSeq(s, 1, 0) = <<>> /\ SubSeq(s, 1, Len(s)) = s
      /\ \A i \in 1 .. Len(s) : SubSeq(s, 1, i) = Append(SubSeq(s, 1, i - 1), s[i])
  BY <1>2, Prefixes, Zenon
<1>5. \A i \in 0 .. Len(s) : p[i] = SubSeq(s, 1, i)
  BY <1>3, Zenon
<1>6. p[0] = <<>> /\ p[Len(s)] = s /\ \A i \in 1 .. Len(s) : p[i] = Append(p[i - 1], s[i])
  <2>1. 0 \in 0 .. Len(s) /\ Len(s) \in 0 .. Len(s)
        /\ \A i \in 1 .. Len(s) : i \in 0 .. Len(s) /\ i - 1 \in 0 .. Len(s)
    BY <1>2
  <2>2. QED
    BY <1>4, <1>5, <2>1, Zenon
<1>7. IsUpTo(p, f, s)
  <2>1. \A i \in 0 .. Len(s) : i = 0 \/ i \in 1 .. Len(s)
    BY <1>2
  <2>2. \A i \in 0 .. Len(s) :
          p[i] = IF i = 0 THEN <<>> ELSE IF f[s[i]].del THEN p[i - 1] ELSE Append(p[i - 1], s[i])
    BY <1>2, <1>6, <2>1, Zenon
  <2>3. p = [i \in 0 .. Len(s) |-> p[i]]
    BY <1>3
  <2>4. QED
    BY <2>2, <2>3, Zenon DEF IsUpTo
<1>8. IsUpTo(U, f, s)
  BY <1>7
<1> HIDE DEF U
<1>9. \A i \in 0 .. Len(s) :
        U[i] = IF i = 0 THEN <<>> ELSE IF f[s[i]].del THEN U[i - 1] ELSE Append(U[i - 1], s[i])
  <2> DEFINE F(i) == IF i = 0 THEN <<>> ELSE IF f[s[i]].del THEN U[i - 1] ELSE Append(U[i - 1], s[i])
  <2>1. U = [i \in 0 .. Len(s) |-> F(i)]
    BY <1>8 DEF IsUpTo
  <2> HIDE DEF F
  <2>2. \A i \in 0 .. Len(s) : [j \in 0 .. Len(s) |-> F(j)][i] = F(i)
    BY Zenon
  <2>3. \A i \in 0 .. Len(s) : U[i] = F(i)
    BY <2>1, <2>2, Zenon
  <2>4. QED
    BY <2>3, Zenon DEF F
<1> DEFINE S == {i \in Nat : i <= Len(s) => U[i] = p[i]}
<1>10. 0 \in S
  <2>1. 0 \in 0 .. Len(s)
    BY <1>2
  <2>2. U[0] = <<>>
    BY <2>1, <1>9, Zenon
  <2>3. QED
    BY <2>2, <1>6
<1>11. ASSUME NEW i \in Nat, i \in S PROVE i + 1 \in S
  <2>1. SUFFICES ASSUME i + 1 <= Len(s) PROVE U[i + 1] = p[i + 1]
    OBVIOUS
  <2>2. i + 1 \in 0 .. Len(s) /\ i + 1 \in 1 .. Len(s) /\ i + 1 # 0 /\ (i + 1) - 1 = i /\ U[i] = p[i]
    BY <1>2, <1>11, <2>1
  <2>3. U[i + 1] = Append(U[i], s[i + 1])
    BY <1>2, <1>9, <2>2, Zenon
  <2>4. p[i + 1] = Append(p[i], s[i + 1])
    BY <1>6, <2>2, Zenon
  <2>5. QED
    BY <2>2, <2>3, <2>4, Zenon
<1> HIDE DEF S
<1>12. Nat \subseteq S
  BY <1>10, <1>11, SetInduction
<1>13. U[Len(s)] = p[Len(s)]
  BY <1>2, <1>12 DEF S
<1>14. QED
  BY <1>1, <1>6, <1>13

\* The list of the invariant is what OrderedList sees.
LEMMA ListIs ==
  ASSUME MwInv, NEW s, IsList(s)
  PROVE  ListLinks(next, s) /\ NodesIn(next) = s
<1>1. s \in Seq(AllNodes) /\ Len(s) \in Nat /\ \A i \in 1 .. Len(s) - 1 : i + 1 \in 1 .. Len(s)
  BY DEF IsList
<1>2. \A i \in 1 .. Len(s) - 1 : next[s[i]] = To(s[i + 1]) /\ s[i + 1] \in AllNodes
  BY <1>1 DEF IsList
<1>3. \A i \in 1 .. Len(s) - 1 : next[s[i]].to = s[i + 1]
  BY <1>2, LinkTypes
<1>4. next[s[Len(s)]].to = Null
  BY LinkTypes DEF MwInv, LinkInv, IsList
<1>5. ListLinks(next, s)
  BY <1>3, <1>4 DEF ListLinks, IsList
<1>6. QED
  BY <1>5, NodesInIs

\* It is the only one, in the next state too.
OneList == MwInv => \A s : IsList(s) => NodesIn(next) = s

\* NodesIn is the list.
LEMMA TheList == OneList
  BY ListIs DEF OneList

\* NodesIn is the list after a step.
LEMMA TheNextList == OneList'
  BY TheList, PTL

\* A step that changes neither the members nor their links leaves the list as it is.
LEMMA SameList ==
  ASSUME MwInv, MwInv', UNCHANGED inserted,
         \A n \in Members : next'[n] = next[n] /\ prev'[n] = prev[n]
  PROVE  NodesIn(next)' = NodesIn(next)
<1>1. PICK s : IsList(s)
  BY DEF MwInv, ListInv
<1>2. IsList(s)'
  BY <1>1, SameLinks
<1>3. QED
  BY <1>1, <1>2, TheList, TheNextList DEF OneList

\* What a thread's call is to OrderedList.
Change(c) == IF c # NoCall /\ c.op \in {"GetNext", "GetPrev"} THEN NoCall ELSE c

\* Changes takes the calls one by one.
LEMMA ChangesAre ==
  /\ Changes = [t \in Threads |-> Change(call[t])]
  /\ Changes' = [t \in Threads |-> Change(call'[t])]
  BY DEF Changes, Change

\* When one call changes, at most that one changes for OrderedList.
LEMMA OneChange ==
  ASSUME MwInv, NEW t \in Threads, NEW c, call' = Put(call, t, c)
  PROVE  /\ Changes[t] = Change(call[t])
         /\ Changes' = [Changes EXCEPT ![t] = Change(c)]
         /\ Change(c) = Change(call[t]) => Changes' = Changes
<1>1. call \in [Threads -> CallSet \cup {NoCall}]
  BY DEF MwInv, MwTypeOK
<1>2. \A u \in Threads : call'[u] = IF u = t THEN c ELSE call[u]
  BY <1>1 DEF Put
<1>3. \A u \in Threads : Change(call'[u]) = IF u = t THEN Change(c) ELSE Change(call[u])
  BY <1>2
<1>4. QED
  BY <1>3, ChangesAre

\* The calls.
LEMMA CallsRefine ==
  ASSUME MwInv, MwInv', NEW t \in Threads, Calls(t)
  PROVE  List!Next \/ UNCHANGED List!vars
<1> USE ThreadTypes
<1>1. UNCHANGED <<next, prev, inserted>>
  BY DEF Calls, CallInsert, CallDelete, CallMove, Return, linkVars
<1>2. NodesIn(next)' = NodesIn(next)
  BY <1>1
<1>3. ASSUME At(t, "idle"), NEW c, call' = Put(call, t, c), c \in CallSet, c.ref \in inserted \cup {head_, tail_}
      PROVE  /\ Changes[t] = NoCall
             /\ c.op \in {"GetNext", "GetPrev"} => Changes' = Changes
             /\ c.op \notin {"GetNext", "GetPrev"} => Changes' = [Changes EXCEPT ![t] = c]
  <2>1. Change(call[t]) = NoCall
    BY <1>3 DEF At, CallOK, Change
  <2>2. c # NoCall
    BY <1>3, CallsAssumption DEF CallSet, AllNodes
  <2>3. Change(c) = IF c.op \in {"GetNext", "GetPrev"} THEN NoCall ELSE c
    BY <2>2 DEF Change
  <2>4. /\ Changes[t] = Change(call[t])
        /\ Changes' = [Changes EXCEPT ![t] = Change(c)]
        /\ Change(c) = Change(call[t]) => Changes' = Changes
    BY <1>3, OneChange
  <2>5. QED
    BY <2>1, <2>3, <2>4
<1>4. CASE CallInsert(t)
  <2>1. PICK o \in {"InsertBefore", "InsertAfter"}, r \in inserted \cup {head_, tail_}, n \in NewNode[t] \ inserted :
          Begin(t, o, r, n)
    BY <1>4 DEF CallInsert
  <2>2. PICK c : c = [op |-> o, ref |-> r, node |-> n]
    OBVIOUS
  <2>3. n \in Nodes /\ r \in AllNodes
    BY CallsAssumption, NodeNames DEF MwInv, MwTypeOK
  <2>4. At(t, "idle") /\ call' = Put(call, t, c) /\ c \in CallSet /\ c.ref \in inserted \cup {head_, tail_}
        /\ c.op \in {"InsertBefore", "InsertAfter"} /\ c.ref = r
    BY <2>1, <2>2, <2>3 DEF Begin, CallSet
  <2>5. Changes[t] = NoCall /\ Changes' = [Changes EXCEPT ![t] = c]
    BY <1>3, <2>4
  <2>6. c \in [op : {"InsertBefore", "InsertAfter"}, ref : {r}, node : Nodes] \cup [op : {"Delete"}, ref : {r}, node : {Null}]
    BY <2>2, <2>3
  <2>7. List!Call(t)
    BY <1>1, <1>2, <2>1, <2>5, <2>6 DEF List!Call
  <2>8. QED
    BY <2>7 DEF List!Next
<1>5. CASE CallDelete(t)
  <2>1. PICK r \in inserted \cup {head_, tail_} : Begin(t, "Delete", r, Null)
    BY <1>5 DEF CallDelete
  <2>2. PICK c : c = [op |-> "Delete", ref |-> r, node |-> Null]
    OBVIOUS
  <2>3. r \in AllNodes
    BY NodeNames DEF MwInv, MwTypeOK
  <2>4. At(t, "idle") /\ call' = Put(call, t, c) /\ c \in CallSet /\ c.ref \in inserted \cup {head_, tail_}
        /\ c.op = "Delete" /\ c.ref = r
    BY <2>1, <2>2, <2>3 DEF Begin, CallSet
  <2>5. Changes[t] = NoCall /\ Changes' = [Changes EXCEPT ![t] = c]
    BY <1>3, <2>4
  <2>6. c \in [op : {"InsertBefore", "InsertAfter"}, ref : {r}, node : Nodes] \cup [op : {"Delete"}, ref : {r}, node : {Null}]
    BY <2>2
  <2>7. List!Call(t)
    BY <1>1, <1>2, <2>1, <2>5, <2>6 DEF List!Call
  <2>8. QED
    BY <2>7 DEF List!Next
<1>6. CASE CallMove(t)
  <2>1. PICK o \in {"GetNext", "GetPrev"}, r \in inserted \cup {head_, tail_} : Begin(t, o, r, Null)
    BY <1>6 DEF CallMove
  <2>2. PICK c : c = [op |-> o, ref |-> r, node |-> Null]
    OBVIOUS
  <2>3. r \in AllNodes
    BY NodeNames DEF MwInv, MwTypeOK
  <2>4. At(t, "idle") /\ call' = Put(call, t, c) /\ c \in CallSet /\ c.ref \in inserted \cup {head_, tail_}
        /\ c.op \in {"GetNext", "GetPrev"}
    BY <2>1, <2>2, <2>3 DEF Begin, CallSet
  <2>5. Changes' = Changes
    BY <1>3, <2>4
  <2>6. QED
    BY <1>1, <1>2, <2>5 DEF List!vars
<1>7. CASE Return(t)
  <2>1. pc[t] = "return" /\ call' = Put(call, t, NoCall)
    BY <1>7 DEF Return, At
  <2>2. call[t] # NoCall /\ call[t] \in CallSet
    BY <2>1 DEF CallOK
  <2>3. Change(NoCall) = NoCall
    BY DEF Change
  <2>4. /\ Changes[t] = Change(call[t])
        /\ Changes' = [Changes EXCEPT ![t] = NoCall]
        /\ Change(NoCall) = Change(call[t]) => Changes' = Changes
    BY <2>1, <2>3, OneChange
  <2>5. CASE call[t].op \in {"GetNext", "GetPrev"}
    <3>1. Changes' = Changes
      BY <2>2, <2>3, <2>4, <2>5 DEF Change
    <3>2. QED
      BY <1>1, <1>2, <3>1 DEF List!vars
  <2>6. CASE call[t].op \notin {"GetNext", "GetPrev"}
    <3>1. Changes[t] = call[t]
      BY <2>4, <2>6 DEF Change
    <3>2. PICK s : IsList(s)
      BY DEF MwInv, ListInv
    <3>3. NodesIn(next) = s
      BY <3>2, TheList DEF OneList
    <3>4. call[t].op \in {"InsertBefore", "InsertAfter", "Delete"}
      BY <2>2, <2>6 DEF CallSet
    <3>5. CASE call[t].op = "Delete"
      <4>1. call[t].ref \in {head_, tail_} \/ Deleted(call[t].ref)
        BY <2>1, <3>5 DEF CallOK
      <4>2. Deleted(call[t].ref) => call[t].ref \notin List!ToSet(s)
        <5>1. DOMAIN s = 1 .. Len(s) /\ \A i \in 1 .. Len(s) : ~next[s[i]].del
          BY <3>2 DEF IsList
        <5>2. QED
          BY <5>1 DEF Deleted, List!ToSet
      <4>3. List!Return(t)
        BY <1>1, <1>2, <2>2, <2>4, <3>1, <3>3, <3>5, <4>1, <4>2 DEF List!Return
      <4>4. QED
        BY <4>3 DEF List!Next
    <3>6. CASE call[t].op \in {"InsertBefore", "InsertAfter"}
      <4>1. call[t].node \in inserted /\ call[t].op # "Delete"
        BY <2>1, <3>6 DEF CallOK
      <4>2. List!Return(t)
        BY <1>1, <1>2, <2>2, <2>4, <3>1, <4>1 DEF List!Return
      <4>3. QED
        BY <4>2 DEF List!Next
    <3>7. QED
      BY <3>4, <3>5, <3>6
  <2>7. QED
    BY <2>5, <2>6
<1>8. QED
  BY <1>4, <1>5, <1>6, <1>7 DEF Calls

\* The steps that leave calls, members and their links as they are.
LEMMA QuietRefines ==
  ASSUME MwInv, MwInv', UNCHANGED <<call, inserted>>,
         \A n \in Members : next'[n] = next[n] /\ prev'[n] = prev[n]
  PROVE  UNCHANGED List!vars
<1>1. NodesIn(next)' = NodesIn(next)
  BY SameList
<1>2. Changes' = Changes
  BY DEF Changes
<1>3. QED
  BY <1>1, <1>2 DEF List!vars

\* An insertion puts the node next to the one it was given, if that one is in the list.
LEMMA InsertRefines ==
  ASSUME MwInv, MwInv', NEW t \in Threads, NEW n, NEW p, NEW x, Inserts(t, n, p, x),
         (pc[t] = "ib_mwcas" /\ x = cur[t]) \/ (pc[t] = "ia_mwcas" /\ p = cur[t])
  PROVE  List!Insert(t)
<1> USE ThreadTypes, MemberTypes
<1>0. InsertEffect(n, p, x) /\ n = call[t].node /\ OwnStep(t, "return", call[t], cur[t], lp[t], ln[t], gone[t])
  BY DEF Inserts
<1>1. PICK s : IsList(s)
  BY DEF MwInv, ListInv
<1>2. p \in NotTail /\ x \in AllNodes /\ next[p] = To(x) /\ p \in AllNodes
  BY <1>0 DEF InsertEffect
<1>3. PICK k \in 1 .. Len(s) - 1 : s[k] = p /\ s[k + 1] = x
  BY <1>1, <1>2, PlaceOf
<1>4. PICK q : q = With(s, k, n)
  OBVIOUS
<1>5. IsList(q)'
  BY <1>0, <1>1, <1>3, <1>4, InsertList
<1>6. NodesIn(next) = s /\ NodesIn(next)' = q
  BY <1>1, <1>5, TheList, TheNextList DEF OneList
<1>7. k + 1 \in 2 .. Len(s) /\ q = List!InsertAt(s, k + 1, n)
  <2>1. Len(s) \in Nat /\ (k + 1) - 1 = k /\ k + 1 \in 2 .. Len(s)
    BY <1>1 DEF IsList
  <2>2. QED
    BY <1>4, <2>1 DEF With, List!InsertAt
<1>8. pc[t] \in BeforePCs \cup AfterPCs /\ (pc[t] \in BeforePCs <=> pc[t] = "ib_mwcas")
  BY DEF BeforePCs, AfterPCs
<1>9. /\ call[t] # NoCall /\ call[t].op \in {"InsertBefore", "InsertAfter"}
      /\ cur[t] = call[t].ref \/ Deleted(call[t].ref)
      /\ GoesBefore(call[t]) <=> pc[t] = "ib_mwcas"
      /\ call[t] \in CallSet
  BY <1>8 DEF CallOK, PCs, BeforePCs, AfterPCs
<1>10. Changes' = Changes /\ Changes[t] = call[t]
  <2>1. call' = Put(call, t, call[t])
    BY <1>0 DEF OwnStep
  <2>2. Change(call[t]) = call[t]
    BY <1>9 DEF Change
  <2>3. QED
    BY <2>1, <2>2, OneChange
<1>11. /\ Len(s) \in Nat /\ DOMAIN q = 1 .. Len(q) /\ Len(q) = Len(s) + 1
       /\ q[k] = p /\ q[k + 1] = n /\ q[(k + 1) + 1] = x /\ k + 1 \in DOMAIN q
       /\ \A i, j \in DOMAIN q : q[i] = q[j] => i = j
  <2>1. s \in Seq(AllNodes) /\ n \in AllNodes /\ Len(s) \in Nat /\ k \in 1 .. Len(s) /\ k \in 1 .. k
        /\ k + 1 \in k + 1 .. Len(s) /\ k \in Nat
    BY <1>0, <1>1, NodeNames DEF IsList, InsertEffect
  <2>2. PutsIn(q, AllNodes, s, k, n)
    BY <1>4, <2>1, WithIs
  <2>3. q \in Seq(AllNodes) /\ Len(q) = Len(s) + 1 /\ q[k] = p /\ q[k + 1] = n /\ q[(k + 1) + 1] = x
    BY <1>3, <2>1, <2>2 DEF PutsIn
  <2>4. \A i, j \in 1 .. Len(q) : q[i] = q[j] => i = j
    BY <1>5 DEF IsList
  <2>5. QED
    BY <2>1, <2>3, <2>4
<1>12. (CHOOSE j \in DOMAIN q : q[j] = call[t].node) = k + 1
  BY <1>0, <1>11
<1>13. Deleted(call[t].ref) => call[t].ref \notin List!ToSet(q)
  <2>1. SUFFICES ASSUME Deleted(call[t].ref) PROVE call[t].ref \notin List!ToSet(q)
    OBVIOUS
  <2>2. call[t].ref \in AllNodes /\ call[t].ref # p /\ next[call[t].ref].del
    BY <2>1, <1>2, LinkTypes, NodeNames DEF Deleted
  <2>3. next'[call[t].ref].del
    BY <2>2, <1>0 DEF InsertEffect
  <2>4. \A i \in DOMAIN q : ~next'[q[i]].del
    BY <1>5, <1>11 DEF IsList
  <2>5. QED
    BY <2>3, <2>4 DEF List!ToSet
<1>14. List!RightPlace(q, call[t])
  <2>1. PICK c : c = call[t]
    OBVIOUS
  <2>2. SUFFICES ASSUME c.ref \in List!ToSet(q)
                 PROVE  IF c.ref = tail_ \/ (c.op = "InsertBefore" /\ c.ref # head_)
                        THEN q[(k + 1) + 1] = c.ref ELSE q[(k + 1) - 1] = c.ref
    BY <1>12, <2>1, Zenon DEF List!RightPlace
  <2>3. c.ref = cur[t] /\ (GoesBefore(c) <=> pc[t] = "ib_mwcas")
    BY <1>9, <1>13, <2>1, <2>2
  <2>4. (k + 1) - 1 = k
    BY <1>3
  <2>5. CASE pc[t] = "ib_mwcas" /\ x = cur[t]
    BY <1>11, <2>3, <2>5, Zenon DEF GoesBefore
  <2>6. CASE pc[t] = "ia_mwcas" /\ p = cur[t]
    <3>1. pc[t] # "ib_mwcas"
      BY <2>6
    <3>2. QED
      BY <1>11, <2>3, <2>4, <2>6, <3>1, Zenon DEF GoesBefore
  <2>7. QED
    BY <2>5, <2>6
<1>15. n \notin inserted /\ inserted' = inserted \cup {n}
  BY <1>0 DEF InsertEffect
<1>16. QED
  <2>1. /\ Changes[t] # NoCall /\ Changes[t].op # "Delete" /\ Changes[t].node \notin inserted
        /\ \E i \in 2 .. Len(s) : q = List!InsertAt(s, i, Changes[t].node)
        /\ List!RightPlace(q, Changes[t]) /\ inserted' = inserted \cup {Changes[t].node} /\ Changes' = Changes
    BY <1>0, <1>7, <1>9, <1>10, <1>14, <1>15
  <2>2. QED
    BY <1>6, <2>1, Zenon DEF List!Insert

\* A deletion takes the node out.
LEMMA DeleteRefines ==
  ASSUME MwInv, MwInv', NEW t \in Threads, pc[t] = "d_mwcas", NEW n, NEW p, NEW x, Deletes(t, n, p, x)
  PROVE  List!Delete(t)
<1> USE ThreadTypes, MemberTypes
<1>0. DeleteEffect(n, p, x) /\ call[t].op = "Delete" /\ n = call[t].ref
      /\ OwnStep(t, "return", call[t], cur[t], lp[t], ln[t], gone[t])
  BY DEF Deletes
<1>1. PICK s : IsList(s)
  BY DEF MwInv, ListInv
<1>2. PICK k \in 2 .. Len(s) - 1 : s[k - 1] = p /\ s[k] = n /\ s[k + 1] = x
  BY <1>0, <1>1, PlaceToDelete
<1>3. PICK q : q = Without(s, k)
  OBVIOUS
<1>4. IsList(q)'
  BY <1>0, <1>1, <1>2, <1>3, DeleteList
<1>5. NodesIn(next) = s /\ NodesIn(next)' = q
  BY <1>1, <1>4, TheList, TheNextList DEF OneList
<1>6. k \in DOMAIN s /\ q = List!RemoveAt(s, k)
  <2>1. k \in DOMAIN s
    BY <1>1, <1>2 DEF IsList
  <2>2. QED
    BY <2>1, <1>3 DEF Without, List!RemoveAt
<1>7. call[t] # NoCall
  BY DEF CallOK
<1>8. Changes' = Changes /\ Changes[t] = call[t]
  <2>1. call' = Put(call, t, call[t])
    BY <1>0 DEF OwnStep
  <2>2. Change(call[t]) = call[t]
    BY <1>0 DEF Change
  <2>3. QED
    BY <2>1, <2>2, OneChange
<1>9. inserted' = inserted /\ n \notin {head_, tail_}
  BY <1>0, NodeNames DEF DeleteEffect
<1>10. QED
  BY <1>0, <1>2, <1>5, <1>6, <1>7, <1>8, <1>9, Zenon DEF List!Delete

\* Every step is a step of OrderedList or changes nothing that it sees.
LEMMA StepsRefine ==
  ASSUME MwInv, MwInv', [Next]_vars
  PROVE  List!Next \/ UNCHANGED List!vars
<1>1. CASE UNCHANGED vars
  BY <1>1, QuietRefines DEF vars
<1>2. ASSUME NEW t \in Threads, Steps(t) PROVE List!Next \/ UNCHANGED List!vars
  <2>1. CASE Calls(t)
    BY <2>1, CallsRefine
  <2>2. CASE MwLinkBefore(t) \/ MwLinkAfter(t)
    <3>1. pc[t] \in BeforePCs \cup AfterPCs
      BY <2>2 DEF MwLinkBefore, MwLinkAfter, Mw, At, BeforePCs, AfterPCs
    <3>2. call[t].node \notin Members
      <4>1. call[t].node \in NewNode[t] \ inserted
        BY <3>1, ThreadTypes DEF CallOK
      <4>2. NewNode[t] \subseteq Nodes
        BY CallsAssumption
      <4>3. QED
        BY <4>1, <4>2, NodeNames DEF Members
    <3>3. UNCHANGED <<call, inserted>> /\ \A n \in Members : next'[n] = next[n] /\ prev'[n] = prev[n]
      <4>1. DOMAIN next = AllNodes /\ DOMAIN prev = AllNodes /\ Members \subseteq AllNodes
        BY MemberTypes DEF MwInv, MwTypeOK
      <4>2. /\ UNCHANGED <<call, inserted>>
            /\ UNCHANGED <<next, prev>> \/ \E p, x : SetLinks(call[t].node, p, x)
        BY <2>2 DEF MwLinkBefore, MwLinkAfter, linkVars, historyVars
      <4>3. QED
        BY <3>2, <4>1, <4>2 DEF SetLinks, Put
    <3>4. QED
      BY <3>3, QuietRefines
  <2>3. CASE MwInsertBefore(t) \/ MwInsertAfter(t)
    <3>1. CASE \E l : Retries(t, l)
      <4>1. UNCHANGED <<call, next, prev, inserted>>
        <5>1. call' = Put(call, t, call[t]) /\ UNCHANGED <<next, prev, inserted>>
          BY <3>1 DEF Retries, LocalStep, OwnStep
        <5>2. QED
          BY <5>1 DEF Put, MwInv, MwTypeOK
      <4>2. QED
        BY <4>1, QuietRefines
    <3>2. CASE pc[t] = "ib_mwcas" /\ Inserts(t, call[t].node, lp[t].to, cur[t])
      BY <3>2, InsertRefines DEF List!Next
    <3>3. CASE pc[t] = "ia_mwcas" /\ Inserts(t, call[t].node, cur[t], ln[t].to)
      BY <3>3, InsertRefines DEF List!Next
    <3>4. QED
      BY <2>3, <3>1, <3>2, <3>3, InsertCases
  <2>4. CASE MwDelete(t)
    <3>1. CASE \E l : Retries(t, l)
      <4>1. UNCHANGED <<call, next, prev, inserted>>
        <5>1. call' = Put(call, t, call[t]) /\ UNCHANGED <<next, prev, inserted>>
          BY <3>1 DEF Retries, LocalStep, OwnStep
        <5>2. QED
          BY <5>1 DEF Put, MwInv, MwTypeOK
      <4>2. QED
        BY <4>1, QuietRefines
    <3>2. CASE pc[t] = "d_mwcas" /\ Deletes(t, cur[t], lp[t].to, ln[t].to)
      BY <3>2, DeleteRefines DEF List!Next
    <3>3. QED
      BY <2>4, <3>1, <3>2, DeleteCases
  <2>5. CASE \/ MwGetNext(t) \/ MwGetPrev(t) \/ MwReadPrev(t) \/ MwCheckNext(t) \/ MwSkipNext(t)
             \/ MwReadNext(t) \/ MwSkipPrev(t) \/ MwDeleteCheck(t) \/ MwDeleteReadPrev(t)
             \/ MwDeleteReadNext(t) \/ MwDeleteCheckPrev(t) \/ MwDeleteCheckNext(t)
    <3>1. UNCHANGED <<call, next, prev, inserted>>
      BY <2>5 DEF MwGetNext, MwGetPrev, MwReadPrev, MwCheckNext, MwSkipNext, MwReadNext, MwSkipPrev,
         MwDeleteCheck, MwDeleteReadPrev, MwDeleteReadNext, MwDeleteCheckPrev, MwDeleteCheckNext,
         linkVars, historyVars
    <3>2. QED
      BY <3>1, QuietRefines
  <2>6. ~CasSteps(t)
    BY NoCasSteps DEF MwInv, MwTypeOK
  <2>7. QED
    BY <1>2, <2>1, <2>2, <2>3, <2>4, <2>5, <2>6 DEF Steps, MwSteps
<1>3. QED
  BY <1>1, <1>2 DEF Next

\* The first states are first states of OrderedList.
LEMMA InitRefines ==
  ASSUME Init, sync_method = "kSyncMwCAS"
  PROVE  List!Init
<1>1. MwInv
  BY InitInv
<1>2. PICK first \in FirstLists : /\ IsList(<<head_>> \o first \o <<tail_>>)
                                  /\ inserted = {first[i] : i \in DOMAIN first}
  BY InitInv
<1>3. NodesIn(next) = <<head_>> \o first \o <<tail_>>
  BY <1>1, <1>2, TheList DEF OneList
<1>4. inserted = List!ToSet(first)
  BY <1>2 DEF List!ToSet
<1>5. Changes = [t \in Threads |-> NoCall]
  BY DEF Init, Changes
<1>6. QED
  BY <1>3, <1>4, <1>5, Zenon DEF List!Init

\* MwCASDList implements OrderedList: an insertion or a deletion takes effect in the
\* step in which its MwCAS succeeds, next to the node it names, and no other step
\* changes the list.
THEOREM MwImplementsList ==
  ASSUME TwoThreads
  PROVE  Spec /\ sync_method = "kSyncMwCAS" => ImplementsList
<1>1. Init /\ sync_method = "kSyncMwCAS" => List!Init
  BY InitRefines
<1>2. MwInv /\ MwInv' /\ [Next]_vars => [List!Next]_(List!vars)
  BY StepsRefine
<1>3. QED
  BY <1>1, <1>2, MwListInvariant, PTL DEF Spec, ImplementsList, List!Spec
=============================================================================
