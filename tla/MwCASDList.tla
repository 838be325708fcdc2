----------------------------- MODULE MwCASDList -----------------------------
(***************************************************************************)
(* MwCASDList of src/double-linked-list: links change by multi-word CAS    *)
(* only, so that both directions change together.  MwCAS is one step       *)
(* (AtomicMwCAS) and ResolveNodePointer returns the value of the word;     *)
(* only the next link of a deleted node is marked.                         *)
(*                                                                         *)
(* A link may get a value back that it had before: an insertion after p    *)
(* and the deletion of the new node leave p's next as it was.  For values  *)
(* that recur MwCAS is one step with two threads only; with a third, two   *)
(* late helpers may apply an operation once more (MCMwCASRecurring).       *)
(***************************************************************************)
EXTENDS IDList

\* There are at most two threads.
TwoThreads == \A s, t, u \in Threads : s = t \/ t = u \/ s = u

Mw(t, label) == sync_method = "kSyncMwCAS" /\ At(t, label)

\* Descriptor::MwCAS on links: each of nexts and prevs is a set of
\* <<node, old, new>>.
Current(f, entries) == \A e \in entries : f[e[1]] = e[2]
Changed(f, entries) ==
  [n \in AllNodes |-> IF \E e \in entries : e[1] = n
                      THEN (CHOOSE e \in entries : e[1] = n)[3] ELSE f[n]]

MwCAS(nexts, prevs) ==
  /\ Current(next, nexts) /\ Current(prev, prevs)
  /\ next' = Changed(next, nexts)
  /\ prev' = Changed(prev, prevs)

MwCASFails(nexts, prevs) ==
  /\ ~(Current(next, nexts) /\ Current(prev, prevs))
  /\ UNCHANGED <<next, prev>>

\* GetNext and GetPrev are one read; the mark is masked out.
MwGetNext(t) ==
  /\ Mw(t, "gn_next")
  /\ cur' = Put(cur, t, next[cur[t]].to)
  /\ GoTo(t, "return")
  /\ UNCHANGED <<linkVars, call, lp, ln, gn, cp, historyVars>>

MwGetPrev(t) ==
  /\ Mw(t, "gp_prev")
  /\ cur' = Put(cur, t, prev[cur[t]].to)
  /\ GoTo(t, "return")
  /\ UNCHANGED <<linkVars, call, lp, ln, gn, cp, historyVars>>

-----------------------------------------------------------------------------
\* InsertBefore: cur is the local next, lp the local prev.
MwReadPrev(t) ==
  /\ Mw(t, "ib_prev")
  /\ lp' = Put(lp, t, prev[cur[t]])
  /\ GoTo(t, "ib_next")
  /\ UNCHANGED <<linkVars, call, cur, ln, gn, cp, historyVars>>

MwCheckNext(t) ==
  /\ Mw(t, "ib_next")
  /\ GoTo(t, IF lp[t].del \/ next[cur[t]].del THEN "ib_skip" ELSE "ib_link")
  /\ UNCHANGED <<linkVars, call, localVars, historyVars>>

\* Mutant: a deleted next is tried again.
MwSkipNothing(t) ==
  /\ Mw(t, "ib_skip")
  /\ GoTo(t, "ib_prev")
  /\ UNCHANGED <<linkVars, call, localVars, historyVars>>

MwSkipNext(t) ==
  /\ Mw(t, "ib_skip")
  /\ cur' = Put(cur, t, next[cur[t]].to)
  /\ GoTo(t, "ib_prev")
  /\ UNCHANGED <<linkVars, call, lp, ln, gn, cp, historyVars>>

\* Mutant: only the next link is set.
SetNextOnly(n, p, x) ==
  /\ next' = Put(next, n, To(x))
  /\ UNCHANGED <<sync_method, prev>>

\* The node to be inserted gets its links.
SetLinks(n, p, x) ==
  /\ prev' = Put(prev, n, To(p))
  /\ next' = Put(next, n, To(x))
  /\ UNCHANGED sync_method

MwLinkBefore(t) ==
  /\ Mw(t, "ib_link")
  /\ \/ /\ next[lp[t].to].del
        /\ GoTo(t, "ib_prev")
        /\ UNCHANGED linkVars
     \/ /\ ~next[lp[t].to].del
        /\ SetLinks(call[t].node, lp[t].to, cur[t])
        /\ GoTo(t, "ib_mwcas")
  /\ UNCHANGED <<call, localVars, historyVars>>

\* Mutant: the insertion is a CAS of one word.
InsertNoPrevs(p, n, x) == {}

\* The entries of an insertion of n between p and x.
InsertNexts(p, n, x) == {<<p, To(x), To(n)>>}
InsertPrevs(p, n, x) == {<<x, To(p), To(n)>>}

MwInsert(t, p, x, retry) ==
  LET n == call[t].node
  IN  /\ \/ /\ MwCAS(InsertNexts(p, n, x), InsertPrevs(p, n, x))
            /\ inserted' = inserted \cup {n}
            /\ GoTo(t, "return")
         \/ /\ MwCASFails(InsertNexts(p, n, x), InsertPrevs(p, n, x))
            /\ GoTo(t, retry)
            /\ UNCHANGED inserted
      /\ UNCHANGED <<sync_method, call, localVars, gone, left>>

MwInsertBefore(t) == Mw(t, "ib_mwcas") /\ MwInsert(t, lp[t].to, cur[t], "ib_prev")

-----------------------------------------------------------------------------
\* InsertAfter: cur is the local prev, ln the local next.
MwReadNext(t) ==
  /\ Mw(t, "ia_next")
  /\ ln' = Put(ln, t, next[cur[t]])
  /\ GoTo(t, IF next[cur[t]].del THEN "ia_skip" ELSE "ia_link")
  /\ UNCHANGED <<linkVars, call, cur, lp, gn, cp, historyVars>>

MwSkipPrev(t) ==
  /\ Mw(t, "ia_skip")
  /\ cur' = Put(cur, t, prev[cur[t]].to)
  /\ GoTo(t, "ia_next")
  /\ UNCHANGED <<linkVars, call, lp, ln, gn, cp, historyVars>>

MwLinkAfter(t) ==
  /\ Mw(t, "ia_link")
  /\ \/ /\ next[ln[t].to].del
        /\ GoTo(t, "ia_next")
        /\ UNCHANGED linkVars
     \/ /\ ~next[ln[t].to].del
        /\ SetLinks(call[t].node, cur[t], ln[t].to)
        /\ GoTo(t, "ia_mwcas")
  /\ UNCHANGED <<call, localVars, historyVars>>

MwInsertAfter(t) == Mw(t, "ia_mwcas") /\ MwInsert(t, cur[t], ln[t].to, "ia_next")

-----------------------------------------------------------------------------
\* Delete: cur is the node, lp and ln the local prev and next.
MwDeleteCheck(t) ==
  /\ Mw(t, "d_next")
  /\ GoTo(t, IF next[cur[t]].del \/ cur[t] \in {head_, tail_} THEN "return" ELSE "d_prev")
  /\ UNCHANGED <<linkVars, call, localVars, historyVars>>

MwDeleteReadPrev(t) ==
  /\ Mw(t, "d_prev")
  /\ lp' = Put(lp, t, prev[cur[t]])
  /\ GoTo(t, "d_readnext")
  /\ UNCHANGED <<linkVars, call, cur, ln, gn, cp, historyVars>>

MwDeleteReadNext(t) ==
  /\ Mw(t, "d_readnext")
  /\ ln' = Put(ln, t, next[cur[t]])
  /\ GoTo(t, "d_checkprev")
  /\ UNCHANGED <<linkVars, call, cur, lp, gn, cp, historyVars>>

\* Mutant: next->prev is read first.
MwDeleteCheckNextOnly(t) ==
  /\ Mw(t, "d_checkprev")
  /\ GoTo(t, "d_checknext")
  /\ UNCHANGED <<linkVars, call, localVars, historyVars>>

\* prev->next != node || next->prev != node
MwDeleteCheckPrev(t) ==
  /\ Mw(t, "d_checkprev")
  /\ GoTo(t, IF next[lp[t].to] # To(cur[t]) THEN "d_next" ELSE "d_checknext")
  /\ UNCHANGED <<linkVars, call, localVars, historyVars>>

MwDeleteCheckNext(t) ==
  /\ Mw(t, "d_checknext")
  /\ GoTo(t, IF prev[ln[t].to] # To(cur[t]) THEN "d_next" ELSE "d_mwcas")
  /\ UNCHANGED <<linkVars, call, localVars, historyVars>>

DeleteNexts(p, n, x) == {<<p, To(n), x>>, <<n, x, Marked(x)>>}
DeletePrevs(p, n, x) == {<<x.to, To(n), p>>}

MwDelete(t) ==
  LET nexts == DeleteNexts(lp[t].to, cur[t], ln[t])
      prevs == DeletePrevs(lp[t], cur[t], ln[t])
  IN  /\ Mw(t, "d_mwcas")
      /\ \/ MwCAS(nexts, prevs) /\ GoTo(t, "return")
         \/ MwCASFails(nexts, prevs) /\ GoTo(t, "d_next")
      /\ UNCHANGED <<sync_method, call, localVars, historyVars>>

MwSteps(t) ==
  \/ MwGetNext(t) \/ MwGetPrev(t)
  \/ MwReadPrev(t) \/ MwCheckNext(t) \/ MwSkipNext(t) \/ MwLinkBefore(t) \/ MwInsertBefore(t)
  \/ MwReadNext(t) \/ MwSkipPrev(t) \/ MwLinkAfter(t) \/ MwInsertAfter(t)
  \/ MwDeleteCheck(t) \/ MwDeleteReadPrev(t) \/ MwDeleteReadNext(t)
  \/ MwDeleteCheckPrev(t) \/ MwDeleteCheckNext(t) \/ MwDelete(t)
=============================================================================
