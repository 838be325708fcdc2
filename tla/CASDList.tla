------------------------------ MODULE CASDList ------------------------------
(***************************************************************************)
(* CASDList of src/double-linked-list, after Sundell and Tsigas: links     *)
(* change by single-word CAS, one at a time.  A node is deleted when its   *)
(* next link is marked, its prev link is marked after that, and nodes that *)
(* are found deleted are unlinked by whoever passes; a prev link is a hint *)
(* that CorrectPrev repairs.                                               *)
(*                                                                         *)
(* Without PMEM: no dirty bit.  A loop that reads a word and CASes it      *)
(* until that succeeds is one step.  The frames gn and cp hold the local   *)
(* variables of GetNext and CorrectPrev and where they return to; nobody   *)
(* uses what CorrectPrev returns.                                          *)
(***************************************************************************)
EXTENDS IDList

Cas(t, label) == sync_method = "kSyncCAS" /\ At(t, label)

CASNext(n, old, new) == next' = IF next[n] = old THEN Put(next, n, new) ELSE next

\* MarkNodePointer(&n->prev)
MarkPrev(n) == prev' = Put(prev, n, Marked(prev[n]))

EnterGetNext(t, n, ret) ==
  /\ gn' = Put(gn, t, [NoGetNext EXCEPT !.node = n, !.ret = ret])
  /\ GoTo(t, "gn_next")

EnterCorrectPrev(t, p, n, ret) ==
  /\ cp' = Put(cp, t, [NoCorrect EXCEPT !.prev = p, !.node = n, !.ret = ret])
  /\ GoTo(t, "cp_link")

-----------------------------------------------------------------------------
\* CorrectPrev(prev, node).
LeaveCorrectPrev(t) ==
  /\ cp' = Put(cp, t, NoCorrect)
  /\ GoTo(t, cp[t].ret)

CorrectReadLink(t) ==
  /\ Cas(t, "cp_link")
  /\ \/ /\ prev[cp[t].node].del
        /\ LeaveCorrectPrev(t)
     \/ /\ ~prev[cp[t].node].del
        /\ cp' = [cp EXCEPT ![t].link = prev[cp[t].node]]
        /\ GoTo(t, "cp_next")
  /\ UNCHANGED <<linkVars, call, cur, lp, ln, gn, historyVars>>

\* prev is deleted: unlink it from last_link or walk back. prev is not the
\* predecessor: walk on.
CorrectReadNext(t) ==
  LET p == cp[t].prev.to
      pn == next[p]
  IN  /\ Cas(t, "cp_next")
      /\ \/ /\ pn.del
            /\ GoTo(t, IF cp[t].last # Null THEN "cp_mark" ELSE "cp_back")
            /\ cp' = [cp EXCEPT ![t].pn = pn]
         \/ /\ ~pn.del /\ pn.to # cp[t].node
            /\ cp' = [cp EXCEPT ![t].last = p, ![t].prev = pn]
            /\ GoTo(t, "cp_link")
         \/ /\ ~pn.del /\ pn.to = cp[t].node
            /\ GoTo(t, "cp_set")
            /\ UNCHANGED cp
      /\ UNCHANGED <<linkVars, call, cur, lp, ln, gn, historyVars>>

CorrectMark(t) ==
  /\ Cas(t, "cp_mark")
  /\ MarkPrev(cp[t].prev.to)
  /\ GoTo(t, "cp_unlink")
  /\ UNCHANGED <<sync_method, next, call, localVars, historyVars>>

\* Mutant: the deleted node is unlinked by a plain store.
CorrectUnlinkStores(t) ==
  /\ Cas(t, "cp_unlink")
  /\ next' = Put(next, cp[t].last, To(cp[t].pn.to))
  /\ cp' = [cp EXCEPT ![t].prev = To(cp[t].last), ![t].last = Null, ![t].pn = NoLink]
  /\ GoTo(t, "cp_link")
  /\ UNCHANGED <<sync_method, prev, call, cur, lp, ln, gn, historyVars>>

CorrectUnlink(t) ==
  /\ Cas(t, "cp_unlink")
  /\ CASNext(cp[t].last, cp[t].prev, To(cp[t].pn.to))
  /\ cp' = [cp EXCEPT ![t].prev = To(cp[t].last), ![t].last = Null, ![t].pn = NoLink]
  /\ GoTo(t, "cp_link")
  /\ UNCHANGED <<sync_method, prev, call, cur, lp, ln, gn, historyVars>>

CorrectBack(t) ==
  /\ Cas(t, "cp_back")
  /\ cp' = [cp EXCEPT ![t].prev = prev[cp[t].prev.to], ![t].pn = NoLink]
  /\ GoTo(t, "cp_link")
  /\ UNCHANGED <<linkVars, call, cur, lp, ln, gn, historyVars>>

CorrectSet(t) ==
  LET n == cp[t].node
  IN  /\ Cas(t, "cp_set")
      /\ \/ /\ prev[n] = cp[t].link
            /\ prev' = Put(prev, n, To(cp[t].prev.to))
            /\ GoTo(t, "cp_recheck")
         \/ /\ prev[n] # cp[t].link
            /\ GoTo(t, "cp_link")
            /\ UNCHANGED prev
      /\ UNCHANGED <<sync_method, next, call, localVars, historyVars>>

CorrectRecheck(t) ==
  /\ Cas(t, "cp_recheck")
  /\ \/ /\ prev[cp[t].prev.to].del
        /\ GoTo(t, "cp_link")
        /\ UNCHANGED cp
     \/ /\ ~prev[cp[t].prev.to].del
        /\ LeaveCorrectPrev(t)
  /\ UNCHANGED <<linkVars, call, cur, lp, ln, gn, historyVars>>

-----------------------------------------------------------------------------
\* GetNext(node); its result goes to cur. After InsertBefore's use of it
\* comes CorrectPrev with the new next.
LeaveGetNext(t, n) ==
  /\ cur' = Put(cur, t, n)
  /\ gn' = Put(gn, t, NoGetNext)
  /\ IF gn[t].ret = "ib_prev" THEN EnterCorrectPrev(t, lp[t], n, "ib_prev")
                              ELSE GoTo(t, gn[t].ret) /\ UNCHANGED cp

GetNextRead(t) ==
  /\ Cas(t, "gn_next")
  /\ \/ /\ gn[t].node = tail_
        /\ cur' = Put(cur, t, Null)
        /\ GoTo(t, gn[t].ret)
        /\ UNCHANGED <<gn, cp>>
     \/ /\ gn[t].node # tail_
        /\ gn' = [gn EXCEPT ![t].next = next[gn[t].node].to]
        /\ GoTo(t, "gn_nn")
        /\ UNCHANGED <<cur, cp>>
  /\ UNCHANGED <<linkVars, call, lp, ln, historyVars>>

\* Mutant: the mark of the node behind is not looked at.
GetNextUnchecked(t) ==
  /\ Cas(t, "gn_nn")
  /\ LeaveGetNext(t, gn[t].next)
  /\ UNCHANGED <<linkVars, call, lp, ln, historyVars>>

GetNextCheck(t) ==
  LET nn == next[gn[t].next]
  IN  /\ Cas(t, "gn_nn")
      /\ \/ /\ nn.del
            /\ gn' = [gn EXCEPT ![t].nn = nn]
            /\ GoTo(t, "gn_again")
            /\ UNCHANGED <<cur, cp>>
         \/ /\ ~nn.del
            /\ LeaveGetNext(t, gn[t].next)
      /\ UNCHANGED <<linkVars, call, lp, ln, historyVars>>

\* A deleted node whose successor is deleted too is left behind; otherwise
\* the deleted successor is unlinked.
GetNextAgain(t) ==
  /\ Cas(t, "gn_again")
  /\ \/ /\ next[gn[t].node] = Marked(To(gn[t].next))
        /\ gn' = Put(gn, t, [NoGetNext EXCEPT !.node = gn[t].next, !.ret = gn[t].ret])
        /\ GoTo(t, "gn_next")
     \/ /\ next[gn[t].node] # Marked(To(gn[t].next))
        /\ GoTo(t, "gn_mark")
        /\ UNCHANGED gn
  /\ UNCHANGED <<linkVars, call, cur, lp, ln, cp, historyVars>>

GetNextMark(t) ==
  /\ Cas(t, "gn_mark")
  /\ MarkPrev(gn[t].next)
  /\ GoTo(t, "gn_unlink")
  /\ UNCHANGED <<sync_method, next, call, localVars, historyVars>>

GetNextUnlink(t) ==
  /\ Cas(t, "gn_unlink")
  /\ CASNext(gn[t].node, To(gn[t].next), To(gn[t].nn.to))
  /\ gn' = Put(gn, t, [NoGetNext EXCEPT !.node = gn[t].node, !.ret = gn[t].ret])
  /\ GoTo(t, "gn_next")
  /\ UNCHANGED <<sync_method, prev, call, cur, lp, ln, cp, historyVars>>

-----------------------------------------------------------------------------
\* GetPrev(node): cur is the node, lp the local prev, ln the local prev_next.
GetPrevRead(t) ==
  /\ Cas(t, "gp_prev")
  /\ \/ /\ cur[t] = head_
        /\ cur' = Put(cur, t, Null)
        /\ GoTo(t, "return")
        /\ UNCHANGED lp
     \/ /\ cur[t] # head_
        /\ lp' = Put(lp, t, To(prev[cur[t]].to))
        /\ GoTo(t, "gp_prevnext")
        /\ UNCHANGED cur
  /\ UNCHANGED <<linkVars, call, ln, gn, cp, historyVars>>

GetPrevReadNext(t) ==
  /\ Cas(t, "gp_prevnext")
  /\ ln' = Put(ln, t, next[lp[t].to])
  /\ GoTo(t, "gp_next")
  /\ UNCHANGED <<linkVars, call, cur, lp, gn, cp, historyVars>>

GetPrevCheck(t) ==
  /\ Cas(t, "gp_next")
  /\ \/ /\ ln[t] = To(cur[t]) /\ ~next[cur[t]].del
        /\ cur' = Put(cur, t, lp[t].to)
        /\ GoTo(t, "return")
        /\ UNCHANGED <<gn, cp>>
     \/ /\ next[cur[t]].del
        /\ EnterGetNext(t, cur[t], "gp_prev")
        /\ UNCHANGED <<cur, cp>>
     \/ /\ ln[t] # To(cur[t]) /\ ~next[cur[t]].del
        /\ EnterCorrectPrev(t, lp[t], cur[t], "gp_prev")
        /\ UNCHANGED <<cur, gn>>
  /\ UNCHANGED <<linkVars, call, lp, ln, historyVars>>

-----------------------------------------------------------------------------
\* InsertBefore: cur is the local next, lp the local prev.
InsertBeforeRead(t) ==
  /\ Cas(t, "ib_prev")
  /\ lp' = Put(lp, t, To(prev[cur[t]].to))
  /\ GoTo(t, "ib_next")
  /\ UNCHANGED <<linkVars, call, cur, ln, gn, cp, historyVars>>

\* Fast forward over a deleted next; otherwise give the node its links.
InsertBeforeCheck(t) ==
  LET n == call[t].node
  IN  /\ Cas(t, "ib_next")
      /\ \/ /\ next[cur[t]].del
            /\ EnterGetNext(t, cur[t], "ib_prev")
            /\ UNCHANGED <<next, prev>>
         \/ /\ ~next[cur[t]].del
            /\ prev' = Put(prev, n, lp[t])
            /\ next' = Put(next, n, To(cur[t]))
            /\ GoTo(t, "ib_cas")
            /\ UNCHANGED gn
      /\ UNCHANGED <<sync_method, call, cur, lp, ln, cp, historyVars>>

InsertBeforeCAS(t) ==
  LET n == call[t].node
      p == lp[t].to
  IN  /\ Cas(t, "ib_cas")
      /\ \/ /\ next[p] = To(cur[t])
            /\ next' = Put(next, p, To(n))
            /\ inserted' = inserted \cup {n}
            /\ EnterCorrectPrev(t, lp[t], cur[t], "return")
         \/ /\ next[p] # To(cur[t])
            /\ EnterCorrectPrev(t, lp[t], cur[t], "ib_prev")
            /\ UNCHANGED <<next, inserted>>
      /\ UNCHANGED <<sync_method, prev, call, cur, lp, ln, gn, gone, left>>

-----------------------------------------------------------------------------
\* InsertAfter: cur is the local prev, ln the local prev_next.
InsertAfterRead(t) ==
  LET n == call[t].node
  IN  /\ Cas(t, "ia_next")
      /\ ln' = Put(ln, t, next[cur[t]])
      /\ prev' = Put(prev, n, To(cur[t]))
      /\ next' = Put(next, n, To(next[cur[t]].to))
      /\ GoTo(t, "ia_cas")
      /\ UNCHANGED <<sync_method, call, cur, lp, gn, cp, historyVars>>

\* When prev is deleted: Delete(node), then InsertBefore(prev, node).
InsertAfterCAS(t) ==
  LET n == call[t].node
      expected == To(ln[t].to)
  IN  /\ Cas(t, "ia_cas")
      /\ \/ /\ next[cur[t]] = expected
            /\ next' = Put(next, cur[t], To(n))
            /\ inserted' = inserted \cup {n}
            /\ EnterCorrectPrev(t, To(cur[t]), ln[t].to, "return")
         \/ /\ next[cur[t]] # expected
            /\ GoTo(t, IF ln[t].del THEN "d_next" ELSE "ia_next")
            /\ UNCHANGED <<next, inserted, cp>>
      /\ UNCHANGED <<sync_method, prev, call, cur, lp, ln, gn, gone, left>>

-----------------------------------------------------------------------------
\* Delete(node): the node named by the call, or the new node of an InsertAfter
\* that goes on with InsertBefore.
Victim(t) == IF call[t].op = "Delete" THEN call[t].ref ELSE call[t].node
AfterDelete(t) == IF call[t].op = "Delete" THEN "return" ELSE "ib_prev"

DeleteMarkNext(t) ==
  LET n == Victim(t)
  IN  /\ Cas(t, "d_next")
      /\ \/ /\ n \in {head_, tail_} \/ next[n].del
            /\ GoTo(t, AfterDelete(t))
            /\ UNCHANGED <<next, ln>>
         \/ /\ n \notin {head_, tail_} /\ ~next[n].del
            /\ ln' = Put(ln, t, next[n])
            /\ next' = Put(next, n, Marked(next[n]))
            /\ GoTo(t, "d_prev")
      /\ UNCHANGED <<sync_method, prev, call, cur, lp, gn, cp, historyVars>>

DeleteMarkPrev(t) ==
  /\ Cas(t, "d_prev")
  /\ MarkPrev(Victim(t))
  /\ EnterCorrectPrev(t, To(prev[Victim(t)].to), ln[t].to, AfterDelete(t))
  /\ UNCHANGED <<sync_method, next, call, cur, lp, ln, gn, historyVars>>

CasSteps(t) ==
  \/ CorrectReadLink(t) \/ CorrectReadNext(t) \/ CorrectMark(t) \/ CorrectUnlink(t)
  \/ CorrectBack(t) \/ CorrectSet(t) \/ CorrectRecheck(t)
  \/ GetNextRead(t) \/ GetNextCheck(t) \/ GetNextAgain(t) \/ GetNextMark(t) \/ GetNextUnlink(t)
  \/ GetPrevRead(t) \/ GetPrevReadNext(t) \/ GetPrevCheck(t)
  \/ InsertBeforeRead(t) \/ InsertBeforeCheck(t) \/ InsertBeforeCAS(t)
  \/ InsertAfterRead(t) \/ InsertAfterCAS(t)
  \/ DeleteMarkNext(t) \/ DeleteMarkPrev(t)
=============================================================================
