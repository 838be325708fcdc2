------------------------------- MODULE DList --------------------------------
(***************************************************************************)
(* The doubly linked list with either synchronisation method, and what     *)
(* both have to guarantee.                                                 *)
(***************************************************************************)
EXTENDS MwCASDList, CASDList

Steps(t) == Calls(t) \/ MwSteps(t) \/ CasSteps(t)

Next == \E t \in Threads : Steps(t)

Spec == Init /\ [][Next]_vars

\* A thread that is in a call goes on; nobody has to make calls.
FairSpec == Spec /\ \A t \in Threads : WF_vars(MwSteps(t) \/ CasSteps(t) \/ Return(t))

TypeOK ==
  /\ sync_method \in Methods
  /\ next \in [AllNodes -> Link]
  /\ prev \in [AllNodes -> Link]
  /\ cur \in [Threads -> AllNodes \cup {Null}]
  /\ lp \in [Threads -> Link]
  /\ ln \in [Threads -> Link]
  /\ inserted \subseteq Nodes
  /\ \A t \in Threads : left[t] \in 0 .. MaxCalls[t]

-----------------------------------------------------------------------------
\* The nodes met on the way from n along the links f, marked ones too.
Walk(f, n) ==
  LET steps == Cardinality(AllNodes)
      w[i \in 0 .. steps] == IF i = 0 THEN n ELSE IF w[i - 1] = Null THEN Null ELSE f[w[i - 1]].to
      met == {i \in 0 .. steps : w[i] # Null}
  IN  [i \in 1 .. Cardinality(met) |-> w[i - 1]]

Meets(f, n, m) == LET w == Walk(f, n) IN \E i \in DOMAIN w : w[i] = m

\* From every node that has ever been in the list a traversal ends at the tail
\* in one direction and at the head in the other, whatever is being inserted,
\* deleted and repaired meanwhile: an operation that was given a deleted node
\* (GetNext in InsertBefore, GetPrev in InsertAfter, CorrectPrev) finds its way
\* back into the list.
TraversalsEnd ==
  \A n \in inserted \cup {head_, tail_} : Meets(next, n, tail_) /\ Meets(prev, n, head_)

\* The two directions agree: at any time in the list with multi-word CAS, and
\* when nobody is in a call in the list with single-word CAS, where deleted
\* nodes then are unlinked, too (SingleThreadSanityCheck).
Quiet == \A t \in Threads : pc[t] \in {"idle", "return"}
LinksAgree ==
  (sync_method = "kSyncMwCAS" \/ Quiet) =>
    \A n \in inserted \cup {head_} : ~next[n].del =>
      /\ prev[next[n].to] = To(n)
      /\ ~next[next[n].to].del

\* The RAW_CHECKs of the two lists, and no marked or null pointer is followed
\* where the code masks nothing: Delete of MwCASDList reads next->prev of a next
\* that was marked if another Delete of the node came first, unless prev->next
\* has told it so.
ChecksHold ==
  /\ ~next[head_].del
  /\ \A t \in Threads :
       /\ At(t, "d_checknext") => ~ln[t].del
       /\ At(t, "cp_next") => cp[t].prev.to # Null
       /\ At(t, "cp_unlink") => ~cp[t].prev.del
       /\ At(t, "ib_prev") \/ At(t, "ia_next") => cur[t] # Null
       /\ At(t, "gn_nn") => gn[t].next # Null
       /\ At(t, "gp_prevnext") => lp[t].to # Null

\* GetNext and GetPrev do not lead a cursor to a node that had been deleted
\* before they were called (the multi-word list may, from a deleted node).
CursorSkipsDeleted ==
  \A t \in Threads :
    /\ At(t, "return")
    /\ call[t].op \in {"GetNext", "GetPrev"}
    /\ sync_method = "kSyncCAS" \/ ~Deleted(call[t].ref)
    => cur[t] \notin gone[t]

\* The nodes met on the way from the head along the links f that are not marked.
NodesIn(f) ==
  LET w == Walk(f, head_)
      upTo[i \in 0 .. Len(w)] == IF i = 0 THEN <<>>
                                ELSE IF f[w[i]].del THEN upTo[i - 1] ELSE Append(upTo[i - 1], w[i])
  IN  upTo[Len(w)]

\* The calls that OrderedList knows.
Changes == [t \in Threads |-> IF call[t] # NoCall /\ call[t].op \in {"GetNext", "GetPrev"}
                              THEN NoCall ELSE call[t]]

List == INSTANCE OrderedList WITH list <- NodesIn(next), call <- Changes

\* Insertions and deletions take effect in one step, next to the node they
\* name, and nothing else that happens to the links adds, drops or reorders a
\* node: the list is an OrderedList.
ImplementsList == List!Spec

\* Every call returns, whatever retries and repairs the others cause.
CallsReturn == \A t \in Threads : call[t] # NoCall ~> call[t] = NoCall
=============================================================================
