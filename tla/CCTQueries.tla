----------------------------- MODULE CCTQueries -----------------------------
(***************************************************************************)
(* The queries of clients about a handle: its pc, its callers, the pcs of  *)
(* its path, and the comparison of two handles.  They read the arrays all  *)
(* threads write; none changes state.  What they should say is told by the *)
(* calls on the path of parents from a node to its root.                   *)
(***************************************************************************)
EXTENDS CCT, Sequences, SequencesExt

CONSTANT SlotPc    \* per block, ip_shadow: the pcs of its slots

ContextHandles == 0 .. HandleMax - 1

\* drcctlib_get_ctxt_hndl_pc
Pc(h) ==
  IF h = RootCaller THEN 0
  ELSE LET n == ip_node[h] IN
       IF node[n].key = RootKey THEN 0
       ELSE SlotPc[node[n].key][h - node[n].start + 1]

\* drcctlib_get_cct without a limit of its depth: the handle and its callers.
Cct[h \in ContextHandles] ==
  IF h = RootCaller THEN <<h>> ELSE <<h>> \o Cct[CallerHandle(h)]

\* drcctlib_priv_share_get_full_calling_ip_vector
IpVector[h \in ContextHandles] ==
  IF node[ip_node[h]].key = RootKey THEN <<>>
  ELSE <<Pc(h)>> \o IpVector[CallerHandle(h)]

\* drcctlib_have_same_call_path
SameCallPath[p \in ContextHandles \X ContextHandles] ==
  \/ p[1] = p[2]
  \/ /\ RootCaller \notin {p[1], p[2]}
     /\ SameCallPath[<<CallerHandle(p[1]), CallerHandle(p[2])>>]
     /\ Pc(p[1]) = Pc(p[2])

\* drcctlib_have_same_caller_prefix
SameCallerPrefix(g, h) ==
  \/ g = h
  \/ RootCaller \notin {g, h} /\ CallerHandle(g) = CallerHandle(h)

----------------------------------------------------------------------------
\* The call blocks on the path from a node's root, outermost first.
CallsOf[n \in DOMAIN node] ==
  LET p == node[n].parent_bb IN
  IF p = NULL THEN <<>>
  ELSE IF node[p].key = RootKey THEN <<>>
  ELSE Append(CallsOf[p], node[p].key)

\* The pcs of the i-th instruction of node n and of the calls it is inside of.
PathPcs(n, i) ==
  LET calls == CallsOf[n] IN
  <<SlotPc[node[n].key][i]>> \o Reverse([k \in DOMAIN calls |-> Last(SlotPc[calls[k]])])

\* Ask about the handle that the load inserted by drcctlib_get_context_handle_in_reg
\* finds at any instruction of a thread's current block.  The walk over caller
\* handles and the vector of pcs give the instruction and its calls, innermost
\* first.  Compared with any handle a client may have kept, of this or of another
\* thread, the call paths are the same exactly if the pcs on them are, and the
\* caller prefix is exactly if both were reached from the same calls of one thread.
QueriesAgree ==
  \A t \in Threads : pc[t] = "run" /\ cur_bb[t] # root_bb[t] =>
    \A i \in 1 .. node[cur_bb[t]].max_slots :
      LET h    == ctxt_idx[t] + i - 1
          path == PathPcs(cur_bb[t], i)
          cct  == Cct[h]
      IN
      /\ IpVector[h] = path
      /\ [k \in DOMAIN cct |-> Pc(cct[k])] = path \o <<0, 0>>
      /\ \A n \in DOMAIN node : Published(n) /\ node[n].key # RootKey =>
           \A k \in 1 .. node[n].max_slots :
             LET g == node[n].start + k - 1 IN
             /\ SameCallPath[<<g, h>>] <=> PathPcs(n, k) = path
             /\ SameCallerPrefix(g, h) <=> n[1] = t /\ CallsOf[n] = CallsOf[cur_bb[t]]
=============================================================================
