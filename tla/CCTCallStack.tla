---------------------------- MODULE CCTCallStack ----------------------------
(***************************************************************************)
(* The call stack a thread's tree stands for: the calls on the path to its *)
(* current node and the block there.  Module CallStack is what the tree of *)
(* a program without signals promises.                                     *)
(***************************************************************************)
EXTENDS CCTQueries

ContextOf(t) ==
  IF root_bb[t] = NULL THEN NULL
  ELSE IF cur_bb[t] = root_bb[t] THEN [calls |-> <<>>, last |-> NULL]
  ELSE [calls |-> CallsOf[cur_bb[t]], last |-> node[cur_bb[t]].key]

Stack == INSTANCE CallStack WITH
  ctx <- [t \in Threads |-> ContextOf(t)],
  saved <- [t \in Threads |-> <<>>]

\* Without signals the tree tracks the program's call stack exactly: every block
\* a thread enters, known or new, moves cur_bb_node to the node whose path is the
\* stack of calls the thread is inside of.
TracksCallStack == Stack!Spec

\* The null pointer is no context of a thread.
ASSUME ContextAssumption == NULL \notin Stack!Contexts

\* A thread with a root has a current node, and the node it is creating hangs under
\* the one NewCaller found when it entered the block.
BuildInv ==
  \A t \in Threads : root_bb[t] # NULL =>
    /\ cur_bb[t] # NULL
    /\ building[t] # NULL => /\ NewCaller(t) # NULL
                             /\ node[building[t]].parent_bb = NewCaller(t)

\* Without signals the state of a thread is that of the last block it entered.
PlaceInv ==
  \A t \in Threads :
    root_bb[t] # NULL /\ cur_bb[t] # root_bb[t]
      => pre_state[t] = EndState[node[cur_bb[t]].key]
=============================================================================
