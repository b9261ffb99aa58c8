----------------------------- MODULE CCTSignals -----------------------------
(***************************************************************************)
(* CCT beside the program it observes: every block, delivery and return is *)
(* one step of the tree and one step of the program's call stack.  The     *)
(* question is what the single save slot of drcctlib_event_kernel_xfer,    *)
(* which keeps cur_bb_node but not pre_instr_state, is worth.              *)
(***************************************************************************)
EXTENDS CCTQueries

CONSTANTS
  DepthMax,       \* bound: calls the program is inside of
  RestorerEnds    \* how the last instrumented block before sigreturn may end:
                  \* "other" when the restorer is instrumented, "ret" when the
                  \* client's filter leaves no slot in it

VARIABLES
  ctx,     \* the program's call stack ...
  saved,   \* ... and those its pending signals interrupted
  plain    \* thread t met none of the cases the save slot does not cover

Program == INSTANCE CallStack

jointvars == <<vars, ctx, saved, plain>>

JointInit == Init /\ Program!Init /\ plain = [t \in Threads |-> TRUE]

\* The cases the slot covers: no signal inside a handler, none before the first
\* block, a block that ends in neither a call nor a return (a system call, for
\* raise), and a restorer that is itself instrumented, so that the last block
\* before sigreturn does not end in the handler's return.
Deliver(t) ==
  /\ SignalDeliver(t)
  /\ Program!Deliver(t)
  /\ plain' = [plain EXCEPT ![t] =
       @ /\ sig_depth[t] = 0 /\ pre_state[t] = "other"]

Return(t) ==
  /\ pre_state[t] \in RestorerEnds
  /\ SignalReturn(t)
  /\ Program!Return(t)
  /\ plain' = [plain EXCEPT ![t] = @ /\ pre_state[t] = "other"]

Enter(t) ==
  /\ ctx[t] # NULL /\ Len(ctx[t].calls) <= DepthMax
  /\ \/ \E b \in Blocks : EnterKnown(t, b) /\ Program!Enter(t, b)
     \/ Publish(t) /\ Program!Enter(t, node[building[t]].key)
  /\ UNCHANGED plain

Silent(t) ==
  /\ \/ ThreadStart(t)
     \/ CreateRoot(t)
     \/ FillSlot(t)
     \/ \E b \in Blocks : EnterNew(t, b)
     \/ EnterNull(t)
     \/ ThreadEnd(t)
  /\ UNCHANGED <<ctx, saved, plain>>

Begin(t) == PublishRoot(t) /\ Program!Start(t) /\ UNCHANGED plain

JointNext ==
  \E t \in Threads : Begin(t) \/ Enter(t) \/ Deliver(t) \/ Return(t) \/ Silent(t)

JointSpec == JointInit /\ [][JointNext]_jointvars

InCalls(t) ==
  pc[t] = "run" /\ ctx[t].last # NULL =>
    /\ node[cur_bb[t]].key = ctx[t].last
    /\ CallsOf[cur_bb[t]] = ctx[t].calls

\* A thread whose signals arrive one at a time, in blocks that end in neither a
\* call nor a return, and return through an instrumented restorer is always
\* attributed to the calls it is in, inside the handler and after it, and never
\* follows the null parent of its root.
PlainSignalsKeepPath ==
  \A t \in Threads : plain[t] => InCalls(t) /\ pc[t] # "crash"

\* What README.md:77 says of the clean-call tool, that it collects the call path on
\* each instruction, for the blocks a thread runs when no signal is pending.
PathIsCallStack == \A t \in Threads : sig_depth[t] = 0 => InCalls(t)

----------------------------------------------------------------------------
(* The inductive invariant of CCTPath_proofs. *)

\* Where a thread stands: in the block of the program's stack, before the first
\* block, or where a plain signal's handler starts or has returned to.
OnPath(t) ==
  \/ /\ ctx[t].last # NULL
     /\ cur_bb[t] # root_bb[t]
     /\ node[cur_bb[t]].key = ctx[t].last
     /\ CallsOf[cur_bb[t]] = ctx[t].calls
     /\ pre_state[t] = EndState[ctx[t].last]
  \/ /\ ctx[t].last = NULL
     /\ pre_state[t] = "root" /\ cur_bb[t] = root_bb[t] /\ ctx[t].calls = <<>>
  \/ /\ ctx[t].last = NULL
     /\ pre_state[t] = "other" /\ cur_bb[t] # root_bb[t]
     /\ CallsOf[cur_bb[t]] = ctx[t].calls

\* While all its signals were plain, a thread handles one at most, and the slot holds
\* the node of the calls the program saved.
SignalInv ==
  /\ plain \in [Threads -> BOOLEAN] /\ DOMAIN ctx = Threads /\ DOMAIN saved = Threads
  /\ \A t \in Threads : plain[t] =>
       /\ pc[t] # "crash"
       /\ root_bb[t] # NULL => OnPath(t)
       /\ sig_depth[t] = 0 => saved[t] = <<>>
       /\ sig_depth[t] # 0 =>
            /\ sig_depth[t] = 1 /\ sig_bb[t] # root_bb[t]
            /\ saved[t] = << [calls |-> CallsOf[sig_bb[t]], last |-> NULL] >>
=============================================================================
