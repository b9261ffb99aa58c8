----------------------------- MODULE CallStack -----------------------------
(***************************************************************************)
(* What the calling context tree of a thread promises, told without trees: *)
(* after every block the profiler knows the calls the thread is inside of. *)
(* A call block pushes itself, a block ending in a return pops, a return   *)
(* out of the outermost frame the profiler saw leaves no frame, and a      *)
(* signal handler runs on top of the calls the interrupted point is inside *)
(* of and returns to them.                                                 *)
(***************************************************************************)
EXTENDS Integers, Sequences, SequencesExt

CONSTANTS Threads, Blocks, EndState, NULL

VARIABLES
  ctx,    \* NULL, or the calls thread t is inside of and its last block
  saved   \* where the pending signals of thread t interrupted it

vars == <<ctx, saved>>

\* last is NULL when the next block starts where calls says: at the start, at a
\* handler's entry, and when the handler has returned.
Contexts == [calls : Seq(Blocks), last : Blocks \cup {NULL}]

Init ==
  /\ ctx = [t \in Threads |-> NULL]
  /\ saved = [t \in Threads |-> <<>>]

Start(t) ==
  /\ ctx[t] = NULL
  /\ ctx' = [ctx EXCEPT ![t] = [calls |-> <<>>, last |-> NULL]]
  /\ UNCHANGED saved

\* The calls the block entered after the last one is inside of.
CallsNow(c) ==
  CASE c.last = NULL -> c.calls
    [] c.last # NULL /\ EndState[c.last] = "call" -> Append(c.calls, c.last)
    [] c.last # NULL /\ EndState[c.last] = "ret" ->
         IF c.calls = <<>> THEN <<>> ELSE Front(c.calls)
    [] c.last # NULL /\ EndState[c.last] = "other" -> c.calls

Enter(t, b) ==
  /\ ctx[t] # NULL
  /\ ctx' = [ctx EXCEPT ![t] = [calls |-> CallsNow(@), last |-> b]]
  /\ UNCHANGED saved

\* A signal finds the thread inside its last block, before the call or return
\* that ends it, or between that block and the next.
Deliver(t) ==
  /\ ctx[t] # NULL
  /\ \E calls \in {ctx[t].calls, CallsNow(ctx[t])} :
       LET point == [calls |-> calls, last |-> NULL] IN
       /\ ctx' = [ctx EXCEPT ![t] = point]
       /\ saved' = [saved EXCEPT ![t] = Append(@, point)]

Return(t) ==
  /\ saved[t] # <<>>
  /\ ctx' = [ctx EXCEPT ![t] = Last(saved[t])]
  /\ saved' = [saved EXCEPT ![t] = Front(@)]

Next ==
  \E t \in Threads :
    \/ Start(t)
    \/ \E b \in Blocks : Enter(t, b)
    \/ Deliver(t)
    \/ Return(t)

Spec == Init /\ [][Next]_vars
=============================================================================
