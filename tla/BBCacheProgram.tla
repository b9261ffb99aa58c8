--------------------------- MODULE BBCacheProgram ---------------------------
(***************************************************************************)
(* BBCache beside the program it observes: the program's call stack, and   *)
(* the blocks it has run whose callback has not come yet.                  *)
(***************************************************************************)
EXTENDS BBCache

CONSTANTS
  DepthMax,  \* bound: calls the program is inside of
  NodeMax    \* bound: length of the node a refresh starts from

VARIABLES
  ctx,       \* the program's call stack (CallStack, of one thread) ...
  saved,     \* ... and those its pending signals interrupted
  due,       \* blocks begun that were not passed to the client, oldest first
  expect,    \* those the last step had to pass: the oldest, as many as it passed
  whole,     \* the reference cache started out empty, no fault cut a block short
  returned,  \* a signal handler has returned
  plain      \* no signal met a case the save slot does not cover (CCTSignals)

T == "thread"
Program == INSTANCE CallStack WITH Threads <- {T}

ghosts == <<ctx, saved, due, expect, whole, returned, plain>>
jointvars == <<vars, ghosts>>

Run(n, b, refs) == [node |-> n, key |-> b, refs |-> refs]

JointInit ==
  /\ Init
  /\ ctx = [t \in {T} |-> [calls |-> <<>>, last |-> NULL]]
  /\ saved = [t \in {T} |-> <<>>]
  /\ due = <<Run(<<>>, Root, <<>>)>>
  /\ expect = <<>>
  /\ whole = (MemAddr => mem_cache[0] = NULL)
  /\ returned = FALSE
  /\ plain = TRUE

\* This step's callbacks are for the oldest of the blocks due.
Report(all) ==
  /\ expect' = SubSeq(all, 1, Len(out'))
  /\ due' = SubSeq(all, Len(out') + 1, Len(all))

DueWith(b) == Append(due, Run(Append(Program!CallsNow(ctx[T]), b), b, <<>>))

DueRef(r) == [due EXCEPT ![Len(due)].refs = Append(@, r)]

ProgramEnter(b) ==
  /\ Len(Program!CallsNow(ctx[T])) <= DepthMax
  /\ Len(cur_bb) <= NodeMax
  /\ Enter(b)
  /\ Program!Enter(T, b)
  /\ Report(DueWith(b))
  /\ UNCHANGED <<whole, returned, plain>>

ProgramRef ==
  LET b == ctx[T].last IN
  /\ MakeRef(b)
  /\ Report(DueRef(<<b, RefNum[b] - todo + 1>>))
  /\ UNCHANGED <<ctx, saved, whole, returned, plain>>

\* A fault leaves the calls its block is inside of; between two blocks the last
\* call or return has happened.
ProgramDeliver ==
  /\ SignalDeliver
  /\ Program!Deliver(T)
  /\ ctx'[T].calls = IF todo > 0 THEN ctx[T].calls ELSE Program!CallsNow(ctx[T])
  /\ Report(due)
  /\ whole' = (whole /\ todo = 0)
  /\ plain' = (plain /\ sig_depth = 0 /\ pre_bb' # Root
                 /\ EndState[pre_bb'] = "other")
  /\ UNCHANGED returned

\* The restorer's block ends in a system call; when the client's filter leaves no
\* slot in it, the last block is the handler's return.
ProgramReturn ==
  /\ ctx[T].last # NULL
  /\ EndState[ctx[T].last] \in {"ret", "other"}
  /\ SignalReturn
  /\ Program!Return(T)
  /\ Report(due)
  /\ returned' = TRUE
  /\ plain' = (plain /\ EndState[ctx[T].last] = "other")
  /\ UNCHANGED whole

Quiet ==
  /\ BuildBlock \/ ThreadEnd
  /\ Report(due)
  /\ UNCHANGED <<ctx, saved, whole, returned, plain>>

JointNext ==
  \/ \E b \in Blocks : ProgramEnter(b)
  \/ ProgramRef
  \/ ProgramDeliver
  \/ ProgramReturn
  \/ Quiet

JointSpec == JointInit /\ [][JointNext]_jointvars

----------------------------------------------------------------------------
(* Properties. *)

\* The references passed for a block are its own, in order; an address may be lost
\* when a refresh moves them, but it is never replaced by another block's.
RefsMatch(got, own) ==
  /\ Len(got) = Len(own)
  /\ \A i \in 1 .. Len(own) : got[i] \in {own[i], NULL}

\* Every block is passed to the client exactly once, in program order and with its
\* own references, however full the two caches were and whoever drained them; and,
\* until a signal handler returns, with the node of its call path.  The last block of
\* the thread is passed without references.
CallbacksInOrder ==
  whole =>
    /\ Len(out) = Len(expect)
    /\ \A i \in 1 .. Len(out) :
         /\ out[i].key = expect[i].key
         /\ pc # "ended" \/ i # Len(out) => RefsMatch(out[i].refs, expect[i].refs)
         /\ ~ returned => out[i].node = expect[i].node

\* A thread that ended has passed every block to the client; and the entries in use are
\* those from 1 up to the pointer, so a refresh, which stops at the first empty one,
\* leaves none behind to be counted later.
AllReported ==
  /\ pc = "ended" => due = <<>>
  /\ pc = "run" /\ bb_ptr > 0 =>
       \A i \in DOMAIN bb_cache : bb_cache[i] # NULL <=> 1 <= i /\ i < bb_ptr

\* The node at the end of the cached entries is the program's call path: draining
\* late loses nothing, for signals of the kind PlainSignalsKeepPath names.
DrainsToPath ==
  plain =>
    /\ pc # "crash"
    /\ (pc = "run" /\ ctx[T].last # NULL) =>
         Drained(FirstMoved(bb_cache)).node = Append(ctx[T].calls, ctx[T].last)
=============================================================================
