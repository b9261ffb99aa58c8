------------------------------ MODULE BBCache ------------------------------
(***************************************************************************)
(* The code cache mode of DrCCTLib (src/src/drcctlib/drcctlib.cpp).  Code  *)
(* inserted before a block stores the block in the next entry of a small   *)
(* cache, code inserted before its memory instructions stores their        *)
(* addresses in a second one, and only when one of them fills up does a    *)
(* clean call walk the tree for all entries at once and hand each block    *)
(* and its references to the client.  Signals, the end of the thread and   *)
(* handle queries drain the caches early.                                  *)
(*                                                                         *)
(* One thread: both caches are its own.  A node of its tree is the call    *)
(* blocks above it and its own block, outermost first, the root is <<>>:   *)
(* CCT!OneNodePerCallPath says that this names it.                         *)
(***************************************************************************)
EXTENDS Integers, Sequences, SequencesExt

CONSTANTS
  Blocks,    \* keys of the static basic blocks, from 1
  EndState,  \* bb_shadow_t.end_ins_state
  RefNum,    \* bb_shadow_t.mem_ref_num
  BBMax,     \* BB_CACHE_MESSAGE_MAX_NUM
  MemMax,    \* INNER_MEM_REF_CACHE_MAX
  MemAddr,   \* the DRCCTLIB_CACHE_MEMEORY_ACCESS_ADDR flag
  SigMax,    \* bound: signal deliveries outstanding
  NULL       \* a null pointer, and address 0

Root == 0    \* THREAD_ROOT_BB_SHARED_BB_KEY, whose shadow is the first

Refs == {<<b, i>> : b \in Blocks, i \in 1 .. MemMax}

\* The null pointer is no block, no node and no address of a reference.
ASSUME CacheNullAssumption == NULL \notin Blocks /\ NULL \notin Refs /\ NULL \notin Seq(Blocks)

ASSUME CacheBlocksAssumption ==
  /\ Blocks \subseteq Nat \ {Root}
  /\ EndState \in [Blocks -> {"call", "ret", "other"}]
  /\ RefNum \in [Blocks -> Nat]
\* No block fills the reference cache on its own.
ASSUME CacheSizesAssumption ==
  /\ BBMax \in Nat \ {0, 1}
  /\ MemMax \in Nat \ {0}
  /\ \A b \in Blocks : RefNum[b] + 1 < MemMax
  /\ MemAddr \in BOOLEAN
  /\ SigMax \in Nat

VARIABLES
  bb_cache,   \* bb_cache[i].bb_shadow
  bb_ptr,     \* index of the entry the second tls slot points to
  mem_cache,  \* inner_mem_ref_cache: a reference <<block, position>>, or addr 0
  mem_ptr,    \* index of the entry the third tls slot points to
  cur_bb,     \* pt->cur_bb_node
  pre_bb,     \* pt->pre_bb_shadow
  todo,       \* references the block under way has still to make
  out,        \* what the last step passed to func_insert_bb_end
  sig_bb,     \* pt->signal_raise_bb_node
  sig_depth,  \* signals the thread is handling
  sig_ran,    \* the handler ran a block
  pc          \* "run", "ended", or "crash" after a null parent

caches == <<bb_cache, bb_ptr, mem_cache, mem_ptr>>
place == <<cur_bb, pre_bb>>
signals == <<sig_bb, sig_depth, sig_ran>>
vars == <<caches, place, todo, out, signals, pc>>

TypeOK ==
  /\ bb_cache \in [0 .. BBMax - 1 -> Blocks \cup {NULL}]
  /\ bb_ptr \in 0 .. BBMax - 1
  /\ mem_cache \in [0 .. MemMax - 1 -> Refs \cup {NULL}]
  /\ mem_ptr \in 0 .. MemMax
  /\ cur_bb \in Seq(Blocks)
  /\ pre_bb \in Blocks \cup {Root}
  /\ todo \in 0 .. MemMax
  /\ \A i \in DOMAIN out : out[i].key \in Blocks \cup {Root}
  /\ sig_bb \in Seq(Blocks) \cup {NULL}
  /\ sig_depth \in 0 .. SigMax
  /\ sig_ran \in BOOLEAN
  /\ pc \in {"run", "ended", "crash"}

\* pt_init.  The address fields are not initialised: the memory is fresh, or what
\* an earlier thread left of its own cache.
Init ==
  /\ bb_cache = [i \in 0 .. BBMax - 1 |-> NULL]
  /\ bb_ptr = 0
  /\ \E old \in {NULL} \cup {<<b, 1>> : b \in {c \in Blocks : RefNum[c] > 0}} :
       mem_cache = [i \in 0 .. MemMax - 1 |-> old]
  /\ mem_ptr = 0
  /\ cur_bb = <<>>
  /\ pre_bb = Root
  /\ todo = 0
  /\ out = <<>>
  /\ sig_bb = NULL
  /\ sig_depth = 0
  /\ sig_ran = FALSE
  /\ pc = "run"

----------------------------------------------------------------------------
(* per_thread_refresh_bb_cache, per_thread_refresh_bb_cache_and_mem_ref_cache *)

ParentOf(n) == IF n \in {NULL, <<>>} THEN NULL ELSE Front(n)

RefsOf(b) == IF MemAddr /\ b # Root THEN RefNum[b] ELSE 0

\* The node under which the block after pre hangs.
Caller(n, pre) ==
  CASE pre = Root -> <<>>
    [] pre # Root /\ EndState[pre] = "call" -> n
    [] pre # Root /\ EndState[pre] = "ret" ->
         IF ParentOf(n) = <<>> THEN <<>> ELSE ParentOf(ParentOf(n))
    [] pre # Root /\ EndState[pre] = "other" -> ParentOf(n)

\* The loop's locals: cur_bb_node, pre_bb_shadow, pre_bb_start_index, and the
\* callbacks made so far.
Locals == [node |-> cur_bb, pre |-> pre_bb, start |-> 0, cbs |-> <<>>]

MemAt(i) == IF i \in DOMAIN mem_cache THEN mem_cache[i] ELSE NULL

\* Mutant: the start index moves by the references of the new block.
DrainEntrySkips(s, b) ==
  IF s.node = NULL THEN s
  ELSE LET caller == Caller(s.node, s.pre) IN
       [node |-> IF caller = NULL THEN NULL ELSE Append(caller, b),
        pre |-> b,
        start |-> s.start + RefsOf(b),
        cbs |-> Append(s.cbs,
          [node |-> s.node, key |-> s.pre,
           refs |-> [i \in 1 .. RefsOf(s.pre) |-> MemAt(s.start + i - 1)]])]

\* One entry: the callback of the block before it, then the walk to its node.  A
\* null node is followed no further.
DrainEntry(s, b) ==
  IF s.node = NULL THEN s
  ELSE LET caller == Caller(s.node, s.pre) IN
       [node |-> IF caller = NULL THEN NULL ELSE Append(caller, b),
        pre |-> b,
        start |-> s.start + RefsOf(s.pre),
        cbs |-> Append(s.cbs,
          [node |-> s.node, key |-> s.pre,
           refs |-> [i \in 1 .. RefsOf(s.pre) |-> MemAt(s.start + i - 1)]])]

\* The entries in use: those before the first empty one.
Used(cache) ==
  CHOOSE n \in 0 .. BBMax - 1 :
    /\ n = BBMax - 1 \/ cache[n + 1] = NULL
    /\ \A i \in 1 .. n : cache[i] # NULL

\* The loop over them: its locals after the first n.
Loop(cache) ==
  LET s[n \in 0 .. BBMax - 1] ==
        IF n = 0 THEN Locals ELSE DrainEntry(s[n - 1], cache[n])
  IN  s

Drained(cache) == Loop(cache)[Used(cache)]

\* The last block's references, start .. last - 1, move to the front.  They are
\* copied and cleared one by one, and so lost when start is 0.
MemMoved(start, last) ==
  [i \in DOMAIN mem_cache |->
     IF start # 0 /\ i < last - start THEN mem_cache[start + i]
     ELSE IF i < last THEN NULL
     ELSE mem_cache[i]]

\* The references from start that are stored already, at most num of them.
LastIndex(start, num) ==
  LET end == IF MemMax >= start + num THEN start + num ELSE MemMax IN
  CHOOSE k \in start .. (IF end > start THEN end ELSE start) :
    /\ k >= end \/ mem_cache[k] = NULL
    /\ \A i \in start .. k - 1 : mem_cache[i] # NULL

\* per_thread_init_stack_cache: the very first block waits in entry 0.
FirstMoved(cache) ==
  IF cache[0] = NULL THEN cache ELSE [cache EXCEPT ![1] = cache[0], ![0] = NULL]

\* refresh_per_thread_cct_tree with the entries of cache: what it leaves behind.
\* Nothing is left in order behind a null parent.
Refreshed(cache) ==
  LET c == FirstMoved(cache)
      s == Drained(c)
      n == Used(c)
      last == LastIndex(s.start, RefsOf(s.pre))
      same == [bb_cache |-> c, bb_ptr |-> bb_ptr, mem_cache |-> mem_cache,
               mem_ptr |-> mem_ptr, cur_bb |-> cur_bb, pre_bb |-> pre_bb,
               cbs |-> <<>>, pc |-> "run"]
  IN
  IF c[1] = NULL THEN same
  ELSE IF s.node = NULL THEN [same EXCEPT !.cbs = s.cbs, !.pc = "crash"]
  ELSE [bb_cache |-> [i \in DOMAIN c |-> IF i \in 1 .. n THEN NULL ELSE c[i]],
        bb_ptr |-> 1,
        mem_cache |-> IF MemAddr THEN MemMoved(s.start, last) ELSE mem_cache,
        mem_ptr |-> IF MemAddr THEN last - s.start ELSE mem_ptr,
        cur_bb |-> s.node, pre_bb |-> s.pre,
        cbs |-> s.cbs, pc |-> "run"]

\* All of it but the node.
RefreshTo(r) ==
  /\ bb_cache' = r.bb_cache
  /\ bb_ptr' = r.bb_ptr
  /\ mem_cache' = r.mem_cache
  /\ mem_ptr' = r.mem_ptr
  /\ pre_bb' = r.pre_bb

----------------------------------------------------------------------------
(* The inserted code: instrument_before_every_bb_first and its variant with *)
(* references, instrument_memory_cache_every_mem_access.                    *)

\* The entry's index is one more than its place; the jump is taken at the limit
\* already (x86: not signed).
MemFull(b) == MemAddr /\ mem_ptr + 1 + RefNum[b] >= MemMax

\* Mutant: the last entry is not noticed.
CallNeededFirstOnly(b) == bb_ptr + 1 = 1 \/ MemFull(b)

CallNeeded(b) == bb_ptr + 1 = 1 \/ bb_ptr + 1 = BBMax \/ MemFull(b)

\* The entry is stored, and the clean call made or the pointer advanced.
Enter(b) ==
  LET cache == [bb_cache EXCEPT ![bb_ptr] = b]
      r == Refreshed(cache)
  IN
  /\ pc = "run"
  /\ todo = 0
  /\ \/ /\ CallNeeded(b)
        /\ RefreshTo(r)
        /\ cur_bb' = r.cur_bb
        /\ out' = r.cbs
        /\ pc' = r.pc
     \/ /\ ~ CallNeeded(b)
        /\ bb_cache' = cache
        /\ bb_ptr' = bb_ptr + 1
        /\ out' = <<>>
        /\ UNCHANGED <<mem_cache, mem_ptr, place, pc>>
  /\ todo' = RefsOf(b)
  /\ sig_ran' = TRUE
  /\ UNCHANGED <<sig_bb, sig_depth>>

\* The next reference of b, the block under way.
MakeRef(b) ==
  /\ pc = "run"
  /\ todo > 0
  /\ mem_cache' = [mem_cache EXCEPT ![mem_ptr] = <<b, RefNum[b] - todo + 1>>]
  /\ mem_ptr' = mem_ptr + 1
  /\ todo' = todo - 1
  /\ out' = <<>>
  /\ UNCHANGED <<bb_cache, bb_ptr, place, signals, pc>>

----------------------------------------------------------------------------
(* drcctlib_event_kernel_xfer, drcctlib_event_thread_end, and               *)
(* drcctlib_get_context_handle_in_reg while a block is built.               *)

\* Mutant: the node is saved before the refresh.
SignalDeliverEarly ==
  LET r == Refreshed(bb_cache) IN
  /\ pc = "run"
  /\ sig_depth < SigMax
  /\ RefreshTo(r)
  /\ cur_bb' = r.cur_bb
  /\ sig_bb' = cur_bb
  /\ sig_depth' = sig_depth + 1
  /\ sig_ran' = FALSE
  /\ todo' = 0
  /\ out' = r.cbs
  /\ pc' = r.pc

\* Between two blocks, or at an instruction that faults: what is left of its block
\* does not run.
SignalDeliver ==
  LET r == Refreshed(bb_cache) IN
  /\ pc = "run"
  /\ sig_depth < SigMax
  /\ RefreshTo(r)
  /\ cur_bb' = r.cur_bb
  /\ sig_bb' = r.cur_bb
  /\ sig_depth' = sig_depth + 1
  /\ sig_ran' = FALSE
  /\ todo' = 0
  /\ out' = r.cbs
  /\ pc' = r.pc

\* The node is restored, pre_bb_shadow stays that of the last block before.
SignalReturn ==
  LET r == Refreshed(bb_cache) IN
  /\ pc = "run"
  /\ todo = 0
  /\ sig_depth > 0
  /\ sig_ran
  /\ RefreshTo(r)
  /\ cur_bb' = sig_bb
  /\ sig_depth' = sig_depth - 1
  /\ sig_ran' = FALSE
  /\ out' = r.cbs
  /\ pc' = r.pc
  /\ UNCHANGED <<sig_bb, todo>>

BuildBlock ==
  LET r == Refreshed(bb_cache) IN
  /\ pc = "run"
  /\ todo = 0
  /\ RefreshTo(r)
  /\ cur_bb' = r.cur_bb
  /\ out' = r.cbs
  /\ pc' = r.pc
  /\ UNCHANGED <<todo, signals>>

\* Mutant: the block the thread ends in is forgotten.
ThreadEndSilent ==
  LET r == Refreshed(bb_cache) IN
  /\ pc = "run"
  /\ todo = 0
  /\ RefreshTo(r)
  /\ cur_bb' = r.cur_bb
  /\ out' = r.cbs
  /\ pc' = IF r.pc = "run" THEN "ended" ELSE r.pc
  /\ UNCHANGED <<todo, signals>>

\* After the refresh the last block gets its callback, without references.
ThreadEnd ==
  LET r == Refreshed(bb_cache)
      final == [node |-> r.cur_bb, key |-> r.pre_bb, refs |-> <<>>]
  IN
  /\ pc = "run"
  /\ todo = 0
  /\ RefreshTo(r)
  /\ cur_bb' = r.cur_bb
  /\ out' = IF r.pc = "run" THEN Append(r.cbs, final) ELSE r.cbs
  /\ pc' = IF r.pc = "run" THEN "ended" ELSE r.pc
  /\ UNCHANGED <<todo, signals>>

Next ==
  \/ \E b \in Blocks : Enter(b) \/ MakeRef(b)
  \/ SignalDeliver
  \/ SignalReturn
  \/ BuildBlock
  \/ ThreadEnd

Spec == Init /\ [][Next]_vars
=============================================================================
