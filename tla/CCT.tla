-------------------------------- MODULE CCT --------------------------------
(***************************************************************************)
(* The calling context tree of DrCCTLib (src/src/drcctlib/drcctlib.cpp) in *)
(* its clean-call mode: every thread owns a tree of bb nodes, one node per *)
(* static basic block and calling context, and all threads carve the       *)
(* context handles of their nodes out of one shared array of IP nodes with *)
(* an atomic fetch-and-add.                                                *)
(*                                                                         *)
(* A thread runs an arbitrary program: at any moment it may enter any      *)
(* block.  Only the steps other threads can observe are separate actions:  *)
(* the two fetch-and-adds, each store into the shared IP-node array, and   *)
(* the publication of a new node.  The splay tree of callees is the set of *)
(* its payloads here; module SplayTree models its rotations.  Object       *)
(* identity comes from the tls caches of module MemoryCache: the k-th node *)
(* of thread t is <<t, k>>.                                                *)
(***************************************************************************)
EXTENDS Integers

CONSTANTS
  Threads,    \* application threads
  Blocks,     \* keys of the static basic blocks (bb_shadow_t.key), from 1
  SlotNum,    \* bb_shadow_t.slot_num: instrumented instructions of a block
  EndState,   \* bb_shadow_t.end_ins_state: what the last of them does
  HandleMax,  \* CONTEXT_HANDLE_MAX
  ThreadMax,  \* THREAD_MAX_NUM
  SigMax,     \* bound: signal deliveries outstanding in one thread
  NULL

EndStates == {"call", "ret", "other"}
RootKey == 0       \* THREAD_ROOT_BB_SHARED_BB_KEY
RootCaller == 1    \* THREAD_ROOT_SHARDED_CALLER_CONTEXT_HANDLE
FirstHandle == 2   \* VALID_START_CTXT_HNDL

NodeId == Threads \X Nat

ASSUME BlocksAssumption ==
  /\ Blocks \subseteq Nat \ {RootKey}
  /\ SlotNum \in [Blocks -> Nat \ {0}]
  /\ EndState \in [Blocks -> EndStates]
ASSUME LimitsAssumption ==
  /\ HandleMax \in Nat
  /\ ThreadMax \in Nat
  /\ SigMax \in Nat
ASSUME NullAssumption == NULL \notin NodeId /\ NULL \notin Threads /\ NULL \notin Blocks

VARIABLES
  idle_idx,       \* global_ip_node_buff_idle_idx: the next free handle
  ip_node,        \* global_ip_node_buff: handle -> parent_bb_node
  node,           \* the cct_bb_node_t objects in use and their constant fields
  callees,        \* node -> payloads of its callee_splay_tree_root
  thread_id_max,  \* global_thread_id_max
  pt_cache,       \* global_pt_cache_buff: id -> published thread
  pc,             \* where thread t is
  made,           \* node objects t took from its bb_node_cache
  building,       \* the node t is creating, or NULL
  filled,         \* stores bb_node_create already made for it
  id,             \* pt->id
  root_bb,        \* pt->root_bb_node
  cur_bb,         \* pt->cur_bb_node
  pre_state,      \* pt->pre_instr_state
  ctxt_idx,       \* pt->cur_bb_child_ctxt_start_idx
  sig_bb,         \* pt->signal_raise_bb_node
  sig_depth,      \* signals t is handling
  sig_ran         \* the handler ran a block

shared == <<idle_idx, ip_node, node, callees>>
registry == <<thread_id_max, pt_cache, id>>
build == <<made, building, filled>>
position == <<root_bb, cur_bb, pre_state, ctxt_idx>>
signals == <<sig_bb, sig_depth, sig_ran>>
vars == <<shared, registry, pc, build, position, signals>>

Pcs == {"unborn", "init", "fill", "run", "ended", "exit", "crash"}
PreStates == EndStates \cup {"root"}
NodeRec == [parent_bb : NodeId \cup {NULL}, key : Blocks \cup {RootKey},
            start : Nat, max_slots : Nat \ {0}]

TypeOK ==
  /\ idle_idx \in Nat
  /\ ip_node \in [0 .. HandleMax - 1 -> NodeId \cup {NULL}]
  /\ DOMAIN node \subseteq NodeId
  /\ node \in [DOMAIN node -> NodeRec]
  /\ callees \in [DOMAIN node -> SUBSET DOMAIN node]
  /\ thread_id_max \in Nat
  /\ pt_cache \in [0 .. ThreadMax -> Threads \cup {NULL}]
  /\ pc \in [Threads -> Pcs]
  /\ made \in [Threads -> Nat]
  /\ building \in [Threads -> DOMAIN node \cup {NULL}]
  /\ filled \in [Threads -> Nat]
  /\ id \in [Threads -> Int]
  /\ root_bb \in [Threads -> DOMAIN node \cup {NULL}]
  /\ cur_bb \in [Threads -> DOMAIN node \cup {NULL}]
  /\ pre_state \in [Threads -> PreStates]
  /\ ctxt_idx \in [Threads -> Nat]
  /\ sig_bb \in [Threads -> DOMAIN node \cup {NULL}]
  /\ sig_depth \in [Threads -> Nat]
  /\ sig_ran \in [Threads -> BOOLEAN]

Init ==
  /\ idle_idx = FirstHandle
  /\ ip_node = [h \in 0 .. HandleMax - 1 |-> NULL]
  /\ node = [n \in {} |-> NULL]
  /\ callees = [n \in {} |-> {}]
  /\ thread_id_max = 0
  /\ pt_cache = [i \in 0 .. ThreadMax |-> NULL]
  /\ pc = [t \in Threads |-> "unborn"]
  /\ made = [t \in Threads |-> 0]
  /\ building = [t \in Threads |-> NULL]
  /\ filled = [t \in Threads |-> 0]
  /\ id = [t \in Threads |-> -1]
  /\ root_bb = [t \in Threads |-> NULL]
  /\ cur_bb = [t \in Threads |-> NULL]
  /\ pre_state = [t \in Threads |-> "root"]
  /\ ctxt_idx = [t \in Threads |-> 0]
  /\ sig_bb = [t \in Threads |-> NULL]
  /\ sig_depth = [t \in Threads |-> 0]
  /\ sig_ran = [t \in Threads |-> FALSE]

----------------------------------------------------------------------------
(* Nodes and handles. *)

EndCtxt(n) == node[n].start + node[n].max_slots - 1

CtxtRange(n) == node[n].start .. EndCtxt(n)

\* Mutant: the last slot of the node itself.
CallerCtxtOwn(n) ==
  IF node[n].parent_bb = NULL THEN RootCaller ELSE EndCtxt(n)

CallerCtxt(n) ==
  IF node[n].parent_bb = NULL THEN RootCaller ELSE EndCtxt(node[n].parent_bb)

CtxtIsValid(h) == RootCaller <= h /\ h < idle_idx

\* drcctlib_get_caller_handle; h > RootCaller and its IP node filled in.
CallerHandle(h) == CallerCtxt(ip_node[h])

\* Mutant: the sum of the fetch-and-add instead of the sum less num.
ClaimedStartSum(num) == idle_idx + num

\* cur_child_ctxt_start_idx returns the mark its fetch-and-add found.
ClaimedStart(num) == idle_idx

\* bb_node_create up to its loop.  The process exits when the sum reaches the
\* limit; otherwise the object has its fields and its range.
CreateNode(t, key, parent, num) ==
  LET n == <<t, made[t]>>
      rec == [parent_bb |-> parent, key |-> key, start |-> ClaimedStart(num),
              max_slots |-> num]
  IN /\ idle_idx' = idle_idx + num
     /\ IF idle_idx' >= HandleMax
        THEN /\ pc' = [pc EXCEPT ![t] = "exit"]
             /\ UNCHANGED <<node, callees, build>>
        ELSE /\ node' = [m \in DOMAIN node \cup {n} |-> IF m = n THEN rec ELSE node[m]]
             /\ callees' = [m \in DOMAIN node \cup {n} |-> IF m = n THEN {} ELSE callees[m]]
             /\ made' = [made EXCEPT ![t] = @ + 1]
             /\ building' = [building EXCEPT ![t] = n]
             /\ filled' = [filled EXCEPT ![t] = 0]
             /\ pc' = [pc EXCEPT ![t] = "fill"]

\* Mutants: the loop ends before its last store, or makes one more.
FilledButLast(t) == filled[t] >= node[building[t]].max_slots - 1
FilledPast(t) == filled[t] > node[building[t]].max_slots

\* bb_node_create's loop over the IP nodes of the new range is over.
Filled(t) == filled[t] >= node[building[t]].max_slots

\* One iteration of that loop.
FillSlot(t) ==
  LET n == building[t] IN
  /\ pc[t] = "fill"
  /\ ~ Filled(t)
  /\ ip_node' = [ip_node EXCEPT ![node[n].start + filled[t]] = n]
  /\ filled' = [filled EXCEPT ![t] = @ + 1]
  /\ UNCHANGED <<idle_idx, node, callees, registry, pc, made, building, position, signals>>

----------------------------------------------------------------------------
(* Threads: drcctlib_event_thread_start, pt_init, drcctlib_event_thread_end. *)

\* Mutant: the id is the counter after the fetch-and-add.
NewIdAfter == thread_id_max + 1

\* The fetch-and-add returns the new counter; id-- follows.
NewId == thread_id_max

\* Ids up to ThreadMax pass the test, so pt_cache is given that many entries and
\* one more; see ThreadsWithinLimit.
ThreadStart(t) ==
  /\ pc[t] = "unborn"
  /\ thread_id_max' = thread_id_max + 1
  /\ id' = [id EXCEPT ![t] = NewId]
  /\ pc' = [pc EXCEPT ![t] = IF NewId > ThreadMax THEN "exit" ELSE "init"]
  /\ UNCHANGED <<shared, pt_cache, build, position, signals>>

CreateRoot(t) ==
  /\ pc[t] = "init"
  /\ CreateNode(t, RootKey, NULL, 1)
  /\ UNCHANGED <<ip_node, registry, position, signals>>

PublishRoot(t) ==
  LET n == building[t] IN
  /\ pc[t] = "fill"
  /\ Filled(t)
  /\ node[n].key = RootKey
  /\ root_bb' = [root_bb EXCEPT ![t] = n]
  /\ cur_bb' = [cur_bb EXCEPT ![t] = n]
  /\ pre_state' = [pre_state EXCEPT ![t] = "root"]
  /\ ctxt_idx' = [ctxt_idx EXCEPT ![t] = node[n].start]
  /\ sig_bb' = [sig_bb EXCEPT ![t] = NULL]
  /\ pt_cache' = [pt_cache EXCEPT ![id[t]] = t]
  /\ building' = [building EXCEPT ![t] = NULL]
  /\ pc' = [pc EXCEPT ![t] = "run"]
  /\ UNCHANGED <<shared, thread_id_max, id, made, filled, sig_depth, sig_ran>>

ThreadEnd(t) ==
  /\ pc[t] = "run"
  /\ pc' = [pc EXCEPT ![t] = "ended"]
  /\ UNCHANGED <<shared, registry, build, position, signals>>

----------------------------------------------------------------------------
(* Entering a block: instrument_before_bb_first_instr. *)

ParentOf(n) == IF n = NULL THEN NULL ELSE node[n].parent_bb

\* Mutants: a block after a plain block hangs under it; a return pops one level
\* only; a return out of the root's callee is not special.
NewCallerNests(t) ==
  CASE pre_state[t] = "root" -> root_bb[t]
    [] pre_state[t] = "ret" -> ParentOf(cur_bb[t])
    [] pre_state[t] \in {"call", "other"} -> cur_bb[t]
NewCallerPopsOnce(t) ==
  CASE pre_state[t] = "root" -> root_bb[t]
    [] pre_state[t] = "call" -> cur_bb[t]
    [] pre_state[t] \in {"ret", "other"} -> ParentOf(cur_bb[t])
NewCallerUnguarded(t) ==
  CASE pre_state[t] = "root" -> root_bb[t]
    [] pre_state[t] = "call" -> cur_bb[t]
    [] pre_state[t] = "ret" -> ParentOf(ParentOf(cur_bb[t]))
    [] pre_state[t] = "other" -> ParentOf(cur_bb[t])

\* The node the entered block hangs under, from what the previous block's last
\* instrumented instruction did.  NULL stands for the null pointer the code
\* goes on to dereference.
NewCaller(t) ==
  CASE pre_state[t] = "root" -> root_bb[t]
    [] pre_state[t] = "call" -> cur_bb[t]
    [] pre_state[t] = "ret" ->
         IF ParentOf(cur_bb[t]) = root_bb[t] THEN root_bb[t]
         ELSE ParentOf(ParentOf(cur_bb[t]))
    [] pre_state[t] = "other" -> ParentOf(cur_bb[t])

\* What the splay tree of a caller finds for a key: at most one payload.
Found(c, b) == {n \in callees[c] : node[n].key = b}

\* Mutants: the start index of the old node stays in the tls slot; pre_instr_state
\* is cleared.
MoveToStale(t, n) ==
  /\ cur_bb' = [cur_bb EXCEPT ![t] = n]
  /\ pre_state' = [pre_state EXCEPT ![t] = EndState[node[n].key]]
  /\ sig_ran' = [sig_ran EXCEPT ![t] = TRUE]
  /\ UNCHANGED ctxt_idx
MoveToCleared(t, n) ==
  /\ cur_bb' = [cur_bb EXCEPT ![t] = n]
  /\ ctxt_idx' = [ctxt_idx EXCEPT ![t] = node[n].start]
  /\ pre_state' = [pre_state EXCEPT ![t] = NULL]
  /\ sig_ran' = [sig_ran EXCEPT ![t] = TRUE]

MoveTo(t, n) ==
  /\ cur_bb' = [cur_bb EXCEPT ![t] = n]
  /\ ctxt_idx' = [ctxt_idx EXCEPT ![t] = node[n].start]
  /\ pre_state' = [pre_state EXCEPT ![t] = EndState[node[n].key]]
  /\ sig_ran' = [sig_ran EXCEPT ![t] = TRUE]

EnterKnown(t, b) ==
  /\ pc[t] = "run"
  /\ NewCaller(t) # NULL
  /\ \E n \in Found(NewCaller(t), b) : MoveTo(t, n)
  /\ UNCHANGED <<shared, registry, pc, build, root_bb, sig_bb, sig_depth>>

EnterNew(t, b) ==
  /\ pc[t] = "run"
  /\ NewCaller(t) # NULL
  /\ Found(NewCaller(t), b) = {}
  /\ CreateNode(t, b, NewCaller(t), SlotNum[b])
  /\ UNCHANGED <<ip_node, registry, position, signals>>

EnterNull(t) ==
  /\ pc[t] = "run"
  /\ NewCaller(t) = NULL
  /\ pc' = [pc EXCEPT ![t] = "crash"]
  /\ UNCHANGED <<shared, registry, build, position, signals>>

\* Mutant: the new splay root has lost the subtrees of the old one.
AddCalleeAlone(c, n) == callees' = [callees EXCEPT ![c] = {n}]

\* The payload of the new splay root, stored in the caller.
AddCallee(c, n) == callees' = [callees EXCEPT ![c] = @ \cup {n}]

Publish(t) ==
  LET n == building[t] IN
  /\ pc[t] = "fill"
  /\ Filled(t)
  /\ node[n].key # RootKey
  /\ AddCallee(node[n].parent_bb, n)
  /\ MoveTo(t, n)
  /\ building' = [building EXCEPT ![t] = NULL]
  /\ pc' = [pc EXCEPT ![t] = "run"]
  /\ UNCHANGED <<idle_idx, ip_node, node, registry, made, filled, root_bb, sig_bb,
                 sig_depth>>

----------------------------------------------------------------------------
(* Signals: drcctlib_event_kernel_xfer.  The single slot sig_bb is all that *)
(* a delivery saves; sigreturn comes from the restorer, so never right      *)
(* after a call, and only once the handler has run a block.                 *)

SignalDeliver(t) ==
  /\ pc[t] = "run"
  /\ sig_depth[t] < SigMax
  /\ sig_bb' = [sig_bb EXCEPT ![t] = cur_bb[t]]
  /\ sig_depth' = [sig_depth EXCEPT ![t] = @ + 1]
  /\ sig_ran' = [sig_ran EXCEPT ![t] = FALSE]
  /\ UNCHANGED <<shared, registry, pc, build, position>>

\* Mutant: the saved node is not restored.
SignalReturnForgets(t) ==
  /\ pc[t] = "run"
  /\ sig_depth[t] > 0
  /\ sig_ran[t]
  /\ sig_depth' = [sig_depth EXCEPT ![t] = @ - 1]
  /\ sig_ran' = [sig_ran EXCEPT ![t] = FALSE]
  /\ UNCHANGED <<shared, registry, pc, build, position, sig_bb>>

SignalReturn(t) ==
  /\ pc[t] = "run"
  /\ sig_depth[t] > 0
  /\ sig_ran[t]
  /\ pre_state[t] \in {"ret", "other"}
  /\ cur_bb' = [cur_bb EXCEPT ![t] = sig_bb[t]]
  /\ sig_depth' = [sig_depth EXCEPT ![t] = @ - 1]
  /\ sig_ran' = [sig_ran EXCEPT ![t] = FALSE]
  /\ UNCHANGED <<shared, registry, pc, build, root_bb, pre_state, ctxt_idx, sig_bb>>

----------------------------------------------------------------------------
Next ==
  \E t \in Threads :
    \/ ThreadStart(t)
    \/ CreateRoot(t)
    \/ FillSlot(t)
    \/ PublishRoot(t)
    \/ \E b \in Blocks : EnterKnown(t, b) \/ EnterNew(t, b)
    \/ EnterNull(t)
    \/ Publish(t)
    \/ SignalDeliver(t)
    \/ SignalReturn(t)
    \/ ThreadEnd(t)

Spec == Init /\ [][Next]_vars

----------------------------------------------------------------------------
(* Properties. *)

Published(n) == \A t \in Threads : building[t] # n

\* No handle is given to two nodes, and every handle given out lies below the
\* allocation mark and inside global_ip_node_buff, whatever the interleaving of
\* the threads' fetch-and-adds and whoever runs into the limit.
HandleRangesDisjoint ==
  /\ \A n \in DOMAIN node :
       /\ FirstHandle <= node[n].start
       /\ EndCtxt(n) < idle_idx
       /\ EndCtxt(n) < HandleMax
  /\ \A m, n \in DOMAIN node :
       m # n => EndCtxt(m) < node[n].start \/ EndCtxt(n) < node[m].start

\* Every handle of a node its thread has published, and so every handle a client
\* was ever given, resolves through the shared IP-node array to that node.
HandlesResolve ==
  \A n \in DOMAIN node :
    Published(n) => \A h \in CtxtRange(n) : CtxtIsValid(h) /\ ip_node[h] = n

\* A block entered again in the same calling context gets the node it had: two
\* nodes never share both their caller and their block, so a handle stands for
\* one call path of its thread and a call path for one run of handles.
OneNodePerCallPath ==
  \A m, n \in DOMAIN node :
    m # n /\ node[m].parent_bb # NULL
      => node[m].parent_bb # node[n].parent_bb \/ node[m].key # node[n].key

\* A node hangs under its thread's root or under a block that ends in a call, so
\* the caller handle of a context (its parent's last slot) is a call site.
CallersAreCallSites ==
  \A n \in DOMAIN node :
    LET p == node[n].parent_bb IN
    p # NULL => node[p].key = RootKey \/ EndState[node[p].key] = "call"

\* The walk of drcctlib_get_cct and drcctlib_print_full_cct from any handle of a
\* client stays on published nodes of one thread and strictly descends, so it
\* ends at THREAD_ROOT_SHARDED_CALLER_CONTEXT_HANDLE.
CallerWalkDescends ==
  \A n \in DOMAIN node :
    Published(n) => \A h \in CtxtRange(n) :
      LET c == CallerHandle(h) IN
      \/ c = RootCaller /\ node[n].key = RootKey
      \/ /\ FirstHandle <= c /\ c < node[n].start
         /\ ip_node[c] \in DOMAIN node /\ ip_node[c][1] = n[1]
         /\ Published(ip_node[c])

\* get_thread_id_by_root_bb scans the ids upwards and stops at the first thread
\* whose root it was given.  It does not test the entries: one of an id that is
\* taken and not stored yet is null, and the scan dereferences it.  Entries are
\* only ever set, so a scan that takes its time fails no more often than this one.
NullRead == -2

ThreadIdOfRoot(n) ==
  LET unset == {i \in DOMAIN pt_cache : i < thread_id_max /\ pt_cache[i] = NULL}
      hits  == {i \in DOMAIN pt_cache : /\ i < thread_id_max /\ i \notin unset
                                        /\ root_bb[pt_cache[i]] = n}
  IN CASE \E i \in unset : \A j \in hits : i < j -> NullRead
       [] hits = {} -> -1
       [] OTHER -> CHOOSE i \in hits : \A j \in hits : i <= j

\* Between the fetch-and-add of its id and the store into global_pt_cache_buff,
\* which a thread that exits in between never makes.
Registering(t) == pc[t] # "unborn" /\ root_bb[t] = NULL

\* The root of a published node's path leads to the thread that owns the node, as
\* long as it runs and after it has ended, unless a thread with a smaller id is
\* still registering: then the scan fails.  Threads with larger ids do not matter.
RootNamesOwner ==
  \A n \in DOMAIN node :
    Published(n) /\ node[n].key = RootKey =>
      ThreadIdOfRoot(n) = IF \E t \in Threads : Registering(t) /\ id[t] < id[n[1]]
                          THEN NullRead ELSE id[n[1]]

\* What the exit in drcctlib_event_thread_start says of itself (drcctlib.cpp:2158):
\* no more than THREAD_MAX_NUM threads get past it.
ThreadsWithinLimit == \A t \in Threads : pc[t] = "run" => id[t] + 1 <= ThreadMax

\* A handle a client holds denotes the same context for the rest of the run.
StableHandles ==
  [][\A n \in DOMAIN node :
       Published(n) => /\ n \in DOMAIN node' /\ node'[n] = node[n]
                       /\ \A h \in CtxtRange(n) : ip_node'[h] = ip_node[h]]_vars

\* No thread follows the null parent of a root: returning out of the outermost
\* frame the profiler saw leaves the thread at its root.
CallerNeverNull == \A t \in Threads : pc[t] # "crash"

----------------------------------------------------------------------------
(* The inductive invariant of CCT_proofs. *)

\* Nodes are the objects their threads took, parents are older published nodes of
\* the same thread, and only roots have none.
NodeInv ==
  \A n \in DOMAIN node :
    LET p == node[n].parent_bb IN
    /\ n[2] < made[n[1]]
    /\ p = NULL <=> node[n].key = RootKey
    /\ p # NULL => /\ p \in DOMAIN node
                   /\ p[1] = n[1]
                   /\ Published(p)
                   /\ EndCtxt(p) < node[n].start

\* What a thread points at is its own and published.
Owned(t, x) == x # NULL => x[1] = t /\ Published(x)

ThreadInv ==
  \A t \in Threads :
    /\ pc[t] = "fill" <=> building[t] # NULL
    /\ building[t] # NULL => /\ building[t][1] = t
                             /\ filled[t] <= node[building[t]].max_slots
    /\ Owned(t, root_bb[t]) /\ Owned(t, cur_bb[t]) /\ Owned(t, sig_bb[t])
    /\ root_bb[t] # NULL => node[root_bb[t]].key = RootKey
    /\ pc[t] \in {"init", "unborn"} => root_bb[t] = NULL
    /\ pc[t] = "run" => root_bb[t] # NULL /\ cur_bb[t] # NULL
    /\ building[t] # NULL =>
         (root_bb[t] = NULL <=> node[building[t]].key = RootKey)
    /\ sig_depth[t] > 0 => sig_bb[t] # NULL
    /\ root_bb[t] = NULL => sig_depth[t] = 0
    /\ pre_state[t] = "call" => /\ cur_bb[t] # NULL
                                /\ node[cur_bb[t]].key # RootKey
                                /\ EndState[node[cur_bb[t]].key] = "call"

\* Each store of bb_node_create stays: a published node's whole range is filled,
\* a node being created is filled up to the loop's index.
FillInv ==
  /\ \A n \in DOMAIN node : Published(n) => \A h \in CtxtRange(n) : ip_node[h] = n
  /\ \A t \in Threads : building[t] # NULL =>
       \A i \in 0 .. filled[t] - 1 : ip_node[node[building[t]].start + i] = building[t]

\* A splay tree holds exactly the published children of its node, and a node is
\* only created for a key the tree does not hold.
CalleeInv ==
  /\ \A c \in DOMAIN node : \A n \in callees[c] :
       node[n].parent_bb = c /\ Published(n)
  /\ \A n \in DOMAIN node : Published(n) /\ node[n].parent_bb # NULL
       => n \in callees[node[n].parent_bb]
  /\ \A t \in Threads : building[t] # NULL /\ node[building[t]].parent_bb # NULL
       => Found(node[building[t]].parent_bb, node[building[t]].key) = {}

IndInv ==
  /\ TypeOK
  /\ idle_idx >= FirstHandle
  /\ NodeInv
  /\ ThreadInv
  /\ HandleRangesDisjoint
  /\ FillInv
  /\ CalleeInv
  /\ OneNodePerCallPath
  /\ CallersAreCallSites

\* The threads that took an id hold different ones, those below the counter, the
\* table holds each of them that has a root under its own, and a published root is the one its thread is registered with.
RegistryInv ==
  /\ \A t \in Threads :
       /\ pc[t] # "unborn" => id[t] \in Nat /\ id[t] < thread_id_max
       /\ pc[t] \in {"init", "fill", "run"} => id[t] <= ThreadMax
       /\ root_bb[t] # NULL =>
            pc[t] # "unborn" /\ id[t] <= ThreadMax /\ pt_cache[id[t]] = t
  /\ \A t, u \in Threads :
       pc[t] # "unborn" /\ pc[u] # "unborn" /\ id[t] = id[u] => t = u
  /\ \A i \in 0 .. ThreadMax :
       pt_cache[i] # NULL => /\ pc[pt_cache[i]] # "unborn" /\ id[pt_cache[i]] = i
                             /\ root_bb[pt_cache[i]] # NULL
  /\ \A i \in 0 .. thread_id_max - 1 : \E t \in Threads : pc[t] # "unborn" /\ id[t] = i
  /\ \A n \in DOMAIN node :
       Published(n) /\ node[n].key = RootKey => root_bb[n[1]] = n

\* Where a thread of a program without signals stands: "root" is the state of a
\* thread at its root and of no other, so the two dereferences after a return
\* start below the root.
PathInv ==
  \A t \in Threads :
    /\ pc[t] # "crash"
    /\ sig_depth[t] = 0
    /\ root_bb[t] = NULL => pre_state[t] = "root"
    /\ root_bb[t] # NULL => (pre_state[t] = "root" <=> cur_bb[t] = root_bb[t])
=============================================================================
