# A verification project for DrCCTLib

DrCCTLib attributes every instruction a program runs to its calling context. It is a
DynamoRIO extension (`src/src/drcctlib`): code inserted into each basic block moves a
thread-local cursor through a *calling context tree*, and a client asks for the *context
handle* of the instruction it is interested in. This directory models the parts of the library
whose state outlives a call, checks them with TLC and proves the core's safety with TLAPS.
Paths below are relative to the repository; `drcctlib.cpp` is `src/src/drcctlib/drcctlib.cpp`.

## 1. The system

| component | state | operations | used by |
|---|---|---|---|
| **calling context tree** (`drcctlib.cpp`, `drcctlib_priv_share.h`) | per thread: root, `cur_bb_node`, `pre_instr_state`, a start index in a raw tls slot; shared: `global_ip_node_buff` and its idle index, thread ids, `global_pt_cache_buff` | thread start/end, `bb_node_create`, `instrument_before_bb_first_instr` | every query, every client |
| **signal tracking** | one save slot per thread | `drcctlib_event_kernel_xfer` | the tree's cursor |
| **callee splay tree** (`splay_tree.cpp`) | links, keys, payloads, the spare node | `splay_tree_update` | the tree, one tree per node |
| **node object caches** (`memory_cache.h`) | pages, debris; per thread: frames and the last used object | `get_next_object`, `free_unuse_object` | the tree and the splay tree |
| **inline block cache** | per thread: entries of entered blocks and a write pointer | inserted stores, draining clean call | replaces the per-block clean call in code cache mode |
| **memory reference cache** | per thread: addresses and a write pointer | inserted stores, move on drain | goes with the block cache |
| **static block table** (`memory_cache.h`) | shadows of blocks by key, array of pages | `drcctlib_event_bb_analysis` | keys, slot numbers and end states of blocks |
| **instrumentation** | none beyond the table | `drcctlib_event_bb_insert` and friends | produces the code modelled above |
| **shadow memory** (`shadow_memory.h`) | directory, tables and pages, shared | get-or-create, lookup, destructor | data-centric attribution |
| **data-centric attribution** (`drcctlib.cpp`) | per-thread slot of a pending allocation, string pool | malloc, calloc and realloc wrappers, module load, data handle queries | memory clients |
| **context queries** | none | current handle, callers, pcs, full paths, comparison of two handles | clients |
| **initialisation and exit** | `init_count`, registered clients | `drcctlib_init_ex`, `drcctlib_exit` | clients |
| **hpcviewer output** (`drcctlib_hpcviewer_format.cpp`) | id counter, a tree per writer, generation of file names and their lock, table of modules | building, merging, opening, writing; module load and unload | clients with `_hpc_fmt` |
| **reuse distance client with a cache** (`drcctlib_reuse_distance_client_cache.cpp`) | buffer of references, indices, use map, reuse map | block start callback, inserted stores, thread end | |
| **reuse distance clients without one** | the same maps | block end callback | |
| other clients, utilities, attach patch, test applications, scripts | | | |

How they interact. DynamoRIO calls `drcctlib_event_bb_analysis` when it builds a block; the table
gives the block its key. The inserted code either calls `instrument_before_bb_first_instr`
(clean-call mode) or stores the block in the inline cache, which a clean call drains later (code
cache mode). Both look the block up in the splay tree of the *new caller* node, which they derive
from the previous block's last instrumented instruction, and create a node (object from the tls
cache, handles from the shared array) when the search ends at the spare splay node. Kernel
transfers save and restore the cursor. Clients read handles from the cursor or get them in the
callback at the end of each block.

What is hard here:

* threads carve handles out of one array with a fetch-and-add and publish nodes with plain stores;
* the tree's cursor is moved from two fields of the *previous* block only, so an error shows up
  many blocks later, as a wrong path and nothing else;
* signals arrive anywhere, nest, and share one save slot;
* caches are drained at a limit, and early, by several parties, possibly in the middle of a block;
* objects a thread leaves unused are recycled by other threads, at sizes that do not match;
* shadow pages are created by compare-and-swap, and memory the loser gives back is used again;
* allocation wrappers come in pairs with one slot between them, and allocators nest;
* profiles are written while other threads build theirs and modules come and go, under file names
  other processes may have taken;
* a module is looked up in an unlocked table while a load adds to it, and ids of threads are scanned while
  threads register;
* sampling windows begin and end in the middle of a buffer that is processed late;
* the splay loop searches, inserts and rebalances at once, with the tree in pieces.

What makes the components correct:

* tree: no handle belongs to two nodes; a handle the client holds keeps its meaning; one node per
  call path; callers are call sites; every walk upwards ends; the cursor is the call stack;
* signals: a handler runs on top of the interrupted path, and the path is back after it;
* splay tree: search order and nodes survive every iteration; it is a map from keys to nodes;
* object caches: an object is handed out once; frames fit; what is lost is bounded;
* block and reference caches: each block reaches the client once, in order, with its own
  references and at its call path; nothing is written behind the arrays;
* static block table: one key per block, a key resolves to a complete shadow;
* shadow memory: one page per address whoever wins the race, and it is a map from addresses to handles;
* data-centric: a byte of an object has the handle of the allocation that made it;
* initialisation and exit: the memory is there from the first client's start to the last one's end;
* hpcviewer output: profiles read back as trees, ids are unique, merged paths keep their metrics, rows
  name the module they are in, every writer has a file of its own and ends;
* reuse distance: the buffer is not overrun, exactly the reuses inside a window are counted, and the
  report names the most frequent.

`PROJECT.json` lists the components with their status and, under `hazards`, what is hard to test,
line by line, with the properties that watch each.

## 2. Modules

| module | models | reads |
|---|---|---|
| `CCT` | tree, handles, thread registry, signals in clean-call mode | `drcctlib.cpp` 337-376, 561-580, 1508-1634, 1921-1943, 2038-2213 |
| `CCTQueries` | what clients ask about handles | `drcctlib.cpp` 3014-3240, 3380-3399 |
| `CallStack` | abstract: the calls a thread is inside of | what CCT and BBCache promise |
| `CCTCallStack` | the refinement mapping from CCT to CallStack | |
| `CCTSignals` | CCT and the program's CallStack, step by step together | `drcctlib_event_kernel_xfer` |
| `CCT_proofs` | theorems about CCT | |
| `CCTPath_proofs` | theorems about CCTCallStack and CCTSignals | |
| `SplayTree` | `splay_tree_update`, one iteration a step | `splay_tree.cpp` |
| `CalleeMap` | abstract: a map from keys to payloads | what SplayTree promises CCT |
| `MemoryCache` | `memory_cache_t`, `tls_memory_cache_t` | `memory_cache.h` 44-380 |
| `MemoryCache_proofs` | theorems about MemoryCache | |
| `BBCache` | inline block cache and reference cache of one thread | `drcctlib.cpp` 655-1487 |
| `BBCache_proofs` | theorems about BBCache and BBCacheProgram | |
| `BBShadow` | static block table: keys, pages, arrays | `drcctlib.cpp` 504-543, 1781-1906, 2436-2447, `memory_cache.h` 378-541 |
| `BBShadow_proofs` | theorems about BBShadow | |
| `BBCacheProgram` | BBCache beside CallStack and the blocks not yet reported | |
| `ShadowMemory` | `ConcurrentShadowMemory`, one load or compare-and-swap a step | `shadow_memory.h` 40-159 |
| `ShadowMap` | abstract: a map from addresses to handles | what ShadowMemory promises |
| `DataCentric` | wrappers, module load, string pool, `init_count`, composed with ShadowMemory | `drcctlib.cpp` 2215-2435, 2713-2893 |
| `DataCentric_proofs` | theorems about ShadowMemory and DataCentric | |
| `HpcFormat` | building, merging and writing of profiles | `drcctlib_hpcviewer_format.cpp` 495-1235 |
| `HpcFormat_proofs` | theorems about HpcFormat | |
| `ReuseDistance` | one thread of the reuse distance client with a cache | `drcctlib_reuse_distance_client_cache.cpp` 125-485 |
| `ReuseDistance_proofs` | theorems about ReuseDistance | |
| `MC...` | finite instances and refinement mappings | |

### State and actions

**CCT.** `idle_idx`, `ip_node`, `pt_cache`, `thread_id_max` are the shared globals; `cur_bb`,
`pre_state`, `ctxt_idx`, `sig_bb` are the fields of `per_thread_t`. Objects are `<<thread, k>>`, the
k-th object of the thread's cache (justified by `MemoryCache!HandedOnce`). A thread enters an
arbitrary block at any time, so the program is unconstrained. The steps other threads can see are
separate: the fetch-and-add with the limit test (`CreateNode`, in `CreateRoot` and `EnterNew`), each
store of the fill loop (`FillSlot`), the publication of the node (`Publish`, `PublishRoot`). The thread's own
fields change in the same step as these. A callee tree is its set of payloads (justified by
`SplayTree!ImplementsMap`). The null caller the code would dereference is the state `crash`.
The blocks of the model have at least one slot: a block without instrumented instructions is not
entered. `cur_slot` and `cur_state`, the fields clients query, are not part of the state.

**CCTQueries.** The queries are functions of the state: they follow caller handles through `ip_node`, as the code does, and are
compared with the path of `parent_bb` pointers. A block's pcs are a constant, `SlotPc`, since `BBShadow!SlotsResolve` covers
how they get there; two blocks may share a pc. `drcctlib_have_same_caller_prefix` tests its first argument twice and its second
never (3203), so an invalid second handle is followed; the model asks about valid ones. Handle 0 passes the
test in `drcctlib_priv_share_get_full_calling_ip_vector`, which then follows its null node; the model asks about handles of nodes.

**SplayTree.** `root`, `child`, `tip` are `splay_tree_root`'s loop variables and links; `spare` is
`next_splay_node`. `Plant`, `Begin`, `Step`, `Assemble` are the parts of `splay_tree_update`, `UseKnown`
and `UseNew` what its caller does with the payload.

**MemoryCache.** A critical section under `memory_cache_lock` is one action. `Create`, `NextInFrame`,
`NextFrame`, `NextAfterRefill`, `FreeUnused`, `Exit` are the tls cache's operations; the shared cache's are
operators of theirs. `handed` counts how often an object was returned.

**BBCache.** `Enter` is the code inserted before a block: the store, the three tests and either the
pointer increment or the clean call. `MakeRef` is one stored address. `Refreshed` is the drain, with
everything it leaves behind: entries, pointers, moved references, node, previous block, callbacks.
Its loop is `Loop`, a recursive function of the number of entries, up to the first empty one (`Used`).
`SignalDeliver`, `SignalReturn`, `BuildBlock` (a handle query of a client that instruments) and
`ThreadEnd` call it too. A node is named by its path. `out` is what one step passes to the
client. `BBCacheProgram` keeps the list `due` of blocks begun and not reported.

**BBShadow.** `pc` is where a thread is in `drcctlib_event_bb_analysis`, `lock` the owner of `bb_shadow_lock`,
`table` the hash table with `NotFound` = NULL = key 0. What is visible to others step by step is a step of its own:
the lookup (`Found`, `Claim`), the two stores that publish a page (`TurnPage`, `StorePage`), the insertion (`Config`),
new arrays (`CreateCache`) and one turn of the loop that fills them (`Fill`). `code` is what the code cache holds: blocks
with the key inserted in them. A block is a number of slots at a pc; two blocks at one pc are code that replaced
other code. `slot_num` stands for `end_ins_state` and `mem_ref_num`, which are set with it, `ip` for `state_shadow` and
`disasm_shadow`, which are made and filled with it. `auto_add_lock` is not a variable: it is only taken under
`bb_shadow_lock`. Blocks without instrumented instructions return early and do not occur.

**ShadowMemory** and **DataCentric.** `access` is where a thread is in `GetOrCreateShadowBaseAddress`: `Load1`, `Cas1`,
`Load2`, `Cas2` are the accesses other threads can see; `tables` and `pages` are the memory `dr_raw_mem_alloc` has given,
and what a loser gives back is given again first. `DataCentric` adds the wrappers: `Capture` is the one before a
call (it overwrites the slot `pending`), `Alloc` and `AllocFails` the one after it (it puts the ranges to write in `todo`),
`BeginWrite` starts a range and `Write` is one turn of the loop over its cells. `ModuleLoad` queues one range per symbol;
`NameSymbol` takes the symbol's name from the string pool before its range begins; one without a name (`len` 0) gets index 0 and takes nothing. The program's side is `calls` (a
stack: calls nest) and `objects`, each with the handle it should have; `exact` is false for an object whose slot a call
inside has overwritten, whose size passes the 32 bits of the length, or which is a symbol that overlaps another. `ClientInit` and `ClientExit` are the parts of
`drcctlib_init_ex` and `drcctlib_exit` that `init_count` guards.

**HpcFormat.** A writer is a thread or the process at its exit; `w` is where it is in the client's calls. `tree` is a sequence of
nodes in the order they were made, each with the place of its parent and the id the parent had then. `InsertIP` is
one address of a path, so other threads' nodes get ids in between. A path is what a client's list of handles stands for, with 0 for a
handle 0: `AddMetric` ends a list at its end or at such a handle ("USE ERROR"), where the metric goes to the node reached so far, `SkipPath`
is the early return for an empty list. `Lock`, `OpenNew`, `NextName`, `OpenFails`, `OpenErrors` are the
attempts to open a file under `files_lock`, the last for errors other than a name that is taken; `Foreign` is another process that takes a name. `LoadmapSize`, `LoadmapAlloc`,
`LoadmapFill` and `LoadmapList` are the three reads of the number of modules and the walk over the table; `ModuleLoad` and
`ModuleUnload` come between them. `WriteCount` is the header of the tree; `WriteRow` writes one row, depth first: `parents` are the
nodes whose children are still to come, `last` the child written last, `kids` those of its siblings that have children themselves. It reads the
module table, and crashes where the code follows a null entry: of a module that has been unloaded, or of generated code, which is in no module
(`BaseOf` is None); and it may crash in a lookup that a load races with, since the table is not synchronised and the lookup takes no lock (`raced`:
an entry was added since the writer's last row). A lookup in a table that is being changed has two outcomes in the model, its entry or a crash; that freed memory
holds an entry with the same key is left out. `Selections` are the lists of paths and
metrics a client may pass, per writer. A client that writes without having built follows a null root in the code (1190); the model's clients build first.

**ReuseDistance.** Everything is one thread's. `BBStart` is the clean call at a block's start with its flush and the four cases
of the sampling; `Refer` is one inserted store. The buffer's memory is not cleared, so its first contents are any of `Junk`; `cur_buf_list` keeps what is left in it from before, `todo` is what the block still
refers to. `Fault` leaves a block early, `Move` gives memory to another owner. `seen` is every reference made, from
which `Reuses` is defined without looking at buffers.

## 3. Runs

| run | instance | shows |
|---|---|---|
| `cct_threads` | 2 threads, 3 blocks (call with 2 slots, return, plain), 8 handles, 1 signal each, symmetry | type, handles disjoint and resolvable, one node per path, call sites, walks descend, roots name their thread unless a smaller id is still registering |
| `cct_callstack` | 2 threads, 10 handles, no signals | CCT implements `CallStack`; the walk, the vector of pcs and the comparisons answer by the calls on the path, for the handle the inserted load reads and any other thread's; no null caller; handles are stable |
| `cct_signals` | 1 thread, 2 pending signals, depth 3 | signals of the plain kind keep the path and meet no null parent |
| `cct_signal_path` | 1 thread, 1 signal | **violation**: a signal right after a call loses the call |
| `cct_thread_limit` | 2 threads, limit 1 | **violation**: one thread too many passes |
| `memory_cache` | 4 threads, 2 pages of 12 objects, blocks of 4, debris from 2, symmetry | objects handed out once, frames fit, loss bounded |
| `splay_tree` | 5 keys, any sequence of accesses | search order, spare used once, termination, a map (so no node is lost) |
| `bb_cache` | 4 entries, 5 references, blocks with 1, 0 and 2 references, depth 1, 1 signal | each block reported once, in order, with its references, at its path |
| `bb_shadow` | 3 threads, 5 blocks at 4 pcs, 2 pages of 2 shadows, symmetry | one key per pc, shadows in stored pages, complete when nobody builds |
| `data_centric` | 2 threads, 2 clients, 8 addresses in 2 tables of 2 pages of 2 cells, 2 modules (one with symbols that overlap), sizes 2 and 7, lengths modulo 4, 2 calls, symmetry | memory neither lost nor doubled by a race or an exit; objects attributed; implements `ShadowMap` |
| `hpc_format` | a thread that builds twice from lists of one path, one cut by a handle 0, and writes; a thread that writes its calling context tree of 4 visits; the process at exit with a list of 4 (one empty, one with handle 0 first) or a path of generated code; 4 addresses, 2 places for modules, 2 other processes' names, generations to 2 | profiles well formed, metrics attributed, load map covers, own files, writing ends |
| `reuse_distance` | windows of 3 in 8 references, buffer of 2, blocks of 1 and 2 references, 2 addresses, 11 references, 1 mishap; lists of up to 4 for a report of 2 | buffer fits, reuses counted, report right |

Why the bounds are enough. Handles run out within each CCT run, so both sides of the limit test
are reached with two threads between the fetch-and-add and the exit. The three blocks are the three
cases of the caller computation. Calls nest and return below the first frame (returning out of the
outermost frame is reached at depth 0). Two pages and four threads let a thread refill from a
page, from debris of two others, and run out. With five keys a search meets two double rotations
and links to both sides before it ends; the program is any sequence of accesses. Four
entries are one for the start, two ordinary ones and the limit; a block of two references meets
the five-reference limit from 0, 1, 2 and 3 stored references, with a drain before, within and after it.
Four pcs against two free shadows turn the page and use up the shadows; with three threads one can build a block
anew while two others are at different points of building it. `NodeMax` and `DepthMax` only cut
the program's call depth; all cases of the caller computation lie below them. No constant replaces a definition.
Two threads are enough for each race on a shadow entry to have a winner and a loser whose memory the next page gets; five pages for four
entries leave one for a loser. Size 7 with lengths modulo 4 is an object beyond 32 bits; `PoolMax` ends the process
at its limit. In `hpc_format` the process at its exit gets past thread 0's name when opening failed for thread 0, and writes. Two generations and two foreign names let a writer find its first name taken, its second, and both; the
build of one writer falls between the builds of another. In `reuse_distance` eleven references enter a second
window; with blocks of one and two against a buffer of two a window ends at the end of a buffer and inside it. The
bounds respect what the constants of the code (10^9, 10^8, 4096) satisfy, `WindowAssumption`: with Sample + 2 BufferSize =
Unite two windows meet without a flush between them, and TLC finds addresses carried over. The client's lines hold no test for it.
The report is checked on every list of up to four entries with counts 1 to 3, besides the reports of the runs.

Deadlock is not checked where threads end or the process exits (CCT, MemoryCache, BBCache, BBShadow, ReuseDistance), or where the
program may make no more calls (DataCentric, HpcFormat); it is in
`splay_tree`, which can always start the next access.

Fairness. `SplayTree` and `HpcFormat` state it. In the first, weak fairness of the loop's step, the reassembly and the use of the
result. They are instructions of one thread inside a clean call, with nothing to wait for, so
they happen unless the thread is never scheduled again. No liveness property relies on the program
entering another block. In `HpcFormat`, weak fairness of each writer's `Step`, the functions a client calls in an exit
event, once called: a writer that spins on `files_lock` is not scheduled out for ever, every other writer takes
that lock once and lets it go on each way out, so weak fairness is enough to get it. Building, the calls of clients,
modules and other processes are not fair.

### Findings

1. `cct_signal_path` (`drcctlib.cpp:1936`): sigreturn restores `cur_bb_node`, not `pre_instr_state` or
   the start index in the tls slot. A signal delivered after a block ending in a call loses the call.
   `cct_signals` shows the case in which the slot is enough: no nesting, after at least one
   block, after a plain block, and with an instrumented restorer.
2. `cct_thread_limit` (`drcctlib.cpp:2156`): the test `id > THREAD_MAX_NUM` comes after `id--`.
In code cache mode the same line has another consequence, which follows from the code and has no run of its own: `pre_bb_shadow` is not
restored either, so after sigreturn the next callback pairs the interrupted block's first handle with the slot count of the
restorer's block. `CallbacksInOrder` therefore compares nodes until a handler returns, keys and references always.

Smaller observations, in `hazards`: a drain that starts at reference 0 clears what it copies
onto itself; the reference cache's addresses start uninitialised, and a block cut short by a
fault shifts the references of later blocks. `BBCacheProgram` states its properties for runs without
the last two (`whole`) and allows the first one to lose an address. The clean call at a full cache is made after the block is stored
and before its references are, so the drain may take stale addresses for as many references of the block as it is about to make,
and the write pointer starts behind them: a block whose references filled more than half of the reference cache
could run off its end (`CacheTypeCorrect` needs `HalfFits`; with 3 references in a cache of 5 TLC finds the pointer at 6). The code has 4096 entries,
which no block of DynamoRIO's default length comes near. The test before a block is `>=`
on x86 and `>` on ARM64 (`drcctlib.cpp:1379`, `1432`), where the comment says `>`; the model has the x86 form.
Building a block that is known replaces its shadow's arrays by empty ones (and leaks the old ones): until they are filled
again a handle of the block resolves to pc 0. The unload of a module leaves its pcs in the table, so other code
at such a pc inherits the old key, slot count and end state. `SlotsResolve` is therefore stated for moments when nobody
builds the block, and for pcs whose code is not replaced.

`get_thread_id_by_root_bb` (2581-2590) dereferences the entry of every id below `global_thread_id_max`, also of one that is taken and not
stored yet. `RootNamesOwner` says exactly when a query meets such an entry before the owner's: while a thread with a smaller id registers. Nothing keeps clients
from asking then; the README of the tool says nothing about it, so it is no finding with a run.

In data-centric attribution: `datacentric_dynamic_alloc` writes cells from address 0 on for a call that failed (2293-2304); a call
inside a call leaves the outer one its size and context; lengths are cut to 32 bits (2230); `free`, `munmap` and unloading
are not seen; `drcctlib_init_ex` of a second client returns true whatever became of the first, and its flags are not looked at.

In the hpcviewer output: the load map is written without `module_data_lock`, from three reads of the number of modules; a module unloaded before
the rows are written leaves a null entry that `IPNode_fwrite` follows, as does a path through generated code; its lookup (835) takes no lock on a table
that is not synchronised, while a load on another thread may add to it; a list of handles is cut at a handle 0 and its metric kept, an empty list drops its metric; a base used again keeps the old module's entry. A second
build for a thread turns leaf ids positive again and leaves negative ids on nodes that got children (905-914). Once a first file
was opened, a collision loses the profile. The process at its exit writes under thread 0's name and relies on the generation to differ.

In the reuse distance client: the first buffer of a thread is never sampled (`sample_mem` starts false, so the loop starts behind the
buffer); a block left early by a fault shifts the indices of all later references, as the count is taken from what blocks
announce; a block of more than 4096 references would overrun the buffer (`BlockAssumption`); the owner of an address is
asked at a flush, not at the reference, and kept for the window; `PrintTopN` drops entries without a positive owner, though it
has a text for static objects.

## 4. Proofs

Each `_proofs` module proves its theorems for every value of the constants that the named assumptions admit; TLC evaluates these
assumptions in every run. A module's proofs have one shape: an inductive invariant, a lemma per action that it is kept, and the
properties of the runs as its consequences. The invariants that are stated in the model's own module (`RegistryInv`, `BuildInv`,
`SignalInv`, `BufferInv`, `CacheInv`, `DataInv`, `FormatInv`, `AttributionInv`) were checked by TLC before they were proved.

### The tree (`CCT_proofs`)

| theorem | statement |
|---|---|
| `Invariant` | `Spec => []IndInv` |
| `TypeCorrect` | `Spec => []TypeOK` |
| `HandlesUnique` | `Spec => []HandleRangesDisjoint` |
| `HandlesSafe` | `Spec => []HandlesResolve` |
| `OneNode` | `Spec => []OneNodePerCallPath` |
| `CallSites` | `Spec => []CallersAreCallSites` |
| `WalkEnds` | `Spec => []CallerWalkDescends` |
| `HandlesStable` | `Spec => StableHandles` |
| `RegistryInvariant` | `Spec => [](IndInv /\ RegistryInv)` |
| `RootOwner` | `Spec => []RootNamesOwner` |
| `PathInvariant` | `SigMax = 0`: `Spec => [](IndInv /\ RegistryInv /\ PathInv)` |
| `CallerExists` | `SigMax = 0`: `Spec => []CallerNeverNull` |

Assumptions: `BlocksAssumption` (keys are positive, a block has a slot), `LimitsAssumption`, `NullAssumption`.

None of the properties is inductive. Disjointness needs that ranges lie below
the allocation mark, and that parents are older (`NodeInv`). That a published handle resolves needs
to know how far the thread that is filling its range has got, and that no other thread stores into
it (`FillInv`, from disjointness). One node per path needs that a callee tree holds *all* published
children and that a node under construction is of a key its caller's tree does not hold
(`CalleeInv`), which stays true because a tree is its owner's only (`ThreadInv`, `Owned`). Call
sites need that `pre_state = "call"` implies a cursor on a call block, which signals must not
break: `SignalReturn` is never taken after a call. `IndInv` is the conjunction. The four actions that touch the tree treat
one conjunct at a time. `StableHandles` follows from `IndInv` and the step.

`RegistryInv` adds the thread ids: those taken differ and lie below the counter, the table holds a thread under its own, and a
published root is the one of its thread; so a thread that has ended is still found. An id below the counter is some thread's, and its entry is empty exactly while that
thread registers (or if it exited then), which is when the scan dereferences null: `RootNamesOwner` gives the scan's outcome in both cases. `PathInv` says that without signals a thread is
in the state of a root exactly at its root, so the two steps up after a return start below it. The hypothesis `SigMax = 0` cannot be
dropped: with a signal the property is false (finding 1).

### Its paths (`CCTPath_proofs`)

| theorem | statement |
|---|---|
| `PlaceInvariant` | `SigMax = 0`: `Spec => []PathInvs` |
| `Tracks` | `SigMax = 0`: `Spec => TracksCallStack` (CCT implements CallStack) |
| `PlainSignals` | `JointSpec => []PlainSignalsKeepPath` |

Further assumption: `ContextAssumption` (the null pointer is no context).

`CallsOf`, the path of a node, is recursive over the callers. That a function satisfies its equation is an induction over where the
nodes' ranges start, which grows from caller to callee: it is made for a *set* of numbers (`SetInduction`, from
`WFMin`), since the library's induction theorem takes an operator. From the equation, `CallerCalls`: the
caller that `NewCaller` computes from the last block has the path that `CallStack` computes from the last call. `BuildInv` carries that caller over
the steps that build a node, `PlaceInv` says which block the state is of. Then each step of CCT is `Start`, `Enter` or a
stutter of CallStack. For signals, `SignalInv` relates the one save slot to the program's stack of saved contexts: as long as every signal was
plain there is at most one, its calls are those of the node in the slot, and that node is not the root.

### The block table (`BBShadow_proofs`)

| theorem | statement |
|---|---|
| `Invariant` | `Spec => []IndInv` |
| `TypeCorrect` | `Spec => []TypeOK` |
| `KeysUnique` | `Spec => []OneKeyPerBlock` |
| `PagesStored` | `Spec => []ShadowsStored` |
| `SlotsComplete` | `Spec => []SlotsResolve` |

Assumption: `TableAssumption` (blocks have a slot, pages have two objects; the code has 65536). Mutual
exclusion (`LockInv`) lets `PageInv` speak of the *stage* of the one critical section: the page mark and the page pointers
agree except between the two stores, and the index is at most one ahead of the mark while a page is turned. From that a
claimed key is fresh (`TableInv`, `AnalysisInv`), hence unique, hence in a stored page. Completeness cannot be read off one
thread, as arrays are replaced under others: `ShadowInv` says that each slot is right or that some thread will still pass
it, and the thread that leaves last has passed every slot.

### The object caches (`MemoryCache_proofs`)

| theorem | statement |
|---|---|
| `CacheInvariant` | `Spec => []CacheInv` |
| `CacheTypes` | `Spec => []TypeOK` |
| `OnlyOnce` | `Spec => []HandedOnce` |
| `RefillsFit` | `Spec => []FramesFit` |

Assumption: `SizesAssumption` (sizes are positive, a page holds a refill). `PlaceInv` is the argument: what lies above the page mark, in
debris, and in what is left of live threads' frames are runs of objects, pairwise apart, and nobody was given any of them; what was handed out
was handed out once. A refill moves runs from one holder to another (from the page, from a new page, or off the front of the debris, cut to size),
which `Sound`, the same statement for any mark, list of debris and holders, is proved for once per kind of move. That a refill from debris fits the vector
is arithmetic: each piece but the last has `DebrisMin` objects or more, and `FrameNum` such pieces make `MinNum`.

### Shadow memory and attribution (`DataCentric_proofs`)

| theorem | statement |
|---|---|
| `DataInvariant` | `Spec => []DataInv` |
| `DataTypes` | `Spec => []TypeOK` |
| `ShadowOwned` | `Spec => []MemoryOwned` |
| `Attributed` | `Spec => []ObjectsAttributed` |
| `MapImplemented` | `Spec => ImplementsMap` (ShadowMap) |

Assumptions: `ShadowAssumption` (entries are numbered from 0, None is no memory), `DataAssumption`. The directory's size, the table's, the page's,
the number of threads, clients, modules and calls are arbitrary.

`ShadowInv`: each piece of memory in use is one thread's own, and empty, or in exactly one entry; the pointers a thread has read are still
those the entries hold, because an entry is set once. A compare-and-swap thus changes no lookup: the page installed is empty, as the
missing page was. `MapImplemented` follows: `Write` sets the address the thread is at, the last client's exit clears the map, every other step is a stutter.
Attribution needs more: a call with none inside it is the one the thread's slot is about (`CallInv`); initialisations come before
and exits after everything the program does (`ClientInv`); what a thread writes lies in its object or was recorded as poisoned (`JobInv`); objects and
reserved ranges are apart (`RangeInv`), so no other thread's write hits an object; what a thread has passed of its range stays written (`WrittenInv`). The
proof found that `RangeInv` was false as first stated: symbols of one module may overlap, and the last one written wins. The property does not claim those.

### The reuse distance client (`ReuseDistance_proofs`)

| theorem | statement |
|---|---|
| `BufferInvariant` | `Spec => []BufferInv` |
| `StoresFit` | `Spec => []BufferFits` |
| `FlushInBuffer` | `Spec => []LoopsInBuffer` |

Assumptions: `BlockAssumption` (no block has more references than the buffer; the client's code relies on it), `WindowAssumption`,
`OwnerAssumption`, `JunkAssumption` (new memory holds some bits). What is stored is at most what was announced, and what was announced fits, as a block that would not fit empties the buffer
first: blocks left early by a fault only widen the gap. `LoopsInBuffer` says of the four sampling cases that the loop of a flush begins and ends within
the announced references, or does not turn at all for the first buffer, which is never sampled (`WindowInv`).

### Profiles (`HpcFormat_proofs`)

| theorem | statement |
|---|---|
| `FormatInvariant` | `Spec => []FormatInv` |
| `ProfilesReadable` | `Spec => []ProfileWellFormed` |
| `LoadmapResolves` | `Spec => []LoadmapCovers` |
| `FilesOwned` | `Spec => []OwnFile` |
| `AttributionInvariant` | `Spec => []AttributionInv` |
| `PathsAttributed` | `Spec => []MetricsAttributed` |

Assumptions: `WritersAssumption`, `ModulesAssumption` (None is no writer, the application is not a library), `ListsAssumption` (what clients
pass are lists of paths; a calling context tree has one root, visited first, and each other node after its parent). The writers, the
paths, the modules and their places, the names and generations are arbitrary.

`FileInv` is the lock and the one file of each writer that got past opening. `TreeInv` keeps ids apart: they come from one counter, and a
sign changes only at a leaf, which nobody names as its parent; so nodes go on naming their parents by the ids these have (`TreeOK`). Which ids are
negative is `Signed`, and `Placed` keeps the places a writer remembers, and what it is still to visit, below nodes of its tree. That a profile is
complete is an argument about the writing loop: `Half` tells from the parents whose children are still to come which nodes
have their rows, namely those whose parent is written and pending no more, and of the first pending parent the children up to the last one
written. With no parent pending a node without a row would have a parent without one, and the first such node has none (`AllWritten`). The
number of rows then follows from a bijection with the nodes (`RowPerNode`). `TableInv` and `Mapping` are about the three unlocked reads of the number of
modules: as long as no module came between them they agree, and every address of the tree, or about to be in it, has an entry or is generated code. `LoadmapCovers`
therefore claims, while nothing is unloaded, right rows for every writer that ends, and a crash only for trees with generated code or after a load during the rows.

`MetricsAttributed` speaks of writers between calls; between two addresses of a path it says nothing. `AttributionInv`, proved on top of `FormatInv`,
therefore counts the jobs done, gives every node the sum of what these passed with its path (`Credited`: the part before a handle 0; nothing for an empty list), and says of the job under way that the path of the node the
writer is at, followed by what is left, is the path that was asked for. Paths and sums are recursive; as parents come before their children, a function satisfies
the equation of `PathOf` (`PathExists`, `PathUnfold`), and with siblings apart (`Distinct`) two nodes have two paths (`PathsDiffer`). A new node then
gets the metric 0 rightly (`SoundGrown`: no job done has its path), a metric goes to the one node of its path (`SoundPaid`), and a change of ids at the end of a
call changes no path (`SoundEnd`).

To reason about the loop, the model writes one row a step, as the code does; a recursive definition of all rows at once could not be used in a proof.

### The inline caches (`BBCache_proofs`)

| theorem | statement |
|---|---|
| `CachesHold` | `JointSpec => []JInv` |
| `BlocksPassedInOrder` | `JointSpec => []CallbacksInOrder` |
| `EveryBlockPassed` | `JointSpec => []AllReported` |
| `DrainKeepsPath` | `JointSpec => []DrainsToPath` |
| `CacheTypeCorrect` | `HalfFits`: `JointSpec => []TypeOK` |

Assumptions: `CacheBlocksAssumption` (keys are positive), `CacheSizesAssumption` (no block fills the reference cache on its own), `CacheNullAssumption`
(the null pointer is no block, node or reference). Blocks, sizes, depth and the number of signals are arbitrary. `HalfFits`, which only the
type of the reference pointer needs, is explained under the observations of section 3.

The argument compares the cache with `due`, the list of blocks begun and not passed on. `DueInv`: the list is the block in hand followed by the
entries, and entries are in use from 1 up to the pointer (`Filled`), so a drain stops behind the last one. `MemInv`: there are offsets at which the references of the
listed blocks lie, one block's behind the other's (`Stored`), only those of the first may have lost their address, everything behind the
pointer is empty, and what is still to be stored fits. `NodeInv`: the node of each listed block hangs under the one `Caller` computes from the
block before (`Chain`), and the last of them is where the program is. From these three, inductions along the loop
say what the drain has passed after k entries, and where it is then: `LoopType`, `LoopNodes` and `LoopRefs`. `Loop` is recursive; that a function satisfies its
equation is proved as for `CallsOf` (`LoopExists`, `LoopUnfold`), by taking the least number for which a statement fails. `RefreshDoes` collects what a refresh promises,
whoever asks for it; `AfterRefresh` and `AfterNode` what holds in the state it leaves. The steps then differ in what they add to the list
before they drain. `SlotInv` is needed for one step, the handler's return: as long as every signal was plain there was one, and the block in the save slot
hangs under the calls the program had then. Without the offsets `CallbacksInOrder` is not inductive: the drain counts references by what the
blocks should have made.

### Only model-checked

* Liveness (`WritesEnd`, the splay tree's termination): the provers installed have no ENABLED, so no fairness.
* `QueriesAgree`: the walks are recursive in three ways (frames, pcs, the comparison of two handles); each needs an induction of its own like `CallsOf`'s.
* The splay tree: `Ordered`, `SpareUsedOnce` and the map speak of reachability along links, a transitive closure over a tree in
  pieces, which is induction over data.
* `LossBounded`: a sum over all debris and frames.
* `ReusesCounted` and `ReportsTopN`: they compare loops with definitions over sequences, folds of the community modules.

## 5. Not modelled

* Code generation and DynamoRIO itself: register allocation, labels, the translation of blocks.
* Loads and stores of one machine word are atomic and seen in program order.
* The unused build variants: `IN_PROCESS_SPEEDUP`, `DRCCTLIB_SUPPORT_ATTACH_DETACH`,
  `IPNODE_STORE_BNODE_IDX`, debug logs.
* Lists with more metrics than the client created (`metricVal` has `metric_num` places), which is misuse; one metric stands for all.
* The reference cache of the library (not of the client) with addresses of 0 or that cannot be computed.
* Printing, names of symbols, the bytes of the hpcrun format and the names of its metrics, command lines of clients; the reset
  of file names in a forked process.
* The addresses of stacks: STACK_OBJECT is computed from constants of the thread.
* The other reuse distance clients (they repeat the maps of the one modelled), the counting clients, test applications, scripts.
* `src/scripts/build_tool/patch_for_dr/support_attach`: some 28,000 lines, DynamoRIO's own core (signals, heap, dispatch, loader,
  synchronisation) with a patch for attaching that the build turns off. It is third-party code whose environment is not in this
  repository. The models cover the profiler, which is what the remaining lines are.
* `drcctlib_get_context_handle_in_reg` in code cache mode drains the cache when the block is *built*; the
  inserted load later reads whatever the tls slot holds. No client of the repository combines the two.

## 6. Plan

Done: `CCT`, `CCTQueries`, `CallStack`, `CCTCallStack`, `CCTSignals`, `MemoryCache`, `SplayTree`, `CalleeMap`, `BBCache`,
`BBCacheProgram`, `BBShadow`, `ShadowMemory`, `ShadowMap`, `DataCentric`, `HpcFormat`, `ReuseDistance`, and the proofs of section 4.

The next theorem is `QueriesAgree`: the walk along handles and the walk along `parent_bb` pointers are the same path.
