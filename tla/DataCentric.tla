----------------------------- MODULE DataCentric -----------------------------
(***************************************************************************)
(* Data-centric attribution (drcctlib.cpp): wrappers of malloc, calloc and *)
(* realloc and the load of modules write the handle of an object into the  *)
(* shadow cells of its bytes; clients look it up.  The wrapper before a    *)
(* call keeps size and context in one slot per thread, the wrapper after   *)
(* it writes the cells.  A call may be made inside another one: calloc     *)
(* that calls malloc, a signal handler that allocates.  init_count decides *)
(* which of several clients creates and deletes the shadow memory.         *)
(* What the wrappers do not see: free, mmap, the unload of a module.       *)
(***************************************************************************)
EXTENDS ShadowMemory, Sequences

CONSTANTS
  Clients,     \* clients of drcctlib in this process
  Sizes,       \* sizes the program asks for
  Contexts,    \* handles of blocks that allocate
  LenMod,      \* 2^32: accessLen is uint32_t
  Modules,     \* modules the program may load
  Symbols,     \* per module, the sequence of its data objects [at, size, len]
  PoolMax,     \* STRING_POOL_NODES_MAX
  MaxNest, MaxCalls,  \* bounds of the program
  Places, Bases       \* addresses the allocator and the loader choose from

(* A symbol without a size is skipped.  len is 0 for one without a name.   *)
ASSUME DataAssumption ==
  /\ IsFiniteSet(Clients) /\ Clients # {}
  /\ Sizes \subseteq Nat /\ Places \subseteq Addr /\ Bases \subseteq Nat
  /\ LenMod \in Nat \ {0} /\ PoolMax \in Nat \ {0}
  /\ \A m \in Modules : Symbols[m] \in Seq([at : Nat, size : Nat \ {0}, len : Nat])

VARIABLES
  client,      \* per client: "out", "in", "gone"
  init_count,
  pending,     \* per thread: dmem_alloc_size and dmem_alloc_ctxt_hndl
  todo,        \* per thread: the ranges it has to write, and as what
  idle_idx,    \* global_string_pool_idle_idx
  exited,      \* the process was ended by DRCCTLIB_EXIT_PROCESS
  (* the program *)
  calls,       \* per thread: the allocation calls it is inside of
  objects,     \* the objects it may use, and what the profiler should say of them
  poisoned,    \* addresses a wrapper has written outside of its object
  loaded,      \* modules that have been loaded
  left         \* calls it may still make

dataVars == <<client, init_count, pending, todo, idle_idx, exited>>
programVars == <<calls, objects, poisoned, loaded, left>>
vars == <<shadowVars, dataVars, programVars>>

Dynamic(c) == <<"DYNAMIC_OBJECT", c>>
Static(i)  == <<"STATIC_OBJECT", i>>
Handles    == {Dynamic(c) : c \in Contexts \cup {None}} \cup {Static(i) : i \in 0 .. PoolMax - 1}

Min2(m, n) == IF m < n THEN m ELSE n
Span(lo, n) == {a \in Addr : lo <= a /\ a < lo + n}
Units(o) == Span(o.lo, o.size)

(* What a thread still writes is reserved: nobody else has the memory.     *)
Reserved(t) == {todo[t][i].of : i \in DOMAIN todo[t]}
Busy == UNION {Units(o) : o \in objects \cup UNION {Reserved(t) : t \in Threads}}
FreeRange(lo, n) == lo > 0 /\ lo .. lo + n - 1 \subseteq Addr \ Busy

SymbolSizes == UNION {{Symbols[m][i].size : i \in 1 .. Len(Symbols[m])} : m \in Modules}
Object == [lo : Nat, size : {0} \cup Sizes \cup SymbolSizes, h : Handles \cup {Unknown}, exact : BOOLEAN]

TypeOK ==
  /\ dir = None \/ dir \in [Slots1 -> Tables \cup {None}]
  /\ tables \subseteq Tables /\ pages \subseteq PageNames
  /\ table \in [Tables -> [Slots2 -> PageNames \cup {None}]]
  /\ page \in [PageNames -> [0 .. PageSize - 1 -> Handles \cup {Unknown}]]
  /\ \A t \in Threads :
       /\ access[t].pc \in {"none", "load1", "cas1", "load2", "cas2", "got"}
       /\ access[t].pc # "none" <=> todo[t] # << >> /\ todo[t][1].begun
       /\ pending[t] \in [size : Sizes \cup {0}, ctxt : Contexts \cup {None}]
       /\ \A i \in 1 .. Len(todo[t]) : todo[t][i].of \in Object
  /\ client \in [Clients -> {"out", "in", "gone"}]
  /\ init_count \in 0 .. Cardinality(Clients)
  /\ objects \subseteq Object
  /\ exited \in BOOLEAN
  /\ exited \/ idle_idx < PoolMax

Init ==
  /\ ShadowInit
  /\ client = [c \in Clients |-> "out"]
  /\ init_count = 0
  /\ pending = [t \in Threads |-> [size |-> 0, ctxt |-> None]]
  /\ todo = [t \in Threads |-> << >>]
  /\ idle_idx = 0
  /\ exited = FALSE
  /\ calls = [t \in Threads |-> << >>]
  /\ objects = {}
  /\ poisoned = {}
  /\ loaded = {}
  /\ left = MaxCalls

-----------------------------------------------------------------------------
(* drcctlib_internal_init: only the first of several clients does the      *)
(* work.  All of them ask for DRCCTLIB_COLLECT_DATA_CENTRIC_MESSAGE.       *)
ClientInit(c) ==
  /\ client[c] = "out"
  /\ \A d \in Clients : client[d] # "gone"
  /\ client' = [client EXCEPT ![c] = "in"]
  /\ init_count' = init_count + 1
  /\ dir' = IF init_count' > 1 THEN dir ELSE NewShadow
  /\ UNCHANGED <<table, page, tables, pages, access, pending, todo, idle_idx, exited,
                 programVars>>

Quiet == \A t \in Threads : calls[t] = << >> /\ todo[t] = << >>

(* drcctlib_exit, in the client's exit event, when the threads are stopped *)
(* outside of clean calls.                                                 *)
TearsDownFirst == TRUE
TearsDown == init_count' = 0

ClientExit(c) ==
  /\ \A d \in Clients : client[d] # "out"
  /\ client[c] = "in"
  /\ Quiet
  /\ client' = [client EXCEPT ![c] = "gone"]
  /\ init_count' = init_count - 1
  /\ IF TearsDown THEN Delete ELSE UNCHANGED shadowVars
  /\ UNCHANGED <<pending, todo, idle_idx, exited, programVars>>

Running == ~exited /\ \A c \in Clients : client[c] = "in"

-----------------------------------------------------------------------------
(* capture_malloc_size, capture_calloc_size, capture_realloc_size: the     *)
(* handle is the first one of the current block.                           *)
Inexact(frames) == [i \in DOMAIN frames |-> [frames[i] EXCEPT !.exact = FALSE]]

Capture(t, n, c) ==
  /\ Running
  /\ todo[t] = << >>
  /\ Len(calls[t]) < MaxNest
  /\ left > 0
  /\ left' = left - 1
  /\ pending' = [pending EXCEPT ![t] = [size |-> n, ctxt |-> c]]
  /\ calls' = [calls EXCEPT ![t] = Append(Inexact(@), [size |-> n, ctxt |-> c, exact |-> TRUE])]
  /\ UNCHANGED <<shadowVars, client, init_count, todo, idle_idx, exited, objects, poisoned,
                 loaded>>

(* datacentric_dynamic_alloc: the cells of [retval, retval + size) get the *)
(* pending context.  A call that failed returns NULL and is treated like   *)
(* one that did not.                                                       *)
Job(lo, n, h, of) == [lo |-> lo, n |-> n, h |-> h, of |-> of, len |-> 0, begun |-> FALSE]

Queue(t, lo, o) ==
  todo' = [todo EXCEPT ![t] =
             <<Job(lo, pending[t].size % LenMod, Dynamic(pending[t].ctxt), o)>>]

Frame(t) == calls[t][Len(calls[t])]
Popped(t) == [calls EXCEPT ![t] = SubSeq(@, 1, Len(@) - 1)]

(* What a wrapper writes besides the object it is about.                   *)
Stray(t, lo, o) == Span(lo, pending[t].size % LenMod) \ Units(o)

(* The allocator hands out memory nobody has; the caller gets the object   *)
(* once the wrapper has run.  A call that returns what a call inside of it *)
(* returned, or a block in place, frees it first.                          *)
Alloc(t, lo) ==
  LET f == Frame(t)
      o == [lo |-> lo, size |-> f.size, h |-> Dynamic(f.ctxt), exact |-> f.exact /\ f.size < LenMod]
  IN
  /\ Running
  /\ calls[t] # << >> /\ todo[t] = << >>
  /\ FreeRange(lo, f.size)
  /\ Queue(t, lo, o)
  /\ poisoned' = poisoned \cup Stray(t, lo, o)
  /\ calls' = Popped(t)
  /\ UNCHANGED <<shadowVars, client, init_count, pending, idle_idx, exited, objects, loaded,
                 left>>

(* NULL: the wrapper writes the lowest addresses all the same.             *)
NoObject == [lo |-> 0, size |-> 0, h |-> Unknown, exact |-> FALSE]

AllocFails(t) ==
  /\ Running
  /\ calls[t] # << >> /\ todo[t] = << >>
  /\ Queue(t, 0, NoObject)
  /\ poisoned' = poisoned \cup Stray(t, 0, NoObject)
  /\ calls' = Popped(t)
  /\ UNCHANGED <<shadowVars, client, init_count, pending, idle_idx, exited, objects, loaded,
                 left>>

(* free, and the unload of a module: nothing is done about them.           *)
Free(t, o) ==
  /\ Running
  /\ todo[t] = << >>
  /\ o \in objects
  /\ objects' = objects \ {o}
  /\ UNCHANGED <<shadowVars, dataVars, calls, poisoned, loaded, left>>

(* drcctlib_event_module_load_analysis, datacentric_static_alloc.          *)
SymbolUnits(m, i, base) == Span(base + Symbols[m][i].at, Symbols[m][i].size)

StaticObject(m, i, base) ==
  [lo |-> base + Symbols[m][i].at, size |-> Symbols[m][i].size, h |-> Unknown,
   exact |-> /\ Symbols[m][i].size < LenMod
             /\ \A k \in DOMAIN Symbols[m] \ {i} :
                  SymbolUnits(m, i, base) \cap SymbolUnits(m, k, base) = {}]

ModuleLoad(t, m, base) ==
  /\ Running
  /\ todo[t] = << >> /\ calls[t] = << >>
  /\ m \notin loaded
  /\ \A i \in 1 .. Len(Symbols[m]) :
       FreeRange(base + Symbols[m][i].at, Symbols[m][i].size)
  /\ loaded' = loaded \cup {m}
  /\ todo' = [todo EXCEPT ![t] =
       [i \in 1 .. Len(Symbols[m]) |->
          LET o == StaticObject(m, i, base) IN
          [Job(o.lo, o.size % LenMod, Unknown, o) EXCEPT !.len = Symbols[m][i].len]]]
  /\ UNCHANGED <<shadowVars, client, init_count, pending, idle_idx, exited, calls, objects,
                 poisoned, left>>

-----------------------------------------------------------------------------
(* The program gets the object the range belongs to.                       *)
Handed(t) == objects \cup ({todo[t][1].of} \ {NoObject})

(* ATOMIC_ADD_STRING_POOL_INDEX: the name of a symbol takes len characters; *)
(* no name is index 0.                                                      *)
NextIdx(t) == idle_idx + todo[t][1].len
NameIdx(t) == IF todo[t][1].len = 0 THEN 0 ELSE idle_idx

PoolFullLate(i) == i > PoolMax
PoolFull(i) == i >= PoolMax

NameSymbol(t) ==
  /\ todo[t] # << >> /\ todo[t][1].h = Unknown
  /\ idle_idx' = NextIdx(t)
  /\ IF PoolFull(idle_idx')
     THEN /\ exited' = TRUE
          /\ UNCHANGED todo
     ELSE /\ todo' = [todo EXCEPT ![t][1] =
                       [@ EXCEPT !.h = Static(NameIdx(t)), !.of.h = Static(NameIdx(t))]]
          /\ UNCHANGED exited
  /\ UNCHANGED <<shadowVars, client, init_count, pending, programVars>>

(* The start of init_shadow_memory_space for the next range.               *)
BeginWrite(t) ==
  /\ todo[t] # << >> /\ ~todo[t][1].begun
  /\ todo[t][1].h # Unknown
  /\ IF todo[t][1].n = 0
     THEN /\ objects' = Handed(t)
          /\ todo' = [todo EXCEPT ![t] = Tail(@)]
          /\ UNCHANGED access
     ELSE /\ todo' = [todo EXCEPT ![t][1].begun = TRUE]
          /\ Seek(t, todo[t][1].lo)
          /\ UNCHANGED objects
  /\ UNCHANGED <<dir, table, page, tables, pages, client, init_count, pending, idle_idx, exited,
                 calls, poisoned, loaded, left>>

(* One cell; the next cell of the same page needs no new lookup.           *)
Last(t) == access[t].addr + 1 >= Min2(todo[t][1].lo + todo[t][1].n, AddrNum)

NextCellSamePage(t) == [access EXCEPT ![t].addr = @ + 1]

NextCell(t) ==
  LET a == access[t].addr + 1 IN
  [access EXCEPT ![t] = IF Offset(a) = 0 THEN [Idle EXCEPT !.pc = "load1", !.addr = a]
                                         ELSE [@ EXCEPT !.addr = a]]

Write(t) ==
  /\ access[t].pc = "got"
  /\ Store(t, todo[t][1].h)
  /\ IF Last(t)
     THEN /\ todo' = [todo EXCEPT ![t] = Tail(@)]
          /\ objects' = Handed(t)
          /\ access' = [access EXCEPT ![t] = Idle]
     ELSE /\ access' = NextCell(t)
          /\ UNCHANGED <<todo, objects>>
  /\ UNCHANGED <<client, init_count, pending, idle_idx, exited, calls, poisoned, loaded,
                 left>>

ShadowStep(t) ==
  /\ ~exited
  /\ \/ /\ GetOrCreate(t)
        /\ UNCHANGED <<dataVars, programVars>>
     \/ Write(t)
     \/ NameSymbol(t)
     \/ BeginWrite(t)

Next ==
  \/ \E c \in Clients : ClientInit(c) \/ ClientExit(c)
  \/ \E t \in Threads :
       \/ \E n \in Sizes, c \in Contexts : Capture(t, n, c)
       \/ \E lo \in Places : Alloc(t, lo)
       \/ \E o \in objects : Free(t, o)
       \/ AllocFails(t)
       \/ \E m \in Modules, base \in Bases : ModuleLoad(t, m, base)
       \/ ShadowStep(t)

Spec == Init /\ [][Next]_vars

-----------------------------------------------------------------------------
(* Whoever wins a race for an entry, memory is in one place: a table or a  *)
(* page in use is installed in exactly one entry or is a racing thread's   *)
(* own; nobody writes into a page that is not the one its address leads    *)
(* to; between the first client's initialisation and the last one's exit   *)
(* the directory is there, and after it nothing is left.                   *)
MemoryOwned ==
  /\ (dir # None <=>  \E c \in Clients : client[c] = "in")
  /\ dir = None => tables = {} /\ pages = {}
  /\ dir # None =>
       /\ tables = Reachable1 \cup Own("cas1")
       /\ pages = Reachable2 \cup Own("cas2")
       /\ Reachable1 \cap Own("cas1") = {} /\ Reachable2 \cap Own("cas2") = {}
       /\ \A s1, r1 \in Slots1 : dir[s1] = dir[r1] /\ dir[s1] # None => s1 = r1
       /\ \A n, k \in Reachable1, s2, r2 \in Slots2 :
            table[n][s2] = table[k][r2] /\ table[n][s2] # None => n = k /\ s2 = r2
  /\ \A t \in Threads :
       /\ access[t].pc \in {"load2", "cas2", "got"} =>
            dir # None /\ access[t].v1 = dir[Slot1(access[t].addr)]
       /\ access[t].pc = "got" =>
            access[t].v2 = table[access[t].v1][Slot2(access[t].addr)]

(* A byte of an object the program has is attributed to the allocation     *)
(* that made it or to its symbol, however the threads' wrappers interleave *)
(* and whatever the memory was used for before.  Not claimed for objects   *)
(* of calls with calls inside them and of 2^32 bytes or more, nor for      *)
(* symbols that overlap, nor where a wrapper wrote outside of its object:  *)
(* at the low addresses after a call that failed, behind an object when a  *)
(* call inside asked for more.                                             *)
ObjectsAttributed ==
  dir # None =>
    \A o \in objects : o.exact => \A a \in Units(o) \ poisoned : Lookup(a) = o.h

(* The shadow memory is a map from addresses to handles: a step of a       *)
(* thread sets at most one address, and no race loses what was written.    *)
Map == INSTANCE ShadowMap WITH Addresses <- Addr, Values <- Handles, Empty <- Unknown,
                               map <- [a \in Addr |-> Lookup(a)]
ImplementsMap == Map!Spec

-----------------------------------------------------------------------------
(* The inductive invariant of DataCentric_proofs.                          *)

Calls == [size : Sizes, ctxt : Contexts, exact : BOOLEAN]
Jobs  == [lo : Nat, n : Nat, h : Handles \cup {Unknown}, of : Object, len : Nat, begun : BOOLEAN]

(* A call with none inside it is the one the thread's slot is about.       *)
CallInv ==
  /\ pending \in [Threads -> [size : Sizes \cup {0}, ctxt : Contexts \cup {None}]]
  /\ calls \in [Threads -> Seq(Calls)]
  /\ \A t \in Threads : \A i \in DOMAIN calls[t] : calls[t][i].exact =>
       /\ i = Len(calls[t])
       /\ pending[t] = [size |-> calls[t][i].size, ctxt |-> calls[t][i].ctxt]

(* Clients come and go in order, and the program runs in between.          *)
ClientInv ==
  /\ client \in [Clients -> {"out", "in", "gone"}]
  /\ init_count = Cardinality({c \in Clients : client[c] = "in"})
  /\ dir # None <=> \E c \in Clients : client[c] = "in"
  /\ (\E c \in Clients : client[c] = "out") =>
       objects = {} /\ \A c \in Clients : client[c] # "gone"
  /\ dir = None \/ (\E c \in Clients : client[c] = "out") =>
       \A t \in Threads : todo[t] = << >>
  /\ exited \in BOOLEAN /\ idle_idx \in Nat /\ (exited \/ idle_idx < PoolMax)

(* What a thread still writes is about its object, except where poisoned,  *)
(* and only the first of its ranges is begun.                              *)
JobInv ==
  /\ todo \in [Threads -> Seq(Jobs)]
  /\ \A t \in Threads : \A i \in DOMAIN todo[t] :
       LET j == todo[t][i] IN
       /\ j.n # 0 => j.lo \in Addr
       /\ j.of.exact => j.lo = j.of.lo /\ j.n = j.of.size /\ j.h = j.of.h
       /\ Span(j.lo, j.n) \subseteq Units(j.of) \cup poisoned
       /\ j.begun => i = 1 /\ j.h # Unknown
  /\ \A t \in Threads :
       /\ access[t].pc # "none" <=> todo[t] # << >> /\ todo[t][1].begun
       /\ access[t].pc # "none" =>
            access[t].addr \in Span(todo[t][1].lo, todo[t][1].n)

(* Memory is handed out once at a time.                                    *)
Disjoint(o, p) == o.exact \/ p.exact => Units(o) \cap Units(p) = {}

RangeInv ==
  /\ objects \subseteq Object
  /\ \A o, p \in objects : o # p => Disjoint(o, p)
  /\ \A o \in objects, t \in Threads : \A i \in DOMAIN todo[t] : Disjoint(o, todo[t][i].of)
  /\ \A t, u \in Threads : \A i \in DOMAIN todo[t], k \in DOMAIN todo[u] :
       t # u \/ i # k => Disjoint(todo[t][i].of, todo[u][k].of)

(* What is written of a range is there to stay.                            *)
WrittenInv ==
  \A t \in Threads : access[t].pc # "none" /\ todo[t][1].of.exact =>
    \A a \in Units(todo[t][1].of) \ poisoned :
      a < access[t].addr => Lookup(a) = todo[t][1].h

DataInv ==
  /\ ShadowInv(Handles \cup {Unknown})
  /\ CallInv /\ ClientInv /\ JobInv /\ RangeInv /\ WrittenInv /\ ObjectsAttributed
=============================================================================
