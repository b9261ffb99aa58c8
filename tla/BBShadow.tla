------------------------------ MODULE BBShadow ------------------------------
(***************************************************************************)
(* The static block table (src/src/drcctlib/drcctlib.cpp): when DynamoRIO  *)
(* builds a block, drcctlib_event_bb_analysis looks its first pc up in     *)
(* global_bb_key_table, takes a shadow from the thread_shared_memory_cache *)
(* for a new pc, and fills the shadow's arrays with the block's            *)
(* instructions.  Lookup and insertion are made under bb_shadow_lock, the  *)
(* arrays are made and filled outside it.                                  *)
(*                                                                         *)
(* A block is built again whenever it is put into a trace, translated      *)
(* after a fault, or was flushed: every analysis makes new arrays, also    *)
(* for a shadow that has some.  A tag may hold other code by then.         *)
(***************************************************************************)
EXTENDS Integers

CONSTANTS
  Threads, NoThread,
  Blocks,     \* pieces of code with at least one instrumented instruction
  TagOf,      \* the pc of a block's first instruction
  SlotNum,    \* its number of instrumented instructions
  Unset,      \* what an array of a shadow holds before it is filled
  PageNum,    \* page1_size_: pages there may be
  PageSize    \* page2_size_: shadows of a page

ASSUME TableAssumption ==
  /\ NoThread \notin Threads
  /\ SlotNum \in [Blocks -> Nat \ {0}]
  /\ DOMAIN TagOf = Blocks
  /\ Unset \notin Blocks
  /\ PageNum \in Nat \ {0} /\ PageSize \in Nat \ {0, 1}

VARIABLES
  lock,       \* the thread that holds bb_shadow_lock
  table,      \* global_bb_key_table, NotFound where a tag has no key
  next,       \* next_used_index_
  last,       \* cur_max_index_: the last index of the pages announced
  pages,      \* pages in page1_cache_
  slot_num,   \* of each shadow
  ip,         \* ip_shadow of each: the block whose instruction a slot is of
  code,       \* the blocks in the code cache, each with the key inserted in it
  pc, block, key, slot   \* of the analysis each thread is in

shadows == <<next, last, pages>>
vars == <<lock, table, shadows, slot_num, ip, code, pc, block, key, slot>>

RootKey == 0
NotFound == 0
MaxIndex == PageNum * PageSize - 1
Keys == 0 .. MaxIndex
Tags == {TagOf[b] : b \in Blocks}

Sizes == {0, 1} \cup {SlotNum[b] : b \in Blocks}
Arrays == UNION {[0 .. n - 1 -> Blocks \cup {Unset}] : n \in Sizes}

Critical == {"lookup", "turn", "store", "config", "unlock"}
Pcs == Critical \cup {"idle", "create", "fill", "exit"}

TypeOK ==
  /\ lock \in Threads \cup {NoThread}
  /\ table \in [Tags -> Keys]
  /\ next \in 0 .. MaxIndex + 1
  /\ last \in -1 .. MaxIndex
  /\ pages \in 0 .. PageNum
  /\ slot_num \in [Keys -> Sizes]
  /\ ip \in [Keys -> Arrays]
  /\ \A k \in Keys : DOMAIN ip[k] \in {{}, 0 .. slot_num[k] - 1}
  /\ code \subseteq [block : Blocks, key : Keys]
  /\ pc \in [Threads -> Pcs]
  /\ block \in [Threads -> Blocks \cup {Unset}]
  /\ key \in [Threads -> Keys]
  /\ slot \in [Threads -> Nat]

\* init_global_buff: one page, its first shadow with one slot for the thread roots.
Init ==
  /\ lock = NoThread
  /\ table = [g \in Tags |-> NotFound]
  /\ next = 1
  /\ last = PageSize - 1
  /\ pages = 1
  /\ slot_num = [k \in Keys |-> IF k = RootKey THEN 1 ELSE 0]
  /\ ip = [k \in Keys |-> [i \in 0 .. slot_num[k] - 1 |-> Unset]]
  /\ code = {}
  /\ pc = [t \in Threads |-> "idle"]
  /\ block = [t \in Threads |-> Unset]
  /\ key = [t \in Threads |-> RootKey]
  /\ slot = [t \in Threads |-> 0]

Goto(t, label) == pc' = [pc EXCEPT ![t] = label]

----------------------------------------------------------------------------
(* Under bb_shadow_lock. *)

\* Mutant: the lock is not waited for.
AcquireAnyway(t) ==
  /\ pc[t] = "idle"
  /\ lock' = t
  /\ block' \in {[block EXCEPT ![t] = b] : b \in Blocks}
  /\ Goto(t, "lookup")
  /\ UNCHANGED <<table, shadows, slot_num, ip, code, key, slot>>

\* DynamoRIO builds any block at any time.
Acquire(t) ==
  /\ pc[t] = "idle" /\ lock = NoThread
  /\ lock' = t
  /\ block' \in {[block EXCEPT ![t] = b] : b \in Blocks}
  /\ Goto(t, "lookup")
  /\ UNCHANGED <<table, shadows, slot_num, ip, code, key, slot>>

Known(t) == table[TagOf[block[t]]]

\* Mutant: a shadow that was found is configured again.
FoundConfigured(t) ==
  /\ pc[t] = "lookup" /\ Known(t) # NotFound
  /\ key' = [key EXCEPT ![t] = Known(t)]
  /\ Goto(t, "config")
  /\ UNCHANGED <<lock, table, shadows, slot_num, ip, code, block, slot>>

Found(t) ==
  /\ pc[t] = "lookup" /\ Known(t) # NotFound
  /\ key' = [key EXCEPT ![t] = Known(t)]
  /\ Goto(t, "unlock")
  /\ UNCHANGED <<lock, table, shadows, slot_num, ip, code, block, slot>>

\* get_next_object takes an index; at the last one the process exits, ...
Claim(t) ==
  /\ pc[t] = "lookup" /\ Known(t) = NotFound
  /\ next' = next + 1
  /\ IF next = MaxIndex
     THEN Goto(t, "exit") /\ UNCHANGED key
     ELSE /\ key' = [key EXCEPT ![t] = next]
          /\ Goto(t, IF next >= last THEN "turn" ELSE "config")
  /\ UNCHANGED <<lock, table, last, pages, slot_num, ip, code, block, slot>>

\* ... at the last of a page init_new_page2 announces another page ...
TurnPage(t) ==
  /\ pc[t] = "turn"
  /\ IF pages < PageNum THEN last' = last + PageSize /\ Goto(t, "store")
     ELSE Goto(t, "exit") /\ UNCHANGED last
  /\ UNCHANGED <<lock, table, next, pages, slot_num, ip, code, block, key, slot>>

\* ... and only then stores its pointer.
StorePage(t) ==
  /\ pc[t] = "store"
  /\ pages' = pages + 1
  /\ Goto(t, "config")
  /\ UNCHANGED <<lock, table, next, last, slot_num, ip, code, block, key, slot>>

\* bb_shadow_init_config and hashtable_add.
Config(t) ==
  /\ pc[t] = "config"
  /\ slot_num' = [slot_num EXCEPT ![key[t]] = SlotNum[block[t]]]
  /\ table' = [table EXCEPT ![TagOf[block[t]]] = key[t]]
  /\ Goto(t, "unlock")
  /\ UNCHANGED <<lock, shadows, ip, code, block, key, slot>>

Unlock(t) ==
  /\ pc[t] = "unlock"
  /\ lock' = NoThread
  /\ Goto(t, "create")
  /\ UNCHANGED <<table, shadows, slot_num, ip, code, block, key, slot>>

----------------------------------------------------------------------------
(* Without it. *)

\* bb_shadow_create_cache, for a shadow that was found too; the old arrays leak.
CreateCache(t) ==
  /\ pc[t] = "create"
  /\ ip' = [ip EXCEPT ![key[t]] = [i \in 0 .. slot_num[key[t]] - 1 |-> Unset]]
  /\ slot' = [slot EXCEPT ![t] = 0]
  /\ Goto(t, "fill")
  /\ UNCHANGED <<lock, table, shadows, slot_num, code, block, key>>

\* Mutant: slots are filled when the block is built for the first time.
FillNew(t) ==
  /\ pc[t] = "fill" /\ slot[t] < SlotNum[block[t]]
  /\ LET k == key[t] IN
     ip' = IF slot[t] \in DOMAIN ip[k] /\ ~ \E c \in code : c.key = k
           THEN [ip EXCEPT ![k][slot[t]] = block[t]] ELSE ip
  /\ slot' = [slot EXCEPT ![t] = @ + 1]
  /\ UNCHANGED <<lock, table, shadows, slot_num, code, pc, block, key>>

\* One turn of the loop over the block, through the shadow's current array.  Behind
\* its end, when the tag held a shorter block before, the store hits the rest of the
\* array's page: dr_raw_mem_alloc maps whole ones.
Fill(t) ==
  /\ pc[t] = "fill" /\ slot[t] < SlotNum[block[t]]
  /\ LET k == key[t] IN
     ip' = IF slot[t] \in DOMAIN ip[k]
           THEN [ip EXCEPT ![k][slot[t]] = block[t]] ELSE ip
  /\ slot' = [slot EXCEPT ![t] = @ + 1]
  /\ UNCHANGED <<lock, table, shadows, slot_num, code, pc, block, key>>

\* The analysis returns and the block goes into the code cache.
Emit(t) ==
  /\ pc[t] = "fill" /\ slot[t] = SlotNum[block[t]]
  /\ code' = code \cup {[block |-> block[t], key |-> key[t]]}
  /\ Goto(t, "idle")
  /\ block' = [block EXCEPT ![t] = Unset]
  /\ key' = [key EXCEPT ![t] = RootKey]
  /\ slot' = [slot EXCEPT ![t] = 0]
  /\ UNCHANGED <<lock, table, shadows, slot_num, ip>>

Next ==
  \E t \in Threads :
    Acquire(t) \/ Found(t) \/ Claim(t) \/ TurnPage(t) \/ StorePage(t)
      \/ Config(t) \/ Unlock(t) \/ CreateCache(t) \/ Fill(t) \/ Emit(t)

Spec == Init /\ [][Next]_vars

----------------------------------------------------------------------------
(* Properties. *)

\* Threads past the insertion use the key outside the lock.
Holds(t, k) == pc[t] \in {"unlock", "create", "fill"} /\ key[t] = k

\* All code built at one pc carries one key and no other code does, whichever threads
\* build it at the same time: the callee trees compare keys, so a second key would
\* split a call path in two and a shared one would join two blocks.  No block has the
\* roots' key, which is the hash table's NULL.
OneKeyPerBlock ==
  /\ \A c, d \in code : c.key = d.key <=> TagOf[c.block] = TagOf[d.block]
  /\ \A c \in code : c.key # RootKey

\* Who dereferences a shadow, in the analysis or later from code and handles, finds its
\* page stored, although the page is announced before that and the pages are read
\* without any lock.
ShadowsStored ==
  /\ \A c \in code : c.key < pages * PageSize
  /\ \A t \in Threads :
       pc[t] \in {"config", "unlock", "create", "fill"} => key[t] < pages * PageSize

\* A tag whose code is never replaced.
Steady(g) == \A b, c \in Blocks : TagOf[b] = g /\ TagOf[c] = g => b = c

\* When nobody is building a block of the code cache again, the shadow of its key has
\* exactly its slots, each with the block's own instruction, even after several threads
\* built it at once and filled arrays made by each other.
SlotsResolve ==
  \A c \in code :
    Steady(TagOf[c.block]) /\ (\A t \in Threads : ~ Holds(t, c.key)) =>
      ip[c.key] = [i \in 0 .. SlotNum[c.block] - 1 |-> c.block]
=============================================================================
